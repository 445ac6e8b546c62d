------------------------------ MODULE TileView ------------------------------
(***************************************************************************)
(* What clients believe to be on a tile (tile.cpp, protocolgame.cpp).  A   *)
(* client gets a tile once as a whole, its first Limit things, and from    *)
(* then on changes: a thing at a place in the stack is added, updated or   *)
(* taken away.  The place is another for each player, since a creature is  *)
(* left out for those who cannot see it, and each change has to be told    *)
(* with the place that the thing has, or had, for that player.  Nobody     *)
(* checks: a client that is told a wrong place shows something else from   *)
(* then on.                                                                *)
(*                                                                         *)
(* An item is its looks, its kind; only its place on the tile tells it     *)
(* from others.  The watchers stand still and are none of the creatures.   *)
(* Where the code is known to tell nothing or a wrong place, that copy of  *)
(* the tile is `stray' until the client gets the tile as a whole again.    *)
(***************************************************************************)
EXTENDS Integers, FiniteSets, SequencesExt

CONSTANTS
    Tiles, Watchers, Visitors,
    Sight,          \* the tiles each watcher sees: ProtocolGame::canSee of a position
    Senses,         \* the watchers who see hidden creatures
    Hiders,         \* the creatures that may be invisible or ghosts
    Grounds, TopItems, DownItems,  \* kinds of items, by their place in the stack
    NoGround,       \* a tile without ground
    TopOrder,       \* alwaysOnTopOrder of a kind in TopItems
    Splashes,       \* isSplash
    MagicFields, Lasting,  \* isMagicField, and those that are not isReplacable
    Limit,          \* the things a client shows of a tile: 10
    TileRoom        \* bound: the items on all tiles, grounds aside

VARIABLES
    tile,    \* ground, top items, creatures and down items of each tile, in the server's order
    hidden,  \* those that are invisible or ghosts now
    view,    \* for each watcher and tile the stack that its client shows
    stray    \* <<watcher, tile>>: the copy is not what the tile is, and nobody knows

tileVars == <<tile, hidden, view, stray>>

ASSUME ViewAssumption ==
    /\ Sight \in [Watchers -> SUBSET Tiles] /\ Senses \subseteq Watchers /\ Hiders \subseteq Visitors
    /\ Splashes \subseteq TopItems /\ Lasting \subseteq MagicFields /\ MagicFields \subseteq DownItems
    /\ Grounds \cap TopItems = {} /\ DownItems \cap (Grounds \cup TopItems \cup Visitors) = {}
    /\ NoGround \notin Grounds
    /\ TopOrder \in [TopItems -> Nat] /\ Limit \in Nat \ {0} /\ TileRoom \in Nat

TilesTyped ==
    /\ \A t \in Tiles : /\ tile[t].ground \in Grounds \cup {NoGround}
                        /\ tile[t].top \in Seq(TopItems) /\ tile[t].down \in Seq(DownItems)
                        /\ tile[t].creatures \in Seq(Visitors) /\ IsInjective(tile[t].creatures)
    /\ hidden \subseteq Hiders
    /\ \A v \in Watchers, t \in Tiles :
          view[v][t] \in Seq(Grounds \cup TopItems \cup Visitors \cup DownItems) /\ Len(view[v][t]) =< Limit
    /\ stray \subseteq Watchers \X Tiles

-----------------------------------------------------------------------------
(* The stack, for the server and for a player                              *)

canSeeCreature(v, c, h) == c \notin h \/ v \in Senses

Ground(T) == IF T.ground = NoGround THEN <<>> ELSE <<T.ground>>

\* The creatures that v sees, in the order of the client: the last of the vector first.
Visible(v, creatures, h) ==
    LET upTo[n \in 0..Len(creatures)] ==
          IF n = 0 THEN <<>>
          ELSE IF canSeeCreature(v, creatures[n], h) THEN <<creatures[n]>> \o upTo[n - 1]
          ELSE upTo[n - 1]
    IN upTo[Len(creatures)]

\* All that v would see of a tile, and what of it is described to the client.
Stack(v, T, h) == Ground(T) \o T.top \o Visible(v, T.creatures, h) \o T.down
Shown(s) == SubSeq(s, 1, Min({Limit, Len(s)}))
GetTileDescription(v, T, h) == Shown(Stack(v, T, h))

\* Places in a tile: the ground, the i-th of a list.
Place(part, i) == [part |-> part, at |-> i]
PlaceOf(T, c) == Place("creatures", CHOOSE i \in DOMAIN T.creatures : T.creatures[i] = c)
Places(T) == {Place("ground", 1) : g \in {T.ground} \ {NoGround}}
    \cup {Place("top", i) : i \in DOMAIN T.top} \cup {Place("down", i) : i \in DOMAIN T.down}
Kind(T, p) == IF p.part = "ground" THEN T.ground ELSE T[p.part][p.at]

\* Slip: the server's own index (__getIndexOfThing), which counts the creatures in the order of
\* the vector, with those the player does not see.
ServerIndexOfThing(v, T, h, p) ==
    LET below == Len(Ground(T))
    IN CASE p.part = "ground" -> 0
         [] p.part = "top" -> below + p.at - 1
         [] p.part = "creatures" -> below + Len(T.top) + p.at - 1
         [] p.part = "down" -> below + Len(T.top) + Len(T.creatures) + p.at - 1

\* A creature that is asked for is counted even if the player does not see it.
getClientIndexOfThing(v, T, h, p) ==
    LET below == Len(Ground(T))
    IN CASE p.part = "ground" -> 0
         [] p.part = "top" -> below + p.at - 1
         [] p.part = "creatures" ->
               below + Len(T.top) + Len(Visible(v, SubSeq(T.creatures, p.at + 1, Len(T.creatures)), h))
         [] p.part = "down" -> below + Len(T.top) + Len(Visible(v, T.creatures, h)) + p.at - 1

-----------------------------------------------------------------------------
(* What a client does with a message about a stack.  Places from Limit on  *)
(* are not sent; what is pushed out of the shown part is forgotten.        *)

Added(s, k, thing) == LET at == Min({k, Len(s)}) IN
    IF k >= Limit THEN s ELSE Shown(SubSeq(s, 1, at) \o <<thing>> \o SubSeq(s, at + 1, Len(s)))
Updated(s, k, thing) == IF k \in 0..Len(s) - 1 THEN [s EXCEPT ![k + 1] = thing] ELSE s
Removed(s, k) == IF k \in 0..Len(s) - 1 THEN RemoveAt(s, k + 1) ELSE s
\* A creature that a client moves by itself comes behind the creatures it shows there.
BehindCreatures(s) == Cardinality({i \in DOMAIN s : s[i] \notin DownItems})

-----------------------------------------------------------------------------
(* Scenes: the tiles with their copies, and what a call makes of them      *)

Scene == [tile |-> tile, view |-> view, lost |-> stray]
TilesBecome(s) ==
    /\ tile' = s.tile /\ stray' = s.lost
    /\ view' = [v \in Watchers |-> [t \in Tiles |-> IF <<v, t>> \in s.lost THEN <<>> ELSE s.view[v][t]]]

\* Each watcher who sees t is told of it; Message(v, shown) is what it shows then.
Tell(s, t, Message(_, _)) == [s EXCEPT !.view =
    [v \in Watchers |-> IF t \in Sight[v] /\ <<v, t>> \notin s.lost
                        THEN [s.view[v] EXCEPT ![t] = Message(v, s.view[v][t])] ELSE s.view[v]]]

\* Those to whom something is uncovered that they were never sent, when the thing at place p
\* of tile t goes away for the watchers of who.
Uncovered(s, t, p, who) == {<<v, t>> : v \in {u \in who : t \in Sight[u]
    /\ Len(Stack(u, s.tile[t], hidden)) > Limit
    /\ getClientIndexOfThing(u, s.tile[t], hidden, p) < Limit}}

\* onUpdateTile: the tile as a whole for those who see it.
onUpdateTile(s, t) == LET found == [s EXCEPT !.lost = @ \ {<<v, t>> : v \in {u \in Watchers : t \in Sight[u]}}]
    IN Tell(found, t, LAMBDA v, was : GetTileDescription(v, s.tile[t], hidden))

\* An item comes to a place of its list.
AddAt(s, t, p, k) == LET T == [s.tile[t] EXCEPT ![p.part] = InsertAt(@, p.at, k)] IN
    [Tell(s, t, LAMBDA v, was : Added(was, getClientIndexOfThing(v, T, hidden, p), k)) EXCEPT !.tile[t] = T]

\* An item goes; each player's place of it was asked for before.
RemoveThing(s, t, p) ==
    LET T == s.tile[t]
        U == IF p.part = "ground" THEN [T EXCEPT !.ground = NoGround]
             ELSE [T EXCEPT ![p.part] = RemoveAt(@, p.at)]
    IN [Tell(s, t, LAMBDA v, was : Removed(was, getClientIndexOfThing(v, T, hidden, p)))
        EXCEPT !.tile[t] = U, !.lost = @ \cup Uncovered(s, t, p, Watchers)]

AddGround(s, t, k) == LET U == [s EXCEPT !.tile[t].ground = k] IN
    IF s.tile[t].ground = NoGround THEN Tell(U, t, LAMBDA v, was : Added(was, 0, k))
    ELSE onUpdateTile(U, t)

\* A splash takes the place of another; an item on top comes before those of no lower order.
AddTop(s, t, k) ==
    LET old == SelectInSeq(s.tile[t].top, LAMBDA j : j \in Splashes)
        U == IF k \in Splashes /\ old > 0 THEN RemoveThing(s, t, Place("top", old)) ELSE s
        T == U.tile[t]
        next == SelectInSeq(T.top, LAMBDA j : TopOrder[k] =< TopOrder[j])
    IN AddAt(U, t, Place("top", IF next > 0 THEN next ELSE Len(T.top) + 1), k)

\* A field takes the place of another, or is freed if that one lasts.
AddDown(s, t, k) ==
    LET old == SelectInSeq(s.tile[t].down, LAMBDA j : j \in MagicFields)
    IN CASE k \in MagicFields /\ old > 0 /\ s.tile[t].down[old] \in Lasting -> s
         [] k \in MagicFields /\ old > 0 /\ s.tile[t].down[old] \notin Lasting ->
               AddAt(RemoveThing(s, t, Place("down", old)), t, Place("down", 1), k)
         [] OTHER -> AddAt(s, t, Place("down", 1), k)

\* Tile::__addThing of an item.
AddThing(s, t, k) == CASE k \in Grounds -> AddGround(s, t, k)
                       [] k \in TopItems -> AddTop(s, t, k)
                       [] k \in DownItems -> AddDown(s, t, k)

WithKind(T, p, k) == IF p.part = "ground" THEN [T EXCEPT !.ground = k] ELSE [T EXCEPT ![p.part][p.at] = k]

\* Tile::__updateThing: the same item with another id or count.
UpdateThing(s, t, p, k) == LET T == WithKind(s.tile[t], p, k) IN
    [Tell(s, t, LAMBDA v, was : Updated(was, getClientIndexOfThing(v, T, hidden, p), k)) EXCEPT !.tile[t] = T]

\* Tile::__replaceThing: another item in the same place.  The players are to be told the place
\* of the old one, which is not there any more: nobody is told.
ReplaceThing(s, t, p, k) ==
    [s EXCEPT !.tile[t] = WithKind(@, p, k),
              !.lost = @ \cup {<<v, t>> : v \in {u \in Watchers : t \in Sight[u] /\
                                  getClientIndexOfThing(u, s.tile[t], hidden, p) < Limit}}]

-----------------------------------------------------------------------------
(* What happens                                                            *)

TileInit ==
    /\ tile \in [Tiles -> {[ground |-> g, top |-> <<>>, creatures |-> <<>>, down |-> <<>>] :
                           g \in Grounds \cup {NoGround}}]
    /\ hidden = {} /\ stray = {}
    /\ view = [v \in Watchers |-> [t \in Tiles |->
                  IF t \in Sight[v] THEN GetTileDescription(v, tile[t], {}) ELSE <<>>]]

ItemsOnTiles == MapThenSumSet(LAMBDA t : Len(tile[t].top) + Len(tile[t].down), Tiles)

AddTileItem(t, k) ==
    /\ TilesBecome(AddThing(Scene, t, k)) /\ UNCHANGED hidden
    /\ ItemsOnTiles' =< TileRoom

RemoveTileItem(t) ==
    /\ \E p \in Places(tile[t]) : TilesBecome(RemoveThing(Scene, t, p))
    /\ UNCHANGED hidden

\* Game::transformItem.  Between the two halves of the stack it removes and adds; a kind of
\* the same type is an update, one of another type replaces the item.
transformItem(t, p, k) ==
    LET was == Kind(tile[t], p) IN
    /\ k # was /\ (k \in Grounds <=> was \in Grounds)
    /\ TilesBecome(CASE (k \in TopItems) # (was \in TopItems) -> AddThing(RemoveThing(Scene, t, p), t, k)
                     [] (k \in TopItems) = (was \in TopItems) /\ (k \in MagicFields) = (was \in MagicFields) ->
                           UpdateThing(Scene, t, p, k)
                     [] (k \in TopItems) = (was \in TopItems) /\ (k \in MagicFields) # (was \in MagicFields) ->
                           ReplaceThing(Scene, t, p, k))
    /\ UNCHANGED hidden

On(c, t) == \E i \in DOMAIN tile[t].creatures : tile[t].creatures[i] = c
WithCreature(T, c) == [T EXCEPT !.creatures = <<c>> \o @]
WithoutCreature(T, c) == [T EXCEPT !.creatures = RemoveAt(@, PlaceOf(T, c).at)]

\* Who sees the creature is told the place it has for him.
Appears(s, t, c, who, h) == LET T == s.tile[t] IN
    Tell(s, t, LAMBDA v, was : IF v \in who THEN Added(was, getClientIndexOfThing(v, T, h, PlaceOf(T, c)), c)
                               ELSE was)
Disappears(s, t, c, who) == LET T == s.tile[t] IN
    [Tell(s, t, LAMBDA v, was : IF v \in who
              THEN Removed(was, getClientIndexOfThing(v, T, hidden, PlaceOf(T, c))) ELSE was)
        EXCEPT !.lost = @ \cup Uncovered(s, t, PlaceOf(T, c), who)]

Seers(c, h) == {v \in Watchers : canSeeCreature(v, c, h)}

placeCreature(c, t) ==
    /\ \A u \in Tiles : ~On(c, u)
    /\ TilesBecome(Appears([Scene EXCEPT !.tile[t] = WithCreature(@, c)], t, c, Seers(c, hidden), hidden))
    /\ UNCHANGED hidden

removeCreature(c, t) ==
    /\ On(c, t)
    /\ TilesBecome([Disappears(Scene, t, c, Seers(c, hidden)) EXCEPT !.tile[t] = WithoutCreature(@, c)])
    /\ UNCHANGED hidden

\* Tile::moveCreature.  The old places are asked for every player in the list, but handed out
\* one after the other to those who see the creature: who comes behind one who does not see it
\* gets the place of another.
OldStackpos(list, c, T, v) ==
    LET seers == SelectSeq(list, LAMBDA u : u \in Seers(c, hidden))
        turn == CHOOSE i \in DOMAIN seers : seers[i] = v
    IN getClientIndexOfThing(list[turn], T, hidden, PlaceOf(T, c))

\* A client that sees both tiles is told to carry what is at the old place over, or, if it is a
\* teleport or the old place is not shown, both ends; a client that sees one is told that end.
moveCreature(c, from, to, teleport, list) ==
    LET T == tile[from]
        U == WithCreature(tile[to], c)
        Own(v) == Min({Limit, getClientIndexOfThing(v, T, hidden, PlaceOf(T, c))})
        Told(v) == Min({Limit, OldStackpos(list, c, T, v)})
        Sees(t) == {v \in Seers(c, hidden) : t \in Sight[v]}
        misled == {v \in Sees(from) : Told(v) # Own(v)}
        carried == {v \in Sees(from) \cap Sees(to) : ~teleport /\ Told(v) < Limit}
        astray == {v \in carried : v \in misled \/ <<v, from>> \in stray}
        gone == Tell(Scene, from, LAMBDA v, was : IF v \in Sees(from) THEN Removed(was, Told(v)) ELSE was)
        come == Tell(gone, to, LAMBDA v, was :
                    CASE v \in carried -> Added(was, BehindCreatures(was), c)
                      [] v \in Sees(to) \ carried ->
                            Added(was, getClientIndexOfThing(v, U, hidden, PlaceOf(U, c)), c)
                      [] OTHER -> was)
    IN /\ On(c, from) /\ from # to
       /\ tile[to].ground = NoGround => teleport
       /\ TilesBecome([come EXCEPT !.tile[from] = WithoutCreature(T, c), !.tile[to] = U,
              !.lost = @ \cup {<<v, from>> : v \in misled} \cup {<<v, to>> : v \in astray}
                         \cup Uncovered(Scene, from, PlaceOf(T, c), Sees(from))])
       /\ UNCHANGED hidden

\* internalCreatureChangeVisible, after the condition has come or gone: those who see hidden
\* creatures get another outfit, the others lose or get the creature.
Hide(c, t) ==
    /\ On(c, t) /\ c \notin hidden /\ hidden' = hidden \cup {c}
    /\ TilesBecome(Disappears(Scene, t, c, Watchers \ Senses))

Unhide(c, t) ==
    /\ On(c, t) /\ c \in hidden /\ hidden' = hidden \ {c}
    /\ TilesBecome(Appears(Scene, t, c, Watchers \ Senses, hidden'))

\* Game::playerUpdateTile, for a client that asks for the tile as a whole.
playerUpdateTile(v, t) ==
    /\ t \in Sight[v]
    /\ view' = [view EXCEPT ![v][t] = GetTileDescription(v, tile[t], hidden)]
    /\ stray' = stray \ {<<v, t>>} /\ UNCHANGED <<tile, hidden>>

Lists == {f \in [1..Cardinality(Watchers) -> Watchers] : IsInjective(f)}
\* The order matters only if somebody in the list does not see the creature.
ListsFor(c) == IF Seers(c, hidden) = Watchers THEN {CHOOSE list \in Lists : TRUE} ELSE Lists

TileNext ==
    \/ \E t \in Tiles, k \in Grounds \cup TopItems \cup DownItems : AddTileItem(t, k)
    \/ \E t \in Tiles : RemoveTileItem(t)
    \/ \E t \in Tiles, k \in Grounds \cup TopItems \cup DownItems : \E p \in Places(tile[t]) : transformItem(t, p, k)
    \/ \E c \in Visitors, t \in Tiles : placeCreature(c, t) \/ removeCreature(c, t)
    \/ \E c \in Hiders, t \in Tiles : Hide(c, t) \/ Unhide(c, t)
    \/ \E c \in Visitors, from, to \in Tiles, teleport \in BOOLEAN : \E list \in ListsFor(c) :
          moveCreature(c, from, to, teleport, list)
    \/ \E v \in Watchers, t \in Tiles : playerUpdateTile(v, t)

TileSpec == TileInit /\ [][TileNext]_tileVars

-----------------------------------------------------------------------------
\* Every client shows of each tile in its sight what is there: the first Limit things of the
\* stack in the server's order, without the creatures that its player cannot see, whatever was
\* added, updated, moved, hidden or taken away since it got the tile, unless its copy is stray.
CopiesTrue == \A v \in Watchers : \A t \in Sight[v] :
    <<v, t>> \in stray \/ view[v][t] = GetTileDescription(v, tile[t], hidden)

\* The copies that clients have are those of well-formed tiles, and true.
TilesShown == TilesTyped /\ CopiesTrue
=============================================================================
