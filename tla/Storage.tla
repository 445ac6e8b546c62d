------------------------------- MODULE Storage -------------------------------
(***************************************************************************)
(* How items are written to the database and read again (iologindata.cpp:  *)
(* saveItems, loadItems and their callers; iomapserialize.cpp: both forms  *)
(* in which the tiles of houses are kept, as rows and as a stream).        *)
(*                                                                         *)
(* Rows name an item by a running id (sid) and what it is in by another    *)
(* (pid); the stream has an item, the count of what it holds and those.    *)
(* A list is put together again by adding at its front, so that either     *)
(* form has to be read in the reverse of the order that the game has, and  *)
(* what is fixed to a house is on its tile before anything is read.        *)
(*                                                                         *)
(* The state is what a player wears, his depot and a tile of his house;    *)
(* each step puts one item somewhere else.  Saving and loading are         *)
(* functions of it.  An item is its identity; its attributes are written   *)
(* and read with it.  Fixed items differ in their types.                   *)
(***************************************************************************)
EXTENDS Integers, Sequences, FiniteSets, SequencesExt

CONSTANTS
    Slots,            \* inventory slots, numbers below the first sid
    Movables, Fixed,  \* items that can be taken, and those of the map
    Boxes,            \* items of either kind that are containers
    Depot, DepotId,   \* the player's depot in the town of the house
    NoItem

VARIABLES world

Items == Movables \cup Fixed
Holders == Boxes \cup {Depot}
FirstSid == 101

StorageAssumption ==
    /\ Slots \subseteq 1..10 /\ DepotId \in 0..99
    /\ Boxes \subseteq Items /\ Movables \cap Fixed = {}
    /\ Depot \notin Items /\ NoItem \notin Items \cup {Depot}

TypeOK ==
    /\ world.slots \in [Slots -> Movables \cup {NoItem}]
    /\ world.tile \in Seq(Items)
    /\ world.inside \in [Holders -> Seq(Movables)]

\* After a start: the tile as the map has it, with what is fixed there.
Fresh == [slots |-> [s \in Slots |-> NoItem], tile |-> SetToSeq(Fixed), inside |-> [b \in Holders |-> <<>>]]

Put(w, b, i) == [w EXCEPT !.inside[b] = <<i>> \o @]
PutOnTile(w, i) == [w EXCEPT !.tile = <<i>> \o @]

-----------------------------------------------------------------------------
(* Rows                                                                    *)

Row(pid, sid, i) == [pid |-> pid, sid |-> sid, item |-> i]

\* The list grows while it is gone through: each container adds rows for what it holds.
RECURSIVE WithContents(_, _, _, _)
WithContents(w, rows, base, n) ==
    IF n > Len(rows) THEN rows
    ELSE LET row == rows[n]
             held == IF row.item \in Holders THEN w.inside[row.item] ELSE <<>>
             more == [k \in DOMAIN held |-> Row(row.sid, base + Len(rows) + k, held[k])]
         IN WithContents(w, rows \o more, base, n + 1)

\* IOLoginData::saveItems: blocks are the items at the top with their places.
saveItems(w, blocks) ==
    WithContents(w, [n \in DOMAIN blocks |-> Row(blocks[n].pid, FirstSid + n - 1, blocks[n].item)],
                 FirstSid - 1, 1)

\* IOMapSerialize::saveItems: the tile from its top on.
saveTileItems(w) ==
    LET kept == SelectSeq(w.tile, LAMBDA i : i \in Movables \cup Boxes)
    IN WithContents(w, [n \in DOMAIN kept |-> Row(0, n, kept[n])], 0, 1)

HasSid(rows, sid) == \E n \in DOMAIN rows : rows[n].sid = sid
BySid(rows, sid) == CHOOSE i \in Items \cup {Depot} : \E n \in DOMAIN rows : rows[n].sid = sid /\ rows[n].item = i

\* The container whose row is pid gets the item at its front, if there is one.
IntoContainer(w, rows, row) ==
    IF HasSid(rows, row.pid) /\ BySid(rows, row.pid) \in Holders
    THEN Put(w, BySid(rows, row.pid), row.item) ELSE w

\* Slip: the rows in the order of their ids.
FirstToLast(rows) == rows
LastToFirst(rows) == Reverse(rows)

\* savePlayer and loadPlayer, of which each has the inventory and the depots.
savePlayer(w) ==
    LET worn == SelectSeq(SetToSortSeq(Slots, <), LAMBDA s : w.slots[s] # NoItem)
    IN [items |-> saveItems(w, [n \in DOMAIN worn |-> [pid |-> worn[n], item |-> w.slots[worn[n]]]]),
        depots |-> saveItems(w, <<[pid |-> DepotId, item |-> Depot]>>)]

loadPlayer(w, saved) ==
    LET Worn1(v, row) == IF row.pid \in 1..10 THEN [v EXCEPT !.slots[row.pid] = row.item]
                         ELSE IntoContainer(v, saved.items, row)
        Depot1(v, row) == IF row.pid \in 0..99 THEN v ELSE IntoContainer(v, saved.depots, row)
    IN FoldLeft(Depot1, FoldLeft(Worn1, w, LastToFirst(saved.items)), LastToFirst(saved.depots))

\* IOMapSerialize::loadItems: what lies on the tile is put there as it is read, by
\* falling ids; what is fixed is found there; then the containers are filled.  For a
\* transfer all goes to the depot, which also stands for a container that is fixed.
loadTileItems(w, rows, transfer) ==
    LET known == [n \in DOMAIN rows |->
                    IF transfer /\ rows[n].item \in Fixed THEN [rows[n] EXCEPT !.item = Depot] ELSE rows[n]]
        Top(v, row) == IF row.pid # 0 \/ row.item \notin Movables THEN v
                       ELSE IF transfer THEN Put(v, Depot, row.item) ELSE PutOnTile(v, row.item)
        Fill(v, row) == IntoContainer(v, known, row)
    IN FoldLeft(Fill, FoldLeft(Top, w, Reverse(rows)), LastToFirst(known))

-----------------------------------------------------------------------------
(* The stream                                                              *)

Mark(is, value) == [is |-> is, value |-> value]
End == Mark("end", 0)

RECURSIVE saveItem(_, _)
saveItem(w, i) ==
    <<Mark("item", i)>>
    \o (IF i \in Boxes
        THEN <<Mark("count", Len(w.inside[i]))>>
             \o FlattenSeq([n \in DOMAIN w.inside[i] |-> saveItem(w, Reverse(w.inside[i])[n])])
        ELSE <<>>)
    \o <<End>>

saveTile(w) ==
    LET kept == Reverse(SelectSeq(w.tile, LAMBDA i : i \in Movables \cup Boxes))
    IN <<Mark("count", Len(kept))>> \o FlattenSeq([n \in DOMAIN kept |-> saveItem(w, kept[n])])

\* What has been read into a world, and what is left of the stream.
Reading(w, stream) == [world |-> w, rest |-> stream]
Skip(r) == [r EXCEPT !.rest = Tail(@)]
OnTile == [tile |-> TRUE]
In(b) == [tile |-> FALSE, box |-> b]
Into(w, place, i) == IF place.tile THEN PutOnTile(w, i) ELSE Put(w, place.box, i)

\* The contents of a fixed container go on to the depot one by one.
Emptied(w, i) == [w EXCEPT !.inside = [@ EXCEPT ![Depot] = Reverse(w.inside[i]) \o @, ![i] = <<>>]]

\* loadItem, and loadContainer with the count that unserializeAttr has read: n items
\* into a place.
RECURSIVE loadItem(_, _, _), loadItems(_, _, _, _)
loadItem(r, place, transfer) ==
    LET i == Head(r.rest).value
        inner == IF i \in Boxes
                 THEN loadItems([r EXCEPT !.rest = Tail(Tail(@))], In(i), r.rest[2].value, FALSE)
                 ELSE Skip(r)
        done == Skip(inner)
    IN IF i \in Movables THEN [done EXCEPT !.world = Into(@, place, i)]
       ELSE IF transfer /\ i \in Boxes THEN [done EXCEPT !.world = Emptied(@, i)]
       ELSE done
loadItems(r, place, n, transfer) ==
    IF n = 0 THEN r ELSE loadItems(loadItem(r, place, transfer), place, n - 1, transfer)

loadTile(w, stream, transfer) ==
    loadItems(Reading(w, Tail(stream)), IF transfer THEN In(Depot) ELSE OnTile, Head(stream).value, transfer).world

-----------------------------------------------------------------------------
(* Items move                                                              *)

Init == world = [Fresh EXCEPT !.inside[Depot] = SetToSeq(Movables)]

Without(w, i) == [slots |-> [s \in Slots |-> IF w.slots[s] = i THEN NoItem ELSE w.slots[s]],
                  tile |-> Remove(w.tile, i),
                  inside |-> [b \in Holders |-> Remove(w.inside[b], i)]]

\* Container b is i or in i.
InItem(w, b, i) == LET Up[n \in 0..Cardinality(Boxes)] ==
                           IF n = 0 THEN {b}
                           ELSE Up[n - 1] \cup {c \in Boxes : \E d \in Up[n - 1] : d \in ToSet(w.inside[c])}
                   IN i \in Up[Cardinality(Boxes)]

Move(i) ==
    LET w == Without(world, i)
    IN \/ \E s \in Slots : w.slots[s] = NoItem /\ world' = [w EXCEPT !.slots[s] = i]
       \/ world' = PutOnTile(w, i)
       \/ \E b \in Holders : ~ InItem(world, b, i) /\ world' = Put(w, b, i)

Next == \E i \in Movables : Move(i)

Spec == Init /\ [][Next]_world

-----------------------------------------------------------------------------
(* Property                                                                *)

\* What was saved comes back as it was, in the same order, in both forms.
BackAsItWas ==
    LET w == loadPlayer(Fresh, savePlayer(world))
    IN /\ loadTileItems(w, saveTileItems(world), FALSE) = world
       /\ loadTile(w, saveTile(world), FALSE) = world

\* When the house is to be handed over at the start (updateHouses, loadHouses), the owner's
\* depot has everything that could be taken, once: what lay on the tile and what was
\* in fixed containers, with what their containers held.
HandedOver(v) ==
    /\ IsInjective(v.inside[Depot])
    /\ ToSet(v.inside[Depot]) = ToSet(world.inside[Depot]) \cup (ToSet(world.tile) \cap Movables)
                                \cup UNION {ToSet(world.inside[b]) : b \in Boxes \cap Fixed}
    /\ \A b \in Boxes : v.inside[b] = IF b \in Fixed THEN <<>> ELSE world.inside[b]
    /\ v.slots = world.slots /\ v.tile = Fresh.tile

\* Items come back from the database where they were, or in the depot of who lost the house.
LoadsWhatWasSaved ==
    /\ BackAsItWas
    /\ LET w == loadPlayer(Fresh, savePlayer(world))
       IN HandedOver(loadTileItems(w, saveTileItems(world), TRUE)) /\ HandedOver(loadTile(w, saveTile(world), TRUE))
=============================================================================
