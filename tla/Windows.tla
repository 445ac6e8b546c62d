------------------------------- MODULE Windows -------------------------------
(***************************************************************************)
(* Containers that players look into (player.cpp: containerVec and         *)
(* autoCloseContainers; container.cpp: onAddContainerItem and its kind;    *)
(* game.cpp: playerUseItem, playerMoveUpContainer, playerCloseContainer).  *)
(*                                                                         *)
(* A player's containerVec holds raw pointers under the ids of the windows *)
(* his client shows; items are taken from and put into whatever it says.   *)
(* No window has an owner that watches the container: each move, removal,  *)
(* change of an item and step of a player has to close, or send again, the *)
(* windows it concerns, through the notifications of the place that the    *)
(* item leaves and of the one where it arrives.                            *)
(*                                                                         *)
(* Tiles are few enough for everybody to see all of them, and for a change *)
(* in a container to reach all who may have it open.  The order of items   *)
(* on a tile does not matter here.  A player wears one thing at a time.    *)
(***************************************************************************)
EXTENDS Lists

CONSTANTS
    Players, Tiles,
    Near,        \* for each tile, those within one step of it
    Bags, Coins, \* items that are containers, and others
    Cids,        \* for each player the ids of his windows
    Gone         \* where an item is that is deleted

VARIABLES
    pos,      \* where each player stands
    parent,   \* what each item is in or on
    contents, \* itemlist of each container
    open,     \* Player::containerVec
    window    \* for each player and id the window that the client shows

vars == <<pos, parent, contents, open, window>>

Items == Bags \cup Coins
Closed == [bag |-> Gone, things |-> <<>>, hasParent |-> FALSE]
Shows == [bag : Bags \cup {Gone}, things : Seq(Items), hasParent : BOOLEAN]

WindowsAssumption ==
    /\ Cids \in [Players -> SUBSET Nat]
    /\ Tiles # {} /\ Near \in [Tiles -> SUBSET Tiles] /\ \A t \in Tiles : t \in Near[t]
    /\ Bags \cap Coins = {}
    /\ Tiles \cap (Players \cup Items \cup {Gone}) = {} /\ Players \cap (Items \cup {Gone}) = {}
    /\ Gone \notin Items

TypeOK ==
    /\ pos \in [Players -> Tiles]
    /\ parent \in [Items -> Tiles \cup Players \cup Bags \cup {Gone}]
    /\ contents \in [Bags -> Seq(Items)]
    /\ \A p \in Players : /\ open[p] \in Seq([cid : Cids[p], bag : Bags])
                        /\ window[p] \in [Cids[p] -> Shows]

-----------------------------------------------------------------------------
(* Scenes: the variables as one, and where things are in them              *)

Scene == [pos |-> pos, parent |-> parent, contents |-> contents, open |-> open, window |-> window]

\* The containers that item i is in, and i itself if it is one: those that are in every set
\* which has the container of i and of each of its own.
Upward(s, i) == {C \in SUBSET Bags : \A j \in C \cup {i} : s.parent[j] \in Bags => s.parent[j] \in C}
Chain(s, i) == {b \in Bags : b = i \/ \A C \in Upward(s, i) : b \in C}

\* The tile or player that has i, if it is not deleted.
Holder(s, i) == CHOOSE h \in Tiles \cup Players \cup {Gone} : \E j \in Chain(s, i) \cup {i} : s.parent[j] = h
\* The same of a place: a tile, a player or a container.
HolderOf(s, place) == IF place \in Bags THEN Holder(s, place) ELSE place
isRemoved(s, i) == Holder(s, i) = Gone

getPosition(s, h) == IF h \in Players THEN s.pos[h] ELSE h
InRange(s, p, i) == ~ isRemoved(s, i) /\ getPosition(s, Holder(s, i)) \in Near[s.pos[p]]

-----------------------------------------------------------------------------
(* What clients are told                                                   *)

View(s, b) == [bag |-> b, things |-> s.contents[b], hasParent |-> s.parent[b] \in Bags]

Having(s, p, b) == {c \in Cids[p] : \E k \in DOMAIN s.open[p] : s.open[p][k] = [cid |-> c, bag |-> b]}

\* A message for window c of player p, and for all of his windows that have b.
Show(s, p, c, view) == [s EXCEPT !.window[p][c] = view]
ShowAll(s, p, b, view) ==
    [s EXCEPT !.window[p] = [c \in Cids[p] |-> IF c \in Having(s, p, b) THEN view ELSE @[c]]]

onSendContainer(s, p, b) == ShowAll(s, p, b, View(s, b))
onCloseContainer(s, p, b) == ShowAll(s, p, b, Closed)

Without(things, n) == OnlyAt(things, DOMAIN things \ {n})

\* A client that is told of a window it does not show does nothing.
Changed(w, things) == IF w = Closed THEN w ELSE [w EXCEPT !.things = things]
SendChange(s, b, Change(_)) ==
    [s EXCEPT !.window = [p \in Players |-> [c \in Cids[p] |->
        IF c \in Having(s, p, b) THEN Changed(@[p][c], Change(@[p][c].things)) ELSE @[p][c]]]]

onAddContainerItem(s, b, i) == SendChange(s, b, LAMBDA things : <<i>> \o things)
onRemoveContainerItem(s, b, n) == SendChange(s, b, LAMBDA things : Without(things, n))
onUpdateContainerItem(s, b, n, i) ==
    SendChange(s, b, LAMBDA things : IF n \in DOMAIN things THEN [things EXCEPT ![n] = i] ELSE things)

-----------------------------------------------------------------------------
(* Player: the list of open containers                                     *)

getContainerID(s, p, b) == {k \in DOMAIN s.open[p] : s.open[p][k].bag = b}

addContainer(s, p, c, b) ==
    IF \E k \in DOMAIN s.open[p] : s.open[p][k].cid = c
    THEN [s EXCEPT !.open[p] = [k \in DOMAIN @ |-> IF @[k].cid = c THEN [cid |-> c, bag |-> b] ELSE @[k]]]
    ELSE [s EXCEPT !.open[p] = Append(@, [cid |-> c, bag |-> b])]

\* Windows with these ids are closed in the list, and on the screen too.
Unlisted(s, p, cids) ==
    [s EXCEPT !.open[p] = OnlyAt(@, {k \in DOMAIN @ : @[k].cid \notin cids})]
Shut(s, p, cids) ==
    [Unlisted(s, p, cids) EXCEPT !.window[p] = [c \in Cids[p] |-> IF c \in cids THEN Closed ELSE @[c]]]

closeContainer(s, p, c) == Unlisted(s, p, {c})

\* Slip: what is in the containers stays open.
CloseThemselves(s, p, bags) == Shut(s, p, UNION {Having(s, p, b) : b \in bags})
\* The windows of these containers, of all that is in them, and of what is removed.
autoCloseContainers(s, p, bags) ==
    LET hit(k) == \E c \in Chain(s, s.open[p][k].bag) : c \in bags \/ isRemoved(s, c)
    IN Shut(s, p, {s.open[p][k].cid : k \in {k \in DOMAIN s.open[p] : hit(k)}})

\* For item i, which has left or come, as player p sees it now.
PlayerPostAdd(s, p, i) == IF i \in Bags THEN onSendContainer(s, p, i) ELSE s
PlayerPostRemove(s, p, i) ==
    IF i \notin Bags THEN s
    ELSE IF InRange(s, p, i) /\ Holder(s, i) \in Tiles \cup {p} THEN onSendContainer(s, p, i)
    ELSE autoCloseContainers(s, p, {i})

\* Told is the player who has the place, or everybody who sees its tile.
Told(s, place) == LET h == HolderOf(s, place) IN IF h \in Players THEN {h} ELSE Players

\* Each is told of his own windows, whoever is told first.
TellEach(s, who, Tells(_)) ==
    [s EXCEPT !.open = [p \in Players |-> IF p \in who THEN Tells(p).open[p] ELSE @[p]],
              !.window = [p \in Players |-> IF p \in who THEN Tells(p).window[p] ELSE @[p]]]
postAddNotification(s, place, i) == TellEach(s, Told(s, place), LAMBDA p : PlayerPostAdd(s, p, i))
postRemoveNotification(s, place, i) == TellEach(s, Told(s, place), LAMBDA p : PlayerPostRemove(s, p, i))

-----------------------------------------------------------------------------
(* Places that items leave and come to                                     *)

IndexOf(s, b, i) == CHOOSE n \in DOMAIN s.contents[b] : s.contents[b][n] = i

RemoveThing(s, i) ==
    LET from == s.parent[i]
        n == IndexOf(s, from, i)
        out == IF from \in Bags
               THEN [onRemoveContainerItem(s, from, n) EXCEPT !.contents[from] = Without(@, n)]
               ELSE s
    IN [out EXCEPT !.parent[i] = Gone]

AddThing(s, i, place) ==
    LET in == [s EXCEPT !.parent[i] = place]
    IN IF place \in Bags
       THEN onAddContainerItem([in EXCEPT !.contents[place] = <<i>> \o @], place, i)
       ELSE in

\* internalMoveItem, without an exchange and with one, for j that makes way.
Moved(s, i, to) ==
    LET from == s.parent[i]
        there == AddThing(RemoveThing(s, i), i, to)
    IN postAddNotification(postRemoveNotification(there, from, i), to, i)
Exchanged(s, i, j) == LET to == s.parent[j] IN Moved(Moved(s, j, s.parent[i]), i, to)

-----------------------------------------------------------------------------
(* What players do                                                         *)

\* Players stand in the temple and nothing is there yet.
Init ==
    /\ pos = [p \in Players |-> CHOOSE t \in Tiles : TRUE]
    /\ parent = [i \in Items |-> Gone]
    /\ contents = [b \in Bags |-> <<>>]
    /\ open = [p \in Players |-> <<>>]
    /\ window = [p \in Players |-> [c \in Cids[p] |-> Closed]]

\* What is deleted goes with all that it holds, once the task has ended.
Becomes(s) ==
    /\ pos' = s.pos /\ open' = s.open /\ window' = s.window
    /\ parent' = [i \in Items |-> IF isRemoved(s, i) THEN Gone ELSE s.parent[i]]
    /\ contents' = [b \in Bags |-> IF isRemoved(s, b) THEN <<>> ELSE s.contents[b]]

Opened(p) == {open[p][k].bag : k \in DOMAIN open[p]}

\* What player p can name: what he wears, what lies near, what is in his windows.
Reached(p) ==
    {i \in Items : \/ parent[i] \in {p} \cup Near[pos[p]]
                   \/ parent[i] \in Opened(p) /\ InRange(Scene, p, i)}

\* playerUseItem on a container: opened with the id that the client gives, or closed.
playerUseItem(p, b, c) ==
    /\ b \in Reached(p)
    /\ LET s == Scene IN
       IF getContainerID(s, p, b) # {}
       THEN LET first == CHOOSE k \in getContainerID(s, p, b) : \A l \in getContainerID(s, p, b) : k <= l
            IN Becomes(closeContainer(onCloseContainer(s, p, b), p, open[p][first].cid))
       ELSE Becomes(onSendContainer(addContainer(s, p, c, b), p, b))

playerMoveUpContainer(p, k) ==
    LET c == open[p][k].cid
        up == parent[open[p][k].bag]
    IN up \in Bags /\ Becomes(Show(addContainer(Scene, p, c, up), p, c, View(Scene, up)))

playerCloseContainer(p, c) ==
    /\ \E k \in DOMAIN open[p] : open[p][k].cid = c
    /\ Becomes(Show(closeContainer(Scene, p, c), p, c, Closed))

\* Where p can put i: on a tile, on himself, into a container that he wears, that he has
\* open or that is in one of those; never into itself.
Targets(p, i) ==
    LET bags == {b \in Bags : b \in Opened(p) \/ parent[b] \in {p} \cup Opened(p)}
    IN Tiles \cup {b \in bags : i \notin Chain(Scene, b)}
             \cup (IF \E j \in Items : parent[j] = p THEN {} ELSE {p})

playerMoveItem(p, i) ==
    /\ i \in Reached(p)
    /\ \/ \E to \in Targets(p, i) : Becomes(Moved(Scene, i, to))
       \/ \E j \in Coins : parent[j] = p /\ j # i /\ Becomes(Exchanged(Scene, i, j))

\* A step, a push or a teleport: what is out of range then is closed.
Walk(p, t) ==
    /\ t # pos[p]
    /\ LET s == [Scene EXCEPT !.pos[p] = t]
           far == {open[p][k].bag : k \in {k \in DOMAIN open[p] : ~ InRange(s, p, open[p][k].bag)}}
       IN Becomes(autoCloseContainers(s, p, far))

-----------------------------------------------------------------------------
(* What scripts and decay do                                               *)

\* internalRemoveItem.
RemoveItem(i) ==
    /\ parent[i] # Gone
    /\ Becomes(postRemoveNotification(RemoveThing(Scene, i), parent[i], i))

\* internalAddItem of a new item, which may get the address of a deleted one.
AddItem(i, to) ==
    /\ parent[i] = Gone
    /\ to \in Bags => parent[to] # Gone
    /\ to \in Players => \A j \in Items : parent[j] # to
    /\ Becomes(postAddNotification(AddThing(Scene, i, to), to, i))

\* transformItem into one of another type: j takes the place of i, whose contents go with it.
transformItem(i, j) ==
    /\ parent[i] # Gone /\ parent[j] = Gone
    /\ LET place == parent[i]
           n == IndexOf(Scene, place, i)
           in == [Scene EXCEPT !.parent[j] = place]
           put == IF place \in Bags
                  THEN onUpdateContainerItem([in EXCEPT !.contents[place][n] = j], place, n, j)
                  ELSE in
           told == postAddNotification(put, place, j)
       IN Becomes(postRemoveNotification([told EXCEPT !.parent[i] = Gone], place, i))

Next ==
    \/ \E p \in Players :
        \/ \E b \in Bags, c \in Cids[p] : playerUseItem(p, b, c)
        \/ \E k \in DOMAIN open[p] : playerMoveUpContainer(p, k)
        \/ \E c \in Cids[p] : playerCloseContainer(p, c)
        \/ \E i \in Items : playerMoveItem(p, i)
        \/ \E t \in Tiles : Walk(p, t)
    \/ \E i \in Items : RemoveItem(i)
    \/ \E i \in Items, to \in Tiles \cup Players \cup Bags : AddItem(i, to)
    \/ \E i, j \in Items : transformItem(i, j)

Spec == Init /\ [][Next]_vars

-----------------------------------------------------------------------------
(* Property                                                                *)

\* What a player has open is there, within his reach and in nobody else's hands; and each
\* window that his client shows is one of those, with what the container holds.  (The
\* converse does not hold: a container open twice is closed twice on the screen and once
\* in containerVec, player.cpp:784 and 1692.)
WindowsTrue ==
    \A p \in Players :
        /\ \A b \in Opened(p) : InRange(Scene, p, b) /\ Holder(Scene, b) \in Tiles \cup {p}
        /\ \A c \in Cids[p] : window[p][c] # Closed =>
               \E b \in Opened(p) : c \in Having(Scene, p, b) /\ window[p][c] = View(Scene, b)
=============================================================================
