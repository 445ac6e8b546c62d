------------------------------- MODULE Items --------------------------------
(***************************************************************************)
(* Where items are and how they move (game.cpp: internalMoveItem,          *)
(* internalAddItem; the cylinders of player.cpp and container.cpp).        *)
(*                                                                         *)
(* A world w says what is in the slots of each player, in each bag and on  *)
(* the ground, and what each player remembers as the bag for the next item *)
(* that comes from elsewhere (Player::backpack).  An operator gives the    *)
(* world after an operation, or the set of possible ones.  Items do not    *)
(* stack here, and every one weighs the same; of the slots the model has   *)
(* one for bags and one for anything.                                      *)
(***************************************************************************)
EXTENDS Lists, FiniteSets

CONSTANTS
    Players, NoPlayer,
    Items, NoItem,
    Bags,     \* items that are containers
    BagSize,  \* maxSize of a container
    Capacity  \* what each player can carry

ASSUME ItemsAssumption ==
    /\ IsFiniteSet(Items) /\ Bags \subseteq Items /\ NoItem \notin Items /\ NoPlayer \notin Players
    /\ BagSize \in Nat \ {0} /\ Capacity \in [Players -> Nat]

Slots == {"backpack", "hand"}
Fits(s, i) == s = "hand" \/ i \in Bags
INDEX_WHEREEVER == -1

Elems(seq) == {seq[n] : n \in DOMAIN seq}
Without(seq, i) == OnlyAt(seq, {n \in DOMAIN seq : seq[n] # i})

\* What is in bag b at any depth, where the bags in `closed` are not looked into.
Within(w, b, closed) ==
    LET Depth[n \in 1..Cardinality(Bags)] ==
          IF n = 1 THEN Elems(w.contents[b])
          ELSE LET above == Depth[n - 1]
               IN above \cup UNION {Elems(w.contents[c]) : c \in (above \cap Bags) \ closed}
    IN Depth[Cardinality(Bags)]

Holding(w, i) == IF i \in Bags THEN Within(w, i, {}) ELSE {}
AndAllIn(w, items) == items \cup UNION {Holding(w, i) : i \in items}

Worn(w, p) == {w.inventory[p][s] : s \in Slots} \ {NoItem}
Carried(w, p) == AndAllIn(w, Worn(w, p))
Lying(w) == AndAllIn(w, w.ground)
Placed(w) == Lying(w) \cup UNION {Carried(w, p) : p \in Players}

\* Those who are told what happens in bag b: who carries it, and who is near it.
Watching(w, near, b) ==
    LET carriers == {p \in Players : b \in Carried(w, p)}
    IN IF carriers \cap near # {} \/ b \in Lying(w) THEN carriers \cup near ELSE carriers

-----------------------------------------------------------------------------
(* May an item come in?                                                    *)

HasCapacity(w, p, i) ==
    LET carried == Carried(w, p)
    IN i \in carried \/ 1 + Cardinality(Holding(w, i)) < Capacity[p] - Cardinality(carried)

CanWear(w, p, s, i) == Fits(s, i) /\ w.inventory[p][s] = NoItem /\ HasCapacity(w, p, i)

\* Slip: a bag may go into itself, or into one that it holds.
FitsAnyBag(w, b, i) == TRUE
NotIntoItself(w, b, i) == b # i /\ b \notin Holding(w, i)
HasRoom(w, b, index) == index # INDEX_WHEREEVER \/ Len(w.contents[b]) < BagSize

CanPutIn(w, b, index, i) ==
    /\ NotIntoItself(w, b, i) /\ HasRoom(w, b, index)
    /\ \A p \in Players : b \in Carried(w, p) => HasCapacity(w, p, i)

\* Destinations: a slot of the player, an index of a bag, or none.
Slot(s) == [kind |-> "slot", at |-> s, index |-> 0]
Bag(b, n) == [kind |-> "bag", at |-> b, index |-> n]
Nowhere == [kind |-> "none", at |-> NoItem, index |-> INDEX_WHEREEVER]

CanAdd(w, p, d, i) ==
    \/ d.kind = "slot" /\ CanWear(w, p, d.at, i)
    \/ d.kind = "bag" /\ CanPutIn(w, d.at, d.index, i)

-----------------------------------------------------------------------------
(* Player::__queryDestination for an item that may come anywhere           *)

NoBackpack == [bag |-> NoItem, index |-> 0]

\* The bags that are searched: neither the item itself nor the one on offer.
Searched(w, p, skip) ==
    LET top == (Worn(w, p) \cap Bags) \ skip
    IN (top \cup UNION {Within(w, b, skip) : b \in top}) \cap (Bags \ skip)

\* Each result is a destination and the bag remembered afterwards.  The bag that
\* is remembered is taken without a look at it, one index further each time:
\* __queryAdd returns no zero.  (All that counts of an index of BagSize or more is
\* that it is one.)  Which of several fits comes first depends on the order of
\* slots and bags and is left open.
Destinations(w, p, i, offer, autoStack) ==
    LET memory == w.backpack[p]
        skip == {i, offer}
        free == {s \in Slots : CanWear(w, p, s, i)}
        room == {b \in Searched(w, p, skip) : CanPutIn(w, b, INDEX_WHEREEVER, i)}
        keep(d) == [dest |-> d, backpack |-> memory]
        remember(b) == [dest |-> Bag(b, INDEX_WHEREEVER), backpack |-> [bag |-> b, index |-> 0]]
    IN IF memory.bag # NoItem
       THEN {[dest |-> Bag(memory.bag, memory.index),
              backpack |-> [memory EXCEPT !.index = IF @ < BagSize THEN @ + 1 ELSE @]]}
       ELSE IF autoStack
       THEN IF free # {} THEN {keep(Slot(s)) : s \in free}
            ELSE IF room # {} THEN {keep(Bag(b, Len(w.contents[b]))) : b \in room} ELSE {keep(Nowhere)}
       ELSE LET first == {keep(Slot(s)) : s \in free} \cup {remember(b) : b \in room \cap Worn(w, p)}
            IN IF first # {} THEN first
               ELSE IF room # {} THEN {remember(b) : b \in room} ELSE {keep(Nowhere)}

Remembering(w, p, r) == [w EXCEPT !.backpack[p] = r.backpack]

-----------------------------------------------------------------------------
(* Taking out and putting in                                               *)

HoldersOf(w, i) == {b \in Bags : i \in Elems(w.contents[b])}
WearersOf(w, i) == {p \in Players : i \in Worn(w, p)}

\* Those who are told that i is taken from its place.  Slip: only its wearer.
ToldWearer(w, near, i) == WearersOf(w, i)
ToldOfTaking(w, near, i) ==
    WearersOf(w, i) \cup (UNION {Watching(w, near, b) : b \in HoldersOf(w, i)})
    \cup (IF i \in w.ground THEN near ELSE {})

Forget(w, who) == [w EXCEPT !.backpack = [p \in Players |-> IF p \in who THEN NoBackpack ELSE @[p]]]

\* They forget their bag, except when it is taken from the ground.
Take(w, near, i) ==
    LET told == IF i \in w.ground THEN {} ELSE ToldOfTaking(w, near, i)
    IN [Forget(w, told) EXCEPT
          !.inventory = [p \in Players |-> [s \in Slots |-> IF @[p][s] = i THEN NoItem ELSE @[p][s]]],
          !.contents = [b \in Bags |-> Without(@[b], i)],
          !.ground = @ \ {i}]

\* Slip: nobody looks whether the bag has become full.
NeverFull(w, b) == FALSE
Full(w, b) == Len(w.contents[b]) >= BagSize

\* Container::__addThing: who watches remembers the bag only if it is his, and
\* not full.  An index outside of the bag is refused without a word.
PutIn(w, near, b, index, i) ==
    IF index >= BagSize THEN w
    ELSE LET after == [w EXCEPT !.contents[b] = <<i>> \o @]
         IN Forget(after, {p \in Watching(after, near, b) :
                             w.backpack[p].bag # b \/ Full(after, b)})

Put(w, near, p, d, i) ==
    IF d.kind = "slot" THEN [w EXCEPT !.inventory[p][d.at] = i] ELSE PutIn(w, near, d.at, d.index, i)

Drop(w, i) == [w EXCEPT !.ground = @ \cup {i}]

-----------------------------------------------------------------------------
(* internalAddItem and internalMoveItem                                    *)

\* internalAddItem to player p: is there a place, and the world if it is only a
\* test, or if the item is put there.
AddItem(w, near, p, i, offer, autoStack, test) ==
    {LET seen == Remembering(w, p, r)
         ok == CanAdd(seen, p, r.dest, i)
     IN [ok |-> ok, world |-> IF ok /\ ~test THEN Put(seen, near, p, r.dest, i) ELSE seen] :
       r \in Destinations(w, p, i, offer, autoStack)}

\* Container::__queryDestination: an index too large means anywhere, and one
\* where a bag is means into that bag.
Resolved(w, d) ==
    IF d.kind # "bag" THEN d
    ELSE IF d.index >= BagSize THEN Bag(d.at, INDEX_WHEREEVER)
    ELSE IF d.index \in 0..(Len(w.contents[d.at]) - 1) /\ w.contents[d.at][d.index + 1] \in Bags
    THEN Bag(w.contents[d.at][d.index + 1], INDEX_WHEREEVER)
    ELSE d

\* The place where i already is.
IsThere(w, d, i) ==
    /\ d.kind = "bag" /\ d.index \in 0..(Len(w.contents[d.at]) - 1)
    /\ w.contents[d.at][d.index + 1] = i

\* internalMoveItem of i to a destination of p: what has moved, and the world.  A
\* bag that is full at an index takes nothing, and reports no error.
MoveTo(w, near, p, i, d) ==
    IF /\ ~IsThere(w, d, i) /\ CanAdd(w, p, d, i)
       /\ d.kind = "bag" => Len(w.contents[d.at]) < BagSize
    THEN [moved |-> {i}, world |-> Put(Take(w, near, i), near, p, d, i)]
    ELSE [moved |-> {}, world |-> w]

\* The same to anywhere p has room.
MoveToPlayer(w, near, p, i, offer, autoStack) ==
    {LET seen == Remembering(w, p, r) IN MoveTo(seen, near, p, i, Resolved(seen, r.dest)) :
       r \in Destinations(w, p, i, offer, autoStack)}
=============================================================================
