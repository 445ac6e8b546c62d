------------------------------- MODULE Trade --------------------------------
(***************************************************************************)
(* Safe trade (game.cpp: playerRequestTrade, internalStartTrade,           *)
(* playerAcceptTrade, internalCloseTrade; player.cpp: checkTradeState and  *)
(* its callers) among players who move, receive and lose items meanwhile.  *)
(*                                                                         *)
(* Everything runs in the dispatcher thread: an action is a task.  Players *)
(* are near one another and the ground where they meet, or far away.       *)
(***************************************************************************)
EXTENDS Items

VARIABLES
    world,        \* where things are; see Items
    given,        \* history: items that came into the world and were not taken from it
    near,
    tradeState, tradePartner, tradeItem,
    tradeItems    \* Game::tradeItems

trades == <<tradeState, tradePartner, tradeItem, tradeItems>>
vars == <<world, given, near, trades>>

TypeOK ==
    /\ world.inventory \in [Players -> [Slots -> Items \cup {NoItem}]]
    /\ world.contents \in [Bags -> Seq(Items)] /\ world.ground \subseteq Items
    /\ \A b \in Bags : Len(world.contents[b]) <= BagSize
    /\ world.backpack \in [Players -> [bag : Bags \cup {NoItem}, index : Nat]]
    /\ given \subseteq Items /\ near \subseteq Players
    /\ tradeState \in [Players -> {"none", "initiated", "accept", "acknowledge"}]
    /\ tradePartner \in [Players -> Players \cup {NoPlayer}]
    /\ tradeItem \in [Players -> Items \cup {NoItem}] /\ tradeItems \subseteq Items

\* The bags lie on the ground, and nothing else is there yet.
Init ==
    /\ world = [inventory |-> [p \in Players |-> [s \in Slots |-> NoItem]],
                contents |-> [b \in Bags |-> <<>>], ground |-> Bags,
                backpack |-> [p \in Players |-> NoBackpack]]
    /\ given = Bags /\ near = Players
    /\ tradeState = [p \in Players |-> "none"] /\ tradePartner = [p \in Players |-> NoPlayer]
    /\ tradeItem = [p \in Players |-> NoItem] /\ tradeItems = {}

-----------------------------------------------------------------------------
(* When a trade is closed                                                  *)

\* internalCloseTrade, for those of `who` that trade.  (\E over a single value has
\* TLC evaluate it once, here and below.)
CloseTrades(who) ==
    \E gone \in {who \cup {tradePartner[p] : p \in who}} :
    /\ tradeState' = [p \in Players |-> IF p \in gone THEN "none" ELSE tradeState[p]]
    /\ tradePartner' = [p \in Players |-> IF p \in gone THEN NoPlayer ELSE tradePartner[p]]
    /\ tradeItem' = [p \in Players |-> IF p \in gone THEN NoItem ELSE tradeItem[p]]
    /\ tradeItems' = tradeItems \ {tradeItem[p] : p \in gone \cap Players}

\* checkTradeState: i is what p offers, or in it.
InOffer(w, p, i) == tradeItem[p] # NoItem /\ i \in AndAllIn(w, {tradeItem[p]})

\* onRemoveInventoryItem and onRemoveTileItem: a bag with the offer in it counts.
TakenItself(w, p, i) == InOffer(w, p, i)
TakenWithOffer(w, p, i) ==
    InOffer(w, p, i) \/ (tradeItem[p] # NoItem /\ tradeItem[p] \in Holding(w, i))

\* onRemoveContainerItem looks for the offer in the bag the item leaves, deeper
\* than where the item was.
TakenAbove(w, p, i) ==
    \E b \in HoldersOf(w, i) : tradeItem[p] \in Holding(w, b) \ Elems(w.contents[b])

ClosedByTaking(w, i) ==
    {p \in ToldOfTaking(w, near, i) :
       IF HoldersOf(w, i) # {} THEN InOffer(w, p, i) \/ TakenAbove(w, p, i) ELSE TakenWithOffer(w, p, i)}

\* Slip: the offer may be added to.
AddedUnseen(w, i) == {}
ClosedByAdding(w, i) ==
    {p \in UNION {Watching(w, near, b) : b \in HoldersOf(w, i)} : InOffer(w, p, i)}

\* These items have been taken from their places and put into others, if into any.
Becomes(moved, w) ==
    /\ world' = w
    /\ CloseTrades(UNION {ClosedByTaking(world, i) \cup ClosedByAdding(w, i) : i \in moved})

-----------------------------------------------------------------------------
(* playerMoveItem                                                          *)

InReach(p, i) == i \in Carried(world, p) \/ (p \in near /\ i \in Lying(world))

Moved(result) == \E r \in {result} : Becomes(r.moved, r.world)

\* Into a bag, onto the ground, to a free slot, or anywhere the player has room.
MoveIntoBag(p, i) ==
    \E b \in Bags : InReach(p, b) /\ Moved(MoveTo(world, near, p, i, Bag(b, INDEX_WHEREEVER)))
MoveToGround(p, i) == p \in near /\ Becomes({i}, Drop(Take(world, near, i), i))
MoveToSlot(p, i) ==
    \E s \in Slots :
      LET worn == world.inventory[p][s]
      IN IF worn \in Bags
         THEN worn # i /\ Moved(MoveTo(world, near, p, i, Bag(worn, INDEX_WHEREEVER)))
         ELSE worn = NoItem /\ Moved(MoveTo(world, near, p, i, Slot(s)))
MoveAnywhere(p, i) ==
    \E r \in MoveToPlayer(world, near, p, i, tradeItem[p], TRUE) : Moved(r)

\* RET_NEEDEXCHANGE: what is worn goes where the item comes from, and then the
\* item may turn out not to fit.
Exchange(p, i) ==
    \E s \in Slots :
      LET worn == world.inventory[p][s]
          taken == Take(world, near, worn)
          swapped == IF i \in world.ground THEN {Drop(taken, worn)}
                     ELSE {PutIn(taken, near, b, 0, worn) :
                             b \in {c \in HoldersOf(world, i) : /\ Len(world.contents[c]) < BagSize
                                                                /\ CanPutIn(world, c, 0, worn)}}
      IN /\ worn \notin Bags \cup {NoItem, i} /\ Fits(s, i)
         /\ \E w \in swapped :
              \E r \in {MoveTo(w, near, p, i, Slot(s))} : Becomes({worn} \cup r.moved, r.world)

MoveItem(p, i) ==
    /\ InReach(p, i) /\ UNCHANGED <<given, near>>
    /\ MoveIntoBag(p, i) \/ MoveToGround(p, i) \/ MoveToSlot(p, i) \/ MoveAnywhere(p, i) \/ Exchange(p, i)

-----------------------------------------------------------------------------
(* Items come and go                                                       *)

\* internalPlayerAddItem of a new item: to the player, else to his feet.  What
\* falls far from the meeting place is no more of interest.
Reward(p, i) ==
    /\ i \notin given \cup Bags
    /\ \E r \in AddItem(world, near, p, i, tradeItem[p], TRUE, FALSE) :
         /\ Becomes({i}, IF r.ok THEN r.world ELSE IF p \in near THEN Drop(r.world, i) ELSE r.world)
         /\ given' = IF r.ok \/ p \in near THEN given \cup {i} ELSE given
    /\ UNCHANGED near

\* internalRemoveItem: an item is used up, decays or is taken by a script.
RemoveItem(i) ==
    /\ i \in Placed(world) \ Bags
    /\ Becomes({i}, Take(world, near, i)) /\ given' = given \ {i}
    /\ UNCHANGED near

-----------------------------------------------------------------------------
(* The trade                                                               *)

\* Slip: only the item itself is looked up in tradeItems.
OnOfferItself(i) == i \in tradeItems
OnOffer(i) == \E o \in tradeItems : i = o \/ o \in Holding(world, i) \/ i \in Holding(world, o)

RequestTrade(p, q, i) ==
    /\ p # q /\ {p, q} \subseteq near /\ InReach(p, i) /\ ~OnOffer(i)
    /\ tradeState[p] = "none" \/ (tradeState[p] = "acknowledge" /\ tradePartner[p] = q)
    /\ tradeState[q] = "none" \/ tradePartner[q] = p
    /\ tradeState' = [tradeState EXCEPT ![p] = "initiated",
                                        ![q] = IF @ = "none" THEN "acknowledge" ELSE @]
    /\ tradePartner' = [tradePartner EXCEPT ![p] = q, ![q] = p]
    /\ tradeItem' = [tradeItem EXCEPT ![p] = i]
    /\ tradeItems' = tradeItems \cup {i}
    /\ UNCHANGED <<world, given, near>>

\* A test only: the item could come to p.  Without one there is no query.
CouldGet(w, p, i) ==
    IF i = NoItem THEN {[ok |-> FALSE, world |-> w]} ELSE AddItem(w, near, p, i, tradeItem[p], FALSE, TRUE)

\* p gets the item `his`, q gets the item `mine` of p.  The two moves are made one
\* after the other and not looked at; while they are made no trade is closed.
Transfers(p, q) ==
    LET mine == tradeItem[p]
        his == tradeItem[q]
    IN UNION {UNION {IF ~(r1.ok /\ r2.ok) THEN {r2.world}
                     ELSE UNION {{m2.world : m2 \in MoveToPlayer(m1.world, near, p, his, mine, FALSE)} :
                                   m1 \in MoveToPlayer(r2.world, near, q, mine, his, FALSE)} :
                       r2 \in CouldGet(r1.world, p, his)} :
                r1 \in CouldGet(world, q, mine)}

\* The second to accept makes the exchange; a script may deny it, and then both
\* have accepted and wait for the trade to be closed.
AcceptTrade(p) ==
    LET q == tradePartner[p]
        accepted == [tradeState EXCEPT ![p] = "accept"]
    IN /\ tradeState[p] \in {"acknowledge", "initiated"} /\ {p, q} \subseteq near
       /\ \/ tradeState' = accepted /\ UNCHANGED <<world, tradePartner, tradeItem, tradeItems>>
          \/ /\ tradeState[q] = "accept"
             /\ world' \in Transfers(p, q) /\ CloseTrades({p})
       /\ UNCHANGED <<given, near>>

CloseTrade(p) == tradeState[p] # "none" /\ CloseTrades({p}) /\ UNCHANGED <<world, given, near>>

\* onCreatureMove and onCreatureDisappear.
WalkAway(p) == p \in near /\ near' = near \ {p} /\ CloseTrades({p}) /\ UNCHANGED <<world, given>>
ComeBack(p) == p \notin near /\ near' = near \cup {p} /\ UNCHANGED <<world, given, trades>>

Next ==
    \/ \E p \in Players : CloseTrade(p) \/ AcceptTrade(p) \/ WalkAway(p) \/ ComeBack(p)
    \/ \E p \in Players, i \in Items : MoveItem(p, i) \/ Reward(p, i)
    \/ \E i \in Items : RemoveItem(i)
    \/ \E p, q \in Players, i \in Items : RequestTrade(p, q, i)

Spec == Init /\ [][Next]_vars

-----------------------------------------------------------------------------
(* Properties                                                              *)

\* Nothing is in two places or in itself: an item is worn once, or in one bag
\* once, or on the ground, and every bag can be reached from a player or the
\* ground (internalMoveItem, Container::__queryAdd).
OnePlace ==
    /\ \A i \in Placed(world) :
         Cardinality({at \in Players \X Slots : world.inventory[at[1]][at[2]] = i})
         + Cardinality({at \in Bags \X (1..BagSize) :
                          at[2] <= Len(world.contents[at[1]]) /\ world.contents[at[1]][at[2]] = i})
         + Cardinality({i} \cap world.ground) = 1
    /\ Bags \subseteq Placed(world)

\* The bag a player remembers is one that he carries and can take more, as
\* Player::backpack points to it and is used unchecked.
BackpackOwn ==
    \A p \in Players :
      LET b == world.backpack[p].bag
      IN b # NoItem => b \in Carried(world, p) /\ Len(world.contents[b]) < BagSize

\* Trades are between two; what is offered can be reached by who offers it, and
\* no item is in two offers (internalStartTrade, checkTradeState).
OffersStand ==
    /\ \A p \in Players :
         /\ tradeState[p] = "none" <=> tradePartner[p] = NoPlayer
         /\ tradePartner[p] # NoPlayer => p # tradePartner[p] /\ tradePartner[tradePartner[p]] = p
         /\ tradeItem[p] # NoItem => tradeState[p] # "none" /\ InReach(p, tradeItem[p])
         /\ tradeState[p] = "initiated" => tradeItem[p] # NoItem
    /\ tradeItems = {tradeItem[p] : p \in Players} \ {NoItem}
    /\ \A p, q \in Players :
         p # q => AndAllIn(world, {tradeItem[p]} \ {NoItem})
                  \cap AndAllIn(world, {tradeItem[q]} \ {NoItem}) = {}

\* What is in an offered bag does not change while the offer stands: what the other
\* player has seen and accepted is what he gets (checkTradeState).
OfferUnchanged ==
    [][\A p \in Players :
         tradeItem'[p] # NoItem /\ tradeItem'[p] = tradeItem[p]
         => Holding(world', tradeItem[p]) = Holding(world, tradeItem[p])]_vars

\* In a trade both get what the other offers, or neither does: who gets what
\* another carries has given his own item for it (player.cpp:2949 keeps what is
\* offered out of the places an item may go to).
BothGetTheirs ==
    [][\A p, q \in Players :
         /\ tradePartner[p] = q /\ tradeItem[q] \in Carried(world, q)
         /\ tradeItem[q] \in Carried(world', p)
         => tradeItem[p] \in Carried(world', q)]_vars

\* What came into the world is in it until it is taken from it: "Add the object to
\* the cylinder" (cylinder.h:104).
NothingVanishes == given \subseteq Placed(world)
=============================================================================
