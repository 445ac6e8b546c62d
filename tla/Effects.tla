------------------------------ MODULE Effects -------------------------------
(***************************************************************************)
(* What a player wears and what it does to him: equip events (movement.cpp:*)
(* EquipItem, DeEquipItem) as moves, transformations and decay call them   *)
(* (game.cpp: internalMoveItem, transformItem, internalDecayItem), and     *)
(* conditions that change speed (creature.cpp, condition.cpp).             *)
(*                                                                         *)
(* Abilities are a speed and a mana shield.  Some kinds turn into another  *)
(* when they are put on and back when they are taken off; these            *)
(* transformations take the item off and put it on again in the middle of  *)
(* the event that caused them.  Operators give the wearer after a call.    *)
(* Percentages of skills, several items that work in one slot's stead, and *)
(* kinds that are replaced by a new object are left out.                   *)
(***************************************************************************)
EXTENDS Integers, FiniteSetsExt

CONSTANTS
    Items, Kinds, NoKind, Slots,
    slotOf,   \* kind -> its slot
    active,   \* the kinds with equip events
    wears,    \* transformEquipTo
    unwears,  \* transformDeEquipTo
    decayTo,  \* kind -> a kind; NoKind when it vanishes, the kind itself when it lasts
    speed, shield, \* abilities
    Hastes, Paralyses, \* the changes of speed there are
    Given     \* the kinds items may be at first

\* As in data/items/items.xml and data/movements/movements.xml: what turns when it is
\* put on has no abilities of its own, and turns into a kind that does not turn again
\* and has its events for the same slot.
EffectsAssumption ==
    /\ IsFiniteSet(Items) /\ NoKind \notin Kinds /\ active \subseteq Kinds /\ Given \subseteq [Items -> Kinds]
    /\ slotOf \in [Kinds -> Slots] /\ speed \in [Kinds -> Int] /\ shield \in [Kinds -> BOOLEAN]
    /\ \A f \in {wears, unwears, decayTo} : f \in [Kinds -> Kinds \cup {NoKind}]
    /\ \A k \in Kinds : wears[k] # NoKind =>
         /\ speed[k] = 0 /\ ~shield[k] /\ wears[wears[k]] = NoKind
         /\ k \in active => wears[k] \in active /\ slotOf[wears[k]] = slotOf[k]
    /\ "bag" \notin Slots /\ "gone" \notin Slots /\ "spell" \notin Slots
    /\ Hastes \subseteq Nat \ {0} /\ \A d \in Paralyses : d \in Int /\ d < 0

VARIABLE wearer

Types == {"haste", "paralyze"}
Other(type) == IF type = "haste" THEN "paralyze" ELSE "haste"

Wearers == [
    kind : [Items -> Kinds],
    at : [Items -> Slots \cup {"bag", "gone"}],
    enabled : SUBSET Slots,        \* itemAbility
    varSpeed : Int,
    delta : [Types -> Int],        \* speedDelta of the condition, 0 when there is none
    over : SUBSET Types,           \* those whose time has passed
    shields : SUBSET (Slots \cup {"spell"}), \* ids of the conditions for a mana shield
    fit : BOOLEAN]                 \* has level, vocation and premium for what he wears
TypeOK == wearer \in Wearers

Init == wearer \in [
    kind : Given, at : {[i \in Items |-> "bag"]}, enabled : {{}}, varSpeed : {0},
    delta : {[t \in Types |-> 0]}, over : {{}}, shields : {{}}, fit : {TRUE}]

-----------------------------------------------------------------------------
(* movement.cpp                                                            *)

\* setItemAbility with what the abilities do, and undo.
Don(w, s, k) == [w EXCEPT
    !.enabled = @ \cup {s}, !.varSpeed = @ + speed[k], !.shields = IF shield[k] THEN @ \cup {s} ELSE @]
Doff(w, s, k) == [w EXCEPT
    !.enabled = @ \ {s}, !.varSpeed = @ - speed[k], !.shields = IF shield[k] THEN @ \ {s} ELSE @]

HasEvent(w, i, s) == w.kind[i] \in active /\ slotOf[w.kind[i]] = s
Equips(w, i, s) == HasEvent(w, i, s) /\ s \notin w.enabled /\ w.fit
SetKind(w, i, k) == [w EXCEPT !.kind[i] = k]
Worn(w, i) == w.at[i] \in Slots

\* DeEquipItem when the item stays where it is.
Stays(w, i, s) == IF HasEvent(w, i, s) /\ s \in w.enabled THEN Doff(w, s, w.kind[i]) ELSE w

\* EquipItem; the item's kind is the one it had at first, also after it has turned.
EquipTurned(w, i, s) == IF Equips(w, i, s) THEN Don(w, s, w.kind[i]) ELSE w
Turned(w, i, k) ==
    IF Worn(w, i) THEN EquipTurned(SetKind(Stays(w, i, w.at[i]), i, k), i, w.at[i]) ELSE SetKind(w, i, k)
EquipItem(w, i, s) ==
    LET k == w.kind[i]
    IN IF Equips(w, i, s) THEN Don(IF wears[k] # NoKind THEN Turned(w, i, wears[k]) ELSE w, s, k) ELSE w

\* transformItem, for kinds that keep the object: off, another kind, and on again.
transformItem(w, i, k) ==
    IF Worn(w, i) THEN EquipItem(SetKind(Stays(w, i, w.at[i]), i, k), i, w.at[i]) ELSE SetKind(w, i, k)

\* Slip: the abilities of what the item has turned into are taken off.
DeEquipItemTurned(w, i, s) ==
    IF ~HasEvent(w, i, s) \/ s \notin w.enabled THEN w
    ELSE LET k == w.kind[i]
             u == IF unwears[k] # NoKind /\ w.at[i] # "gone" THEN transformItem(w, i, unwears[k]) ELSE w
         IN Doff(u, s, u.kind[i])

\* DeEquipItem when the item has left the slot: it turns in its new place, if it
\* has one.
DeEquipItem(w, i, s) ==
    IF ~HasEvent(w, i, s) \/ s \notin w.enabled THEN w
    ELSE LET k == w.kind[i]
             u == IF unwears[k] # NoKind /\ w.at[i] # "gone" THEN transformItem(w, i, unwears[k]) ELSE w
         IN Doff(u, s, k)

-----------------------------------------------------------------------------
(* game.cpp                                                                *)

\* Out of its slot into the bag, or out of the world.
Leaves(w, i, to) == DeEquipItem([w EXCEPT !.at[i] = to], i, w.at[i])
\* Into its slot, which is empty: __queryAdd has asked EquipItem whether it may.
Enters(w, i) ==
    LET s == slotOf[w.kind[i]]
    IN IF w.kind[i] \in active /\ ~w.fit THEN w ELSE EquipItem([w EXCEPT !.at[i] = s], i, s)

\* internalMoveItem.  In an exchange the other item is out before __queryAdd is
\* asked for the second time.
MoveIn(i) ==
    /\ wearer.at[i] = "bag"
    /\ LET there == {j \in Items : wearer.at[j] = slotOf[wearer.kind[i]]}
       IN \/ there = {} /\ wearer' = Enters(wearer, i)
          \/ \E j \in there : wearer' = Enters(Leaves(wearer, j, "bag"), i)
MoveOut(i) == Worn(wearer, i) /\ wearer' = Leaves(wearer, i, "bag")

\* internalRemoveItem
Removed(w, i) == IF Worn(w, i) THEN Leaves(w, i, "gone") ELSE [w EXCEPT !.at[i] = "gone"]
Destroy(i) == wearer.at[i] # "gone" /\ wearer' = Removed(wearer, i)

internalDecayItem(i) ==
    LET to == decayTo[wearer.kind[i]]
    IN /\ wearer.at[i] # "gone" /\ to # wearer.kind[i]
       /\ wearer' = IF to = NoKind THEN Removed(wearer, i) ELSE transformItem(wearer, i, to)

\* Levels are lost, premium ends, and comes back; nothing is taken off for it.
ChangeFit == wearer' = [wearer EXCEPT !.fit = ~@]

-----------------------------------------------------------------------------
(* creature.cpp, condition.cpp                                             *)

\* Of some types the conditions end.
Ended(w, types, t) == IF t \in types THEN w.delta[t] ELSE 0
End(w, types) == [w EXCEPT
    !.varSpeed = @ - Ended(w, types, "haste") - Ended(w, types, "paralyze"),
    !.delta = [t \in Types |-> IF t \in types THEN 0 ELSE @[t]], !.over = @ \ types]

\* addCondition: a new one ends the opposite one (onAddCondition), if that is not
\* over but only not swept yet; a second one replaces the values of the first.
addCondition(w, type, d) ==
    LET u == [w EXCEPT !.delta[type] = d, !.varSpeed = @ + d - w.delta[type], !.over = @ \ {type}]
    IN IF w.delta[type] = 0 /\ Other(type) \notin w.over THEN End(u, {Other(type)}) ELSE u

AddSpeed ==
    \/ \E d \in Hastes : wearer' = addCondition(wearer, "haste", d)
    \/ \E d \in Paralyses : wearer' = addCondition(wearer, "paralyze", d)
AddShield == wearer' = [wearer EXCEPT !.shields = @ \cup {"spell"}]
Expire == \E t \in Types : wearer.delta[t] # 0 /\ wearer' = [wearer EXCEPT !.over = @ \cup {t}]
executeConditions == \E end \in SUBSET {"spell"} :
    wearer' = [End(wearer, wearer.over) EXCEPT !.shields = @ \ end]
\* removeCondition by its type, whoever gave it.
RemoveSpeed == \E t \in Types : wearer' = End(wearer, {t})
RemoveShield == wearer' = [wearer EXCEPT !.shields = {}]

-----------------------------------------------------------------------------

EquipWorn(i, w) == IF Worn(w, i) THEN EquipItem(w, i, w.at[i]) ELSE w

\* A login makes a new object.  Of the conditions a spell gave those are stored that
\* are persistent; a haste and a paralysis that were both stored end each other.
\* Then all that is worn is equipped anew.
Login ==
    \E type \in Types, kept \in BOOLEAN, end \in SUBSET {"spell"} :
        LET d == wearer.delta[type]
            fresh == [wearer EXCEPT
                !.enabled = {}, !.varSpeed = 0, !.delta = [t \in Types |-> 0], !.over = {},
                !.shields = @ \ (Slots \cup end)]
            stored == IF kept /\ d # 0 THEN addCondition(fresh, type, d) ELSE fresh
        IN wearer' = FoldSet(EquipWorn, stored, Items)

Next ==
    \/ \E i \in Items : MoveIn(i) \/ MoveOut(i) \/ Destroy(i) \/ internalDecayItem(i)
    \/ ChangeFit \/ AddSpeed \/ AddShield \/ Expire \/ executeConditions
    \/ RemoveSpeed \/ RemoveShield \/ Login

Spec == Init /\ [][Next]_wearer

-----------------------------------------------------------------------------

SpeedOf == [i \in Items |-> speed[wearer.kind[i]]]
Wearing(s) == {i \in Items : wearer.at[i] = s}

\* A player has the speed of what he wears with effect and of his conditions, no
\* more and no less, however they came and went; a slot that has effect holds one
\* item; and the shield an item gave ends with it.
\* (movement.cpp, EquipItem, DeEquipItem; condition.cpp, ConditionSpeed)
EffectsOwn ==
    /\ wearer.varSpeed = wearer.delta["haste"] + wearer.delta["paralyze"]
         + MapThenSumSet(LAMBDA i : SpeedOf[i], {i \in Items : wearer.at[i] \in wearer.enabled})
    /\ \A s \in wearer.enabled : Cardinality(Wearing(s)) = 1
    /\ wearer.shields \ {"spell"} \subseteq wearer.enabled
=============================================================================
