CONSTANTS
    ann = ann  bob = bob  bag1 = bag1  bag2 = bag2  gold = gold  ring = ring
    NoPlayer = NoPlayer  NoItem = NoItem
    Players <- MCPlayers  Bags <- MCBags  Items <- MCItems
    BagSize = 2
    Capacity <- MCCapacity
SPECIFICATION Spec
SYMMETRY Symmetry
INVARIANTS OnePlace BackpackOwn OffersStand
PROPERTIES OfferUnchanged
