------------------------------ MODULE MCWorld -------------------------------
(***************************************************************************)
(* The world for TLC: values for the constants of World, and an instance   *)
(* of the component Money as a further part.  A step of that leaves the    *)
(* variables of World alone, so each behaviour here is one of WorldSpec.   *)
(* Monsters that differ in nothing are interchangeable.                    *)
(***************************************************************************)
EXTENDS World, TLC

CONSTANTS m1, m2, p1, f1, f2, i1, i2, single, block, free

VARIABLES
    coins, ground, bill

mVars == <<coins, ground, bill>>

\* A torch that burns down and can be put out, what is left of it, which is swept
\* away, and what does not decay.
MCDecayTo == [k \in DecayKinds |->
    CASE k = "lit" -> "stump" [] k = "stump" -> Nobody [] OTHER -> Never]
MCDecayTime == [k \in DecayKinds |-> CASE k = "lit" -> 4 [] k = "stump" -> 2 [] OTHER -> 0]
MCStopTime == [k \in DecayKinds |-> k = "out"]

MCRefType == single :> "single" @@ block :> "block" @@ free :> "none"

MCNowhere == <<0, 0>>
MCLandings == {<<1, 1>>, <<3, 2>>}
MCSpots == {<<1, 1>>, <<2, 1>>, <<2, 3>>}

\* A ring that turns when it is worn and vanishes, boots that turn and wear out, a
\* band that does not turn.
Worn == {"ring", "ringOn", "band", "boots", "bootsOn", "spent"}
Turns(f) == [k \in Worn |-> IF k \in DOMAIN f THEN f[k] ELSE Nobody]
MCSlots == {"finger", "feet"}
MCSlotOf == [k \in Worn |-> IF k \in {"boots", "bootsOn", "spent"} THEN "feet" ELSE "finger"]
MCActive == Worn \ {"spent"}
MCWears == Turns("ring" :> "ringOn" @@ "boots" :> "bootsOn")
MCUnwears == Turns("ringOn" :> "ring" @@ "bootsOn" :> "boots")
MCWareDecayTo == [k \in Worn |-> CASE k = "ringOn" -> Nobody [] k = "bootsOn" -> "spent" [] OTHER -> k]
MCSpeed == [k \in Worn |-> CASE k = "ringOn" -> 4 [] k = "band" -> 2 [] k = "bootsOn" -> 1 [] OTHER -> 0]
MCShield == [k \in Worn |-> k \in {"ringOn", "band"}]
MCParalyses == {-1, -2}
MCGiven == {i1 :> "ring" @@ i2 :> k : k \in {"ring", "band", "boots"}}

M == INSTANCE Money WITH
    Coins <- {1, 3}, StackSize <- 3, Slots <- 3, Width <- 4, Prices <- {1, 2, 5}, MaxWealth <- 12,
    purse <- coins

ASSUME MoneyIsFit == M!MoneyAssumption

MCInit ==
    /\ WorldInit /\ M!Init
    \* A part that keeps still starts in one way only.
    /\ part # "spawn" => spawn = {}
    /\ part # "equipment" => wearer.kind[i2] = "band"
    /\ part # "sight" => standing = <<2, 2>>

MCNext ==
    \/ WorldNext /\ UNCHANGED mVars
    \/ part = "money" /\ M!Next /\ UNCHANGED worldVars

MCSpec == MCInit /\ [][MCNext]_<<worldVars, mVars>>

Symmetry == Permutations({m1, m2})

-----------------------------------------------------------------------------
\* Money: a price is paid exactly.
PricesExact == M!PricesExact
=============================================================================
