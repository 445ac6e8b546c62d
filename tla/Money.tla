------------------------------- MODULE Money --------------------------------
(***************************************************************************)
(* Paying with coins (game.cpp: removeMoney, addMoney): all stacks that a  *)
(* container and those in it hold, in the order in which they are found,   *)
(* are taken from the least worth on until the price is met; what the last *)
(* one was worth too much is given back in new stacks, on the ground       *)
(* where there is no room.                                                 *)
(*                                                                         *)
(* Coins do not refuse to be removed.  The worth is counted in signed      *)
(* numbers of Width bits.                                                  *)
(***************************************************************************)
EXTENDS Integers, Sequences, SequencesExt, TLC

CONSTANTS
    Coins,     \* the worths of Item::items.getMoneyMap
    StackSize, \* 100
    Slots,     \* how many stacks the container has room for
    Width,     \* 32
    Prices, MaxWealth  \* bounds

MoneyAssumption ==
    /\ 1 \in Coins /\ Coins \subseteq Nat
    /\ {StackSize, Slots, Width} \subseteq Nat \ {0}
    /\ Prices \subseteq 1..2^(Width - 1) - 1 /\ MaxWealth \in Nat

VARIABLES
    purse,  \* the stacks found, as <<coin, count>>
    ground, \* what fell from it
    bill    \* the last price asked, and whether it was paid

moneyVars == <<purse, ground, bill>>

Worth(s) == s[1] * s[2]
Sum(ss) == FoldLeft(LAMBDA n, s : n + Worth(s), 0, ss)
Wealth == Sum(purse) + ground

TypeOK ==
    /\ purse \in Seq(Coins \X (1..StackSize)) /\ Len(purse) <= Slots
    /\ ground \in Nat /\ bill \in [price : Int, paid : BOOLEAN]

Init == purse = <<>> /\ ground = 0 /\ bill = [price |-> 0, paid |-> FALSE]

\* As a signed number of the width.
Wrapped(n) == LET m == n % 2^Width IN IF m < 2^(Width - 1) THEN m ELSE m - 2^Width

-----------------------------------------------------------------------------

\* addMoney: as many of the dearest coin as go, then of the next, in whole stacks.
Stacks(coin, n) ==
    [i \in 1..(n + StackSize - 1) \div StackSize |->
        <<coin, IF i * StackSize <= n THEN StackSize ELSE n % StackSize>>]
Change(money) ==
    FoldLeft(LAMBDA acc, coin : [left |-> acc.left % coin,
                                 given |-> acc.given \o Stacks(coin, acc.left \div coin)],
             [left |-> money, given |-> <<>>],
             SetToSortSeq(Coins, LAMBDA a, b : a > b)).given

\* The walk through moneyMap: what is kept, what is still owed, what comes back.
\* Slip: a stack is taken only while it is not worth more than what is owed.
TakeWhole(acc, s) ==
    IF acc.owed = 0 \/ Worth(s) > acc.owed THEN [acc EXCEPT !.kept = Append(@, s)]
    ELSE [acc EXCEPT !.owed = @ - Worth(s)]
Take(acc, s) ==
    IF acc.owed = 0 THEN [acc EXCEPT !.kept = Append(@, s)]
    ELSE IF Worth(s) > acc.owed THEN [acc EXCEPT !.owed = 0, !.back = Worth(s) - acc.owed]
    ELSE [acc EXCEPT !.owed = @ - Worth(s)]

\* removeMoney.  The order of the stacks that stay does not matter.
Pay(price) ==
    LET taken == FoldLeft(Take, [kept |-> <<>>, owed |-> price, back |-> 0],
                          SortSeq(purse, LAMBDA s, t : Worth(s) < Worth(t)))
        given == Change(taken.back)
        fit == IF Len(given) <= Slots - Len(taken.kept) THEN Len(given) ELSE Slots - Len(taken.kept)
    IN \/ /\ Wrapped(Sum(purse)) < price
          /\ bill' = [price |-> price, paid |-> FALSE] /\ UNCHANGED <<purse, ground>>
       \/ /\ Wrapped(Sum(purse)) >= price
          /\ bill' = [price |-> price, paid |-> taken.owed = 0]
          /\ purse' = taken.kept \o SubSeq(given, 1, fit)
          /\ ground' = ground + Sum(SubSeq(given, fit + 1, Len(given)))

\* Loot, or the ground's coins taken up.
Find(coin, n) ==
    /\ Len(purse) < Slots /\ Wealth + coin * n <= MaxWealth
    /\ purse' = Append(purse, <<coin, n>>) /\ UNCHANGED <<ground, bill>>
Leave == ground > 0 /\ ground' = 0 /\ UNCHANGED <<purse, bill>>

Next ==
    \/ \E p \in Prices : Pay(p)
    \/ \E c \in Coins, n \in 1..StackSize : Find(c, n)
    \/ Leave

Spec == Init /\ [][Next]_moneyVars

-----------------------------------------------------------------------------
(* Properties                                                              *)

\* Whatever coins are in which stacks, and however little room there is for
\* change: who pays is poorer by the price and by nothing else, who does not is
\* as rich as before, and who has enough pays unless the sum leaves its width.
PricesExact ==
    [][\A p \in Prices : bill'.price = p /\ Pay(p) =>
         /\ bill'.paid => Wealth' = Wealth - p
         /\ ~bill'.paid => Wealth' = Wealth /\ (Sum(purse) < p \/ Sum(purse) >= 2^(Width - 1))]_moneyVars
=============================================================================
