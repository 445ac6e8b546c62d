-------------------------------- MODULE Rent --------------------------------
(***************************************************************************)
(* One house that is bought, sold, paid for and lost (talkaction.cpp:      *)
(* houseBuy, houseSell; house.cpp: setOwnerEx, payRent, payHouse), with    *)
(* its row and those of the players, which are saved at different moments, *)
(* and the crash that leaves the rows alone (iomapserialize.cpp).          *)
(*                                                                         *)
(* Time is in days.  A purse is what bank or depot of the town hold, in    *)
(* rents: that of a player in the game is in memory, that of another in    *)
(* his row, and payHouse works on a copy of it that it throws away.        *)
(***************************************************************************)
EXTENDS Integers

CONSTANTS
    Players, Nobody,
    Period,       \* days that a rent is good for: HOUSE_RENT_PERIOD
    Warnings,     \* warningsLimit
    Price, SkipInitialRent,
    MaxPurse, LastDay  \* bounds

RentAssumption ==
    /\ Nobody \notin Players /\ {Period, Warnings} \subseteq Nat \ {0}
    /\ LastDay \in Nat \ {0} /\ {Price, MaxPurse} \subseteq Nat /\ SkipInitialRent \in BOOLEAN

VARIABLES
    today, online,
    purse,    \* of the players in the game; of the others nothing is meant
    savedPurse,
    house,    \* the House
    row,      \* its row
    sale,     \* the trade of its document: <<seller, buyer>>, or <<>>
    bidder    \* who has won its auction, in a table of its own

purses == <<purse, savedPurse>>
rentVars == <<today, online, purses, house, row, sale, bidder>>

Days == 0..LastDay
\* owner, and the days: paidUntil and lastWarning with 0 for never; deadline is
\* not in the code: what the letters gave the owner
Houses == [owner : Players \cup {Nobody}, paidUntil : 0..LastDay + Period,
           rentWarnings : 0..Warnings, lastWarning : Days, deadline : 0..LastDay + Warnings]

TypeOK ==
    /\ today \in Days /\ online \subseteq Players
    /\ {purse, savedPurse} \subseteq [Players -> 0..MaxPurse]
    /\ {house, row} \subseteq Houses
    /\ sale \in {<<>>} \cup (Players \X Players)
    /\ bidder \in Players \cup {Nobody}

Unowned == [owner |-> Nobody, paidUntil |-> 0, rentWarnings |-> 0, lastWarning |-> 0,
            deadline |-> 0]

Init ==
    /\ today = 1 /\ online = {} /\ house = Unowned /\ row = Unowned
    /\ purse = [p \in Players |-> MaxPurse] /\ savedPurse = purse
    /\ sale = <<>> /\ bidder = Nobody

-----------------------------------------------------------------------------
(* The handlers' parts                                                     *)

\* setOwnerEx: what was owed goes with the owner before, and the row follows
\* at once.
Owned(h, p) ==
    LET left == IF h.owner = Nobody THEN h ELSE [h EXCEPT !.paidUntil = 0, !.rentWarnings = 0]
    IN [left EXCEPT !.owner = p, !.deadline = 0,
                    !.lastWarning = IF p = Nobody THEN 0 ELSE today]

\* payRent of somebody who can.
Paid(h) == [h EXCEPT !.paidUntil = today + Period, !.rentWarnings = 0, !.lastWarning = 0]

Involved(p) == sale # <<>> /\ p \in {sale[1], sale[2]}

-----------------------------------------------------------------------------
(* Players                                                                 *)

Login(p) ==
    /\ p \notin online /\ online' = online \cup {p} /\ purse' = [purse EXCEPT ![p] = savedPurse[p]]
    /\ UNCHANGED <<today, savedPurse, house, row, sale, bidder>>

\* A logout saves the player, and ends his trade.
Logout(p) ==
    /\ p \in online /\ online' = online \ {p}
    /\ savedPurse' = [savedPurse EXCEPT ![p] = purse[p]]
    /\ sale' = IF Involved(p) THEN <<>> ELSE sale
    /\ UNCHANGED <<today, purse, house, row, bidder>>

Earn(p) ==
    /\ p \in online /\ purse[p] < MaxPurse /\ purse' = [purse EXCEPT ![p] = @ + 1]
    /\ UNCHANGED <<today, online, savedPurse, house, row, sale, bidder>>

\* houseBuy: the first rent is given after the row was written.
Buy(p) ==
    /\ p \in online /\ house.owner = Nobody /\ bidder = Nobody /\ purse[p] >= Price
    /\ purse' = [purse EXCEPT ![p] = @ - Price]
    /\ row' = Owned(house, p)
    /\ house' = IF SkipInitialRent
                THEN [row' EXCEPT !.paidUntil = today + Period, !.lastWarning = 0] ELSE row'
    /\ UNCHANGED <<today, online, savedPurse, sale, bidder>>

\* houseSell asks payRent without a time: only a house that was never paid for
\* costs a rent first.  The document is then on offer.
Sell(p, q) ==
    /\ {p, q} \subseteq online /\ p # q /\ house.owner = p /\ sale = <<>>
    /\ \/ house.paidUntil > 0 /\ UNCHANGED <<purse, house>>
       \/ /\ house.paidUntil = 0 /\ purse[p] > 0
          /\ purse' = [purse EXCEPT ![p] = @ - 1] /\ house' = Paid(house)
    /\ sale' = <<p, q>>
    /\ UNCHANGED <<today, online, savedPurse, row, bidder>>

CancelSale ==
    /\ sale # <<>> /\ sale' = <<>>
    /\ UNCHANGED <<today, online, purses, house, row, bidder>>

\* The document's onTradeEvent: whoever owns the house by now.
Transfer ==
    /\ sale # <<>> /\ sale' = <<>>
    /\ IF house.owner = sale[2] THEN UNCHANGED <<house, row>>
       ELSE house' = Owned(house, sale[2]) /\ row' = house'
    /\ UNCHANGED <<today, online, purses, bidder>>

\* A web page lets one bid for a house that nobody owns.
Bid(p) ==
    /\ bidder = Nobody /\ row.owner = Nobody /\ bidder' = p
    /\ UNCHANGED <<today, online, purses, house, row, sale>>

-----------------------------------------------------------------------------
(* Houses::check, of the global save or a shutdown                         *)

Due == house.owner # Nobody /\ house.paidUntil <= today
Funds == IF house.owner \in online THEN purse[house.owner] ELSE savedPurse[house.owner]

\* Who is not in the game pays from a copy that is deleted.
Pay ==
    /\ Due /\ Funds > 0
    /\ house' = Paid(house)
    /\ purse' = IF house.owner \in online THEN [purse EXCEPT ![house.owner] = @ - 1] ELSE purse
    /\ UNCHANGED <<today, online, savedPurse, row, sale, bidder>>

Later(d, e) == IF d < e THEN e ELSE d
Lettered(h) ==
    [h EXCEPT !.rentWarnings = @ + 1, !.lastWarning = today,
              !.deadline = Later(@, today + (Warnings - h.rentWarnings))]

\* Slip: a letter with each check.
WarnAgain ==
    /\ Due /\ Funds = 0 /\ house.rentWarnings < Warnings
    /\ house' = Lettered(house)
    /\ UNCHANGED <<today, online, purses, row, sale, bidder>>

\* A day passes between two letters; each has one day less to offer.
Warned == today >= house.lastWarning + 1
Warn ==
    /\ Due /\ Funds = 0 /\ Warned /\ house.rentWarnings < Warnings
    /\ house' = Lettered(house)
    /\ UNCHANGED <<today, online, purses, row, sale, bidder>>

Evict ==
    /\ Due /\ Funds = 0 /\ Warned /\ house.rentWarnings = Warnings
    /\ house' = Owned(house, Nobody) /\ row' = house'
    /\ UNCHANGED <<today, online, purses, sale, bidder>>

-----------------------------------------------------------------------------
(* Saving and starting                                                     *)

\* saveGameState
Save ==
    /\ savedPurse' = [p \in Players |-> IF p \in online THEN purse[p] ELSE savedPurse[p]]
    /\ row' = house
    /\ UNCHANGED <<today, online, purse, house, sale, bidder>>

\* A crash, at once or between the players and the map of a save.  At the start
\* updateAuctions hands the house to its bidder, and loadHouses takes it back.
Crash ==
    /\ online' = {} /\ sale' = <<>> /\ bidder' = Nobody /\ house' = row
    /\ savedPurse' \in {savedPurse, [p \in Players |-> IF p \in online THEN purse[p] ELSE savedPurse[p]]}
    /\ UNCHANGED <<today, purse, row>>

Tomorrow ==
    /\ today < LastDay /\ today' = today + 1
    /\ UNCHANGED <<online, purses, house, row, sale, bidder>>

Next ==
    \/ \E p \in Players : Login(p) \/ Logout(p) \/ Earn(p) \/ Buy(p) \/ Bid(p)
    \/ \E p, q \in Players : Sell(p, q)
    \/ CancelSale \/ Transfer \/ Pay \/ Warn \/ Evict \/ Save \/ Crash \/ Tomorrow

Spec == Init /\ [][Next]_rentVars

-----------------------------------------------------------------------------
(* Properties                                                              *)

\* "Have it within ... days or you will lose your house": however checks, saves,
\* crashes and changes of hands follow each other, an owner who does not sell
\* loses his house for the rent alone, never without a letter, and after the days
\* that each letter gave him which the house's row knows of; and a crash takes or
\* gives no house, since whoever owns it is written when he gets it.
LettersKept ==
    [][/\ house.owner # Nobody /\ house'.owner = Nobody => house.deadline \in 1..today
       /\ row'.owner = house'.owner]_rentVars

=============================================================================
