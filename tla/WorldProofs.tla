----------------------------- MODULE WorldProofs -----------------------------
(***************************************************************************)
(* What holds of the world for all values of its constants.  Each section  *)
(* is about one component: its inductive invariant, that each of its       *)
(* actions keeps it, and what follows for the component; the last one says *)
(* that the world implements each of them, and so what follows for it.     *)
(***************************************************************************)
EXTENDS World, RecursionProofs, TLAPS

-----------------------------------------------------------------------------
(* The house: for any players, prices, periods and numbers of warnings     *)

\* A house that tells its owner the truth: with n of the letters written, the last of
\* them on the day that is noted, the owner was promised no day beyond those that the
\* letters still to come will take; and nobody's house has no letters.
Truthful(h) ==
    /\ h.lastWarning <= today /\ h.deadline <= today + Warnings
    /\ h.owner = Nobody => h.rentWarnings = 0
    /\ h.rentWarnings > 0 =>
          h.deadline \in 1..(h.lastWarning + Warnings - h.rentWarnings + 1)

\* The inductive invariant.  The row is in it, since a crash makes it the house; that it
\* has the house's owner is what makes a crash give or take no house.
RentInv ==
    /\ TypeOK /\ today >= 1
    /\ row.owner = house.owner
    /\ Truthful(house) /\ Truthful(row)

Numbers ==
    /\ Nobody \notin Players /\ SkipInitialRent \in BOOLEAN
    /\ Period \in Nat /\ Period > 0 /\ Warnings \in Nat /\ Warnings > 0
    /\ Price \in Nat /\ MaxPurse \in Nat /\ LastDay \in Nat /\ LastDay > 0

LEMMA NumbersAre == ASSUME RentAssumption PROVE Numbers
BY DEF RentAssumption, Numbers

\* A new owner, or none, has a house without letters and promises.
LEMMA OwnedIsTruthful ==
    ASSUME Numbers, NEW h \in Houses, NEW p \in Players \cup {Nobody}, today \in 1..LastDay,
           h.owner = Nobody => h.rentWarnings = 0
    PROVE  /\ Owned(h, p) \in Houses /\ Owned(h, p).owner = p /\ Truthful(Owned(h, p))
           /\ Owned(h, p).rentWarnings = 0
<1> DEFINE left == IF h.owner = Nobody THEN h ELSE [h EXCEPT !.paidUntil = 0, !.rentWarnings = 0]
<1>1. left \in Houses /\ left.rentWarnings = 0
  <2>1. 0 \in 0..LastDay + Period /\ 0 \in 0..Warnings
    BY DEF Numbers
  <2>2. CASE h.owner = Nobody
    BY <2>2
  <2>3. CASE h.owner # Nobody
    BY <2>1, <2>3 DEF Houses
  <2>4. QED BY <2>2, <2>3
<1>2. Owned(h, p) = [left EXCEPT !.owner = p, !.deadline = 0,
                                 !.lastWarning = IF p = Nobody THEN 0 ELSE today]
  BY DEF Owned
<1> HIDE DEF left
<1>3. 0 \in Days /\ today \in Days /\ 0 \in 0..LastDay + Warnings /\ 0 <= today + Warnings
  BY DEF Numbers, Days
<1>4. Owned(h, p) \in Houses
  BY <1>1, <1>2, <1>3 DEF Houses
<1>5. Owned(h, p).owner = p /\ Owned(h, p).deadline = 0 /\ Owned(h, p).rentWarnings = 0
      /\ Owned(h, p).lastWarning \in {0, today}
  BY <1>1, <1>2 DEF Houses
<1>6. QED BY <1>3, <1>4, <1>5 DEF Truthful, Numbers

\* Who pays owes no letters; the promises of the letters he had are old ones.
LEMMA PaidIsTruthful ==
    ASSUME Numbers, NEW h \in Houses, today \in 1..LastDay, Truthful(h)
    PROVE  Paid(h) \in Houses /\ Truthful(Paid(h)) /\ Paid(h).owner = h.owner
<1>1. 0 \in 0..Warnings /\ 0 \in Days /\ today + Period \in 0..LastDay + Period
  BY DEF Numbers, Days
<1>2. Paid(h) \in Houses
  BY <1>1 DEF Paid, Houses
<1>3. /\ Paid(h).owner = h.owner /\ Paid(h).deadline = h.deadline
      /\ Paid(h).rentWarnings = 0 /\ Paid(h).lastWarning = 0
  BY DEF Paid, Houses
<1>4. QED BY <1>2, <1>3 DEF Truthful

\* A letter promises no day that the letters to come will not take.
LEMMA LetterIsTruthful ==
    ASSUME Numbers, NEW h \in Houses, today \in 1..LastDay, Truthful(h),
           h.owner # Nobody, h.rentWarnings < Warnings, today >= h.lastWarning + 1
    PROVE  Lettered(h) \in Houses /\ Truthful(Lettered(h)) /\ Lettered(h).owner = h.owner
<1> DEFINE given == today + (Warnings - h.rentWarnings)
<1>1. /\ h.rentWarnings \in Nat /\ h.deadline \in Nat /\ h.lastWarning \in Nat
      /\ today \in Nat /\ today >= 1 /\ today <= LastDay
  BY DEF Houses, Days
<1>2. h.rentWarnings + 1 \in 0..Warnings /\ today \in Days
  BY <1>1 DEF Numbers, Days
<1>3. given \in Nat /\ given >= 1 /\ given <= today + Warnings /\ given <= LastDay + Warnings
  BY <1>1 DEF Numbers
<1>4. h.deadline <= given
  BY <1>1 DEF Truthful, Numbers
<1>5. Later(h.deadline, given) = given
  BY <1>1, <1>3, <1>4 DEF Later
<1>6. Lettered(h) = [h EXCEPT !.rentWarnings = h.rentWarnings + 1, !.lastWarning = today,
                              !.deadline = given]
  BY <1>5 DEF Lettered
<1>7. /\ Lettered(h).owner = h.owner /\ Lettered(h).deadline = given
      /\ Lettered(h).rentWarnings = h.rentWarnings + 1 /\ Lettered(h).lastWarning = today
  BY <1>6 DEF Houses
<1>8. given = today + Warnings - (h.rentWarnings + 1) + 1
  BY <1>1 DEF Numbers
<1> HIDE DEF given
<1>9. given \in 0..LastDay + Warnings
  BY <1>3 DEF Numbers
<1>10. Lettered(h) \in Houses
  BY <1>2, <1>6, <1>9 DEF Houses
<1>11. QED BY <1>1, <1>3, <1>7, <1>8, <1>10 DEF Truthful, Numbers

LEMMA SameDay ==
    ASSUME RentInv, TypeOK', today' = today, Truthful(house'), Truthful(row'),
           row'.owner = house'.owner
    PROVE  RentInv'
BY DEF RentInv, Truthful

\* What players do, who may buy, sell, and come and go.
LEMMA BuyerStep ==
    ASSUME Numbers, RentInv, NEW p \in Players, NEW q \in Players,
           \/ Login(p) \/ Logout(p) \/ Earn(p) \/ Buy(p) \/ Bid(p) \/ Sell(p, q)
    PROVE  RentInv'
<1> USE DEF RentInv, TypeOK, purses
<1>1. today \in 1..LastDay /\ purse[p] \in 0..MaxPurse
  BY DEF Days
<1>2. CASE Login(p) \/ Logout(p) \/ Earn(p) \/ Bid(p)
  <2>1. house' = house /\ row' = row /\ today' = today
    BY <1>2 DEF Login, Logout, Earn, Bid
  <2>2. purse' \in [Players -> 0..MaxPurse]
    BY <1>1, <1>2 DEF Login, Logout, Earn, Bid, Numbers
  <2>3. savedPurse' \in [Players -> 0..MaxPurse]
    BY <1>1, <1>2 DEF Login, Logout, Earn, Bid
  <2>4. online' \subseteq Players /\ sale' \in {<<>>} \cup (Players \X Players)
        /\ bidder' \in Players \cup {Nobody}
    BY <1>2 DEF Login, Logout, Earn, Bid
  <2>5. QED BY <2>1, <2>2, <2>3, <2>4 DEF Truthful
<1>3. CASE Buy(p)
  <2>1. /\ row' \in Houses /\ row'.owner = p /\ Truthful(row') /\ row'.rentWarnings = 0
    BY <1>1, <1>3, OwnedIsTruthful DEF Buy, Truthful
  <2>2. purse' \in [Players -> 0..MaxPurse]
    BY <1>1, <1>3 DEF Buy, Numbers
  <2>3. 0 \in Days /\ today + Period \in 0..LastDay + Period
    BY <1>1 DEF Days, Numbers
  <2>4. house' \in {row', [row' EXCEPT !.paidUntil = today + Period, !.lastWarning = 0]}
    BY <1>3 DEF Buy
  <2>5. house' \in Houses /\ house'.owner = p
        /\ house'.rentWarnings = 0 /\ house'.deadline = row'.deadline
        /\ house'.lastWarning \in {0, row'.lastWarning}
    BY <2>1, <2>3, <2>4 DEF Houses
  <2>6. UNCHANGED <<today, online, savedPurse, sale, bidder>>
    BY <1>3 DEF Buy
  <2>7. TypeOK'
    BY <2>1, <2>2, <2>5, <2>6
  <2>8. Truthful(house')
    BY <1>1, <2>1, <2>5 DEF Truthful, Numbers
  <2>9. QED BY <2>1, <2>5, <2>6, <2>7, <2>8, SameDay
<1>4. CASE Sell(p, q)
  <2>1. house' \in Houses /\ Truthful(house') /\ house'.owner = house.owner
    BY <1>1, <1>4, PaidIsTruthful DEF Sell
  <2>2. purse' \in [Players -> 0..MaxPurse]
    <3>1. purse[p] > 0 => purse[p] - 1 \in 0..MaxPurse
      BY <1>1 DEF Numbers
    <3>2. QED BY <1>4, <3>1 DEF Sell
  <2>3. sale' = <<p, q>> /\ UNCHANGED <<today, online, savedPurse, row, bidder>>
    BY <1>4 DEF Sell
  <2>4. TypeOK'
    BY <2>1, <2>2, <2>3
  <2>5. QED BY <2>1, <2>3, <2>4, SameDay
<1>5. QED BY <1>2, <1>3, <1>4

\* The sale's end, what the check of a house does, saves, crashes and days.
LEMMA HouseStep ==
    ASSUME Numbers, RentInv, CancelSale \/ Transfer \/ Pay \/ Warn \/ Evict \/ Save \/ Crash \/ Tomorrow
    PROVE  RentInv'
<1> USE DEF RentInv, TypeOK, purses
<1>1. today \in 1..LastDay
  BY DEF Days
<1>2. CASE CancelSale
  BY <1>2 DEF CancelSale, Truthful
<1>3. CASE Transfer
  <2>1. sale[2] \in Players
    BY <1>3 DEF Transfer
  <2>2. \/ UNCHANGED <<house, row>>
        \/ row' = house' /\ house' = Owned(house, sale[2])
    BY <1>3 DEF Transfer
  <2>3. house' \in Houses /\ row' \in Houses /\ row'.owner = house'.owner
        /\ Truthful(house') /\ Truthful(row')
    <3>1. house.owner = Nobody => house.rentWarnings = 0
      BY DEF Truthful
    <3>2. Owned(house, sale[2]) \in Houses /\ Truthful(Owned(house, sale[2]))
      BY <1>1, <2>1, <3>1, OwnedIsTruthful
    <3>3. QED BY <2>2, <3>2
  <2>4. sale' = <<>> /\ UNCHANGED <<today, online, purses, bidder>>
    BY <1>3 DEF Transfer
  <2>5. TypeOK'
    BY <2>3, <2>4
  <2>6. QED BY <2>3, <2>4, <2>5, SameDay
<1>4. CASE Pay
  <2>1. house' \in Houses /\ Truthful(house') /\ house'.owner = house.owner
    BY <1>1, <1>4, PaidIsTruthful DEF Pay
  <2>2. house.owner \in Players /\ Funds > 0
    BY <1>4 DEF Pay, Due, Houses
  <2>3. purse' \in [Players -> 0..MaxPurse]
    <3>1. CASE house.owner \in online
      <4>1. purse[house.owner] - 1 \in 0..MaxPurse
        BY <2>2, <3>1 DEF Funds, Numbers
      <4>2. QED BY <1>4, <3>1, <4>1 DEF Pay
    <3>2. QED BY <1>4, <3>1 DEF Pay
  <2>4. UNCHANGED <<today, online, savedPurse, row, sale, bidder>>
    BY <1>4 DEF Pay
  <2>5. QED BY <2>1, <2>3, <2>4 DEF Truthful
<1>5. CASE Warn
  <2>1. house' \in Houses /\ Truthful(house') /\ house'.owner = house.owner
    BY <1>1, <1>5, LetterIsTruthful DEF Warn, Warned, Due
  <2>2. QED BY <1>5, <2>1 DEF Warn, Truthful
<1>6. CASE Evict
  <2>1. house' \in Houses /\ Truthful(house')
    BY <1>1, <1>6, OwnedIsTruthful DEF Evict, Truthful
  <2>2. QED BY <1>6, <2>1 DEF Evict, Truthful
<1>7. CASE Save
  <2>1. savedPurse' \in [Players -> 0..MaxPurse]
    BY <1>7 DEF Save
  <2>2. QED BY <1>7, <2>1 DEF Save, Truthful
<1>8. CASE Crash
  <2>1. savedPurse' \in [Players -> 0..MaxPurse]
    BY <1>8 DEF Crash
  <2>2. QED BY <1>8, <2>1 DEF Crash, Truthful
<1>9. CASE Tomorrow
  <2>1. today' = today + 1 /\ today' \in Days /\ today' >= 1
    BY <1>9 DEF Tomorrow, Days, Numbers
  <2>2. /\ UNCHANGED <<online, purse, savedPurse, house, row, sale, bidder>>
    BY <1>9 DEF Tomorrow
  <2>3. ASSUME NEW h \in Houses, Truthful(h)
        PROVE  h.lastWarning <= today + 1 /\ h.deadline <= today + 1 + Warnings
    <3>1. h.lastWarning \in Int /\ h.deadline \in Int /\ today \in Int /\ Warnings \in Int
      BY DEF Houses, Days, Numbers
    <3>2. h.lastWarning <= today /\ h.deadline <= today + Warnings
      BY <2>3 DEF Truthful
    <3>3. QED BY <3>1, <3>2
  <2>4. TypeOK'
    BY <2>1, <2>2
  <2>5. Truthful(house)' /\ Truthful(row)'
    BY <2>1, <2>2, <2>3 DEF Truthful
  <2>6. QED BY <2>1, <2>2, <2>4, <2>5
<1>10. QED BY <1>2, <1>3, <1>4, <1>5, <1>6, <1>7, <1>8, <1>9

LEMMA RentInvariant == ASSUME RentAssumption PROVE Spec => []RentInv
<1>1. ASSUME Init PROVE RentInv
  <2>1. Numbers
    BY NumbersAre
  <2>2. Unowned \in Houses /\ Truthful(Unowned)
    BY <1>1, <2>1 DEF Init, Unowned, Houses, Days, Truthful, Numbers
  <2>3. QED BY <1>1, <2>1, <2>2 DEF Init, RentInv, TypeOK, Numbers, Days, purses
<1>2. RentInv /\ [Next]_rentVars => RentInv'
  <2>1. CASE UNCHANGED rentVars
    BY <2>1 DEF rentVars, purses, RentInv, TypeOK, Truthful
  <2>2. QED BY <2>1, NumbersAre, BuyerStep, HouseStep DEF Next
<1>3. QED BY <1>1, <1>2, PTL DEF Spec

LEMMA RentKeepsLetters == ASSUME RentAssumption PROVE Spec => LettersKept
<1> DEFINE Kept == /\ house.owner # Nobody /\ house'.owner = Nobody => house.deadline \in 1..today
                   /\ row'.owner = house'.owner
<1>1. RentInv /\ RentInv' /\ [Next]_rentVars => [Kept]_rentVars
  <2> SUFFICES ASSUME RentInv, RentInv', Next PROVE Kept
    OBVIOUS
  <2> USE DEF RentInv, TypeOK
  <2>1. row'.owner = house'.owner
    OBVIOUS
  <2>2. ASSUME house.owner # Nobody, house'.owner = Nobody
        PROVE  Evict
    <3> USE <2>2
    <3>1. /\ house' # house /\ house'.owner # house.owner
      OBVIOUS
    <3>2. today \in 1..LastDay /\ Numbers
      BY NumbersAre DEF Days
    <3>3. CASE \E p \in Players : Login(p) \/ Logout(p) \/ Earn(p) \/ Buy(p) \/ Bid(p)
      BY <3>1, <3>3 DEF Login, Logout, Earn, Buy, Bid
    <3>4. CASE \E p, q \in Players : Sell(p, q)
      BY <3>1, <3>2, <3>4, PaidIsTruthful DEF Sell
    <3>5. CASE CancelSale \/ Save \/ Tomorrow
      BY <3>1, <3>5 DEF CancelSale, Save, Tomorrow
    <3>6. CASE Transfer
      <4>1. sale[2] \in Players /\ house' = Owned(house, sale[2])
        BY <3>1, <3>6 DEF Transfer
      <4>2. house'.owner = sale[2]
        BY <3>2, <4>1, OwnedIsTruthful
      <4>3. QED BY <3>2, <4>1, <4>2 DEF Numbers
    <3>7. CASE Pay \/ Warn
      <4>1. house'.owner = house.owner
        BY <3>2, <3>7, PaidIsTruthful, LetterIsTruthful DEF Pay, Warn, Warned
      <4>2. QED BY <3>1, <4>1
    <3>8. CASE Crash
      BY <3>1, <3>8 DEF Crash
    <3>9. QED BY <3>3, <3>4, <3>5, <3>6, <3>7, <3>8 DEF Next
  <2>3. ASSUME Evict
        PROVE  house.deadline \in 1..today
    <3>1. Numbers
      BY NumbersAre
    <3>2. house.rentWarnings = Warnings /\ today >= house.lastWarning + 1
      BY <2>3 DEF Evict, Warned
    <3>3. /\ house.rentWarnings > 0 /\ house.lastWarning \in Nat /\ today \in Nat
          /\ Warnings \in Nat /\ house.rentWarnings \in Nat
      BY <3>1, <3>2 DEF Numbers, Houses, Days
    <3>4. house.deadline \in 1..(house.lastWarning + Warnings - house.rentWarnings + 1)
      BY <3>3 DEF Truthful
    <3>5. QED BY <3>2, <3>3, <3>4
  <2>4. QED BY <2>1, <2>2, <2>3
<1>2. QED BY <1>1, RentInvariant, PTL DEF Spec, LettersKept

-----------------------------------------------------------------------------
(* Raids of every kind, with any number of events and of things            *)


\* The inductive invariant: a raid believes in an event to come where it has one, or
\* is in one, and nowhere else.  Else the last of its things would end a raid that
\* goes on, or not end one that waits for that.
Believed == \A r \in Raids : nextEvent[r] <=> r \in scheduled \/ executing = r
RaidInv == R!TypeOK /\ R!RaidsGoOn /\ Believed

\* What resetRaid does to a raid that has so many things left.
LEMMA ResetRaid ==
    ASSUME R!RaidAssumption, R!TypeOK, NEW r \in Raids, NEW count \in Nat, R!Reset(r, count)
    PROVE  /\ scheduled' = scheduled \ {r}
           /\ nextEvent' \in [Raids -> BOOLEAN] /\ ~nextEvent'[r]
           /\ \A q \in Raids \ {r} : nextEvent'[q] = nextEvent[q] /\ eventCount'[q] = eventCount[q]
           /\ eventCount' \in [Raids -> 0..Events] /\ (count = 0 => eventCount'[r] = 0)
           /\ running # r => running' = running
           /\ running = r => running' = IF refType[r] = "block" /\ count > 0 THEN r ELSE Nobody
           /\ running # r /\ eventCount[r] = 0 => eventCount'[r] = 0
           /\ refType[r] \notin {"single", "block"} => eventCount'[r] = 0
<1> USE R!RaidAssumption DEF R!Reset, R!TypeOK, R!RaidAssumption
<1>1. 0 \in 0..Events
  OBVIOUS
<1>2. eventCount' \in {eventCount, [eventCount EXCEPT ![r] = 0]}
  OBVIOUS
<1>3. eventCount' \in [Raids -> 0..Events]
  BY <1>1, <1>2
<1>4. \A q \in Raids \ {r} : nextEvent'[q] = nextEvent[q] /\ eventCount'[q] = eventCount[q]
  BY <1>2
<1>5. QED BY <1>3, <1>4

LEMMA RaidStep ==
    ASSUME R!RaidAssumption, RaidInv, NEW r \in Raids,
           R!Start(r) \/ R!Begin(r) \/ R!Bring(r) \/ R!Finish(r) \/ R!Lose(r)
    PROVE  RaidInv'
<1> USE R!RaidAssumption DEF RaidInv, R!TypeOK, R!RaidsGoOn, Believed, R!RaidAssumption
<1>1. CASE R!Start(r)
  <2>1. eventCount[r] + 1 \in 0..Events
    BY <1>1 DEF R!Start
  <2>2. QED BY <1>1, <2>1 DEF R!Start
<1>2. CASE R!Begin(r)
  BY <1>2 DEF R!Begin
<1>3. CASE R!Bring(r)
  <2>1. things[r] + 1 \in 0..MaxThings /\ refCount[r] + 1 \in Int
    BY <1>3 DEF R!Bring
  <2>2. QED BY <1>3, <2>1 DEF R!Bring
<1>4. CASE R!Finish(r)
  <2>0. executing = r /\ executing' = Nobody /\ UNCHANGED <<refCount, things>> /\ running = r
    BY <1>4 DEF R!Finish
  <2>1. CASE R!Reset(r, refCount[r])
    <3>1. refCount[r] \in Nat
      OBVIOUS
    <3>2. QED BY <2>0, <2>1, <3>1, ResetRaid
  <2>2. CASE /\ eventCount[r] < Events
             /\ eventCount' = [eventCount EXCEPT ![r] = @ + 1]
             /\ nextEvent' = [nextEvent EXCEPT ![r] = TRUE] /\ scheduled' = scheduled \cup {r}
             /\ UNCHANGED running
    <3>1. eventCount[r] + 1 \in 0..Events
      BY <2>2
    <3>2. QED BY <2>0, <2>2, <3>1
  <2>3. QED BY <1>4, <2>1, <2>2 DEF R!Finish
<1>5. CASE R!Lose(r)
  <2> DEFINE left == refCount[r] - 1
  <2>1. /\ things[r] - 1 \in 0..MaxThings /\ left \in Nat /\ left = things[r] - 1
        /\ things' = [things EXCEPT ![r] = @ - 1] /\ refCount' = [refCount EXCEPT ![r] = left]
        /\ UNCHANGED executing
    BY <1>5 DEF R!Lose
  <2>2. CASE left <= 0 /\ ~nextEvent[r] /\ R!Reset(r, left)
    <3>1. left = 0 /\ things'[r] = 0 /\ r \notin scheduled /\ executing # r
      BY <1>5, <2>1, <2>2 DEF R!Lose
    <3>2. /\ scheduled' = scheduled \ {r} /\ nextEvent' \in [Raids -> BOOLEAN] /\ ~nextEvent'[r]
          /\ \A q \in Raids \ {r} : nextEvent'[q] = nextEvent[q] /\ eventCount'[q] = eventCount[q]
          /\ eventCount' \in [Raids -> 0..Events] /\ eventCount'[r] = 0
          /\ running' = IF running = r THEN Nobody ELSE running
      BY <2>1, <2>2, <3>1, ResetRaid
    <3>3. R!TypeOK'
      <4>1. {running', executing'} \subseteq Raids \cup {Nobody} /\ scheduled' \subseteq Raids
        BY <2>1, <3>2
      <4>2. things' \in [Raids -> 0..MaxThings] /\ refCount' \in [Raids -> Int]
        BY <2>1
      <4>3. QED BY <3>2, <4>1, <4>2
    <3>4. R!RaidsGoOn' /\ Believed'
      BY <2>1, <3>1, <3>2
    <3>5. QED BY <3>3, <3>4
  <2>3. CASE /\ ~(left <= 0 /\ ~nextEvent[r])
             /\ UNCHANGED <<running, eventCount, nextEvent, scheduled>>
    BY <2>1, <2>3
  <2>4. QED BY <1>5, <2>2, <2>3 DEF R!Lose
<1>6. QED BY <1>1, <1>2, <1>3, <1>4, <1>5

LEMMA RaidInvariant ==
    ASSUME R!RaidAssumption
    PROVE  R!Spec => []RaidInv
<1>1. R!Init => RaidInv
  BY R!RaidAssumption DEF R!Init, RaidInv, R!TypeOK, R!RaidsGoOn, Believed, R!RaidAssumption
<1>2. RaidInv /\ [R!Next]_(R!raidVars) => RaidInv'
  <2> SUFFICES ASSUME RaidInv, [R!Next]_(R!raidVars) PROVE RaidInv'
    OBVIOUS
  <2>1. ASSUME NEW r \in Raids, R!Start(r) \/ R!Begin(r) \/ R!Bring(r) \/ R!Finish(r) \/ R!Lose(r)
        PROVE  RaidInv'
    BY <2>1, RaidStep
  <2>2. CASE R!Reload
    BY <2>2, R!RaidAssumption DEF R!Reload, RaidInv, R!TypeOK, R!RaidsGoOn, Believed, R!RaidAssumption
  <2>3. CASE UNCHANGED R!raidVars
    BY <2>3 DEF R!raidVars, RaidInv, R!TypeOK, R!RaidsGoOn, Believed
  <2>4. QED BY <2>1, <2>2, <2>3 DEF R!Next
<1>3. QED BY <1>1, <1>2, PTL DEF R!Spec

-----------------------------------------------------------------------------
(* A spawn with any places, monsters that are removed and convinced        *)

\* A monster has one place at most, and one that is on the map knows its spawn and is
\* not deleted; one that knows it is in the world only with a place.
OnSpawnMap(m) == \E s \in S!Spots : spawnedMap[s] = m
PlacesKnown ==
    /\ \A s, t \in S!Spots : spawnedMap[s] = spawnedMap[t] => s = t \/ spawnedMap[s] = Nobody
    /\ \A s \in S!Spots : spawnedMap[s] # Nobody => spawnedMap[s] \in spawn
    /\ \A m \in spawn : monStage[m] # "none" /\ (monStage[m] = "placed" => OnSpawnMap(m))

\* The references are those of the map and of the world, or of releaseThings; who has
\* none is deleted.
MonstersCounted ==
    /\ \A m \in monReleased : monStage[m] = "removed"
    /\ \A m \in SpawnMonsters :
         /\ monRefs[m] = (IF OnSpawnMap(m) THEN 1 ELSE 0) + (IF m \in monReleased \/ monStage[m] = "placed" THEN 1 ELSE 0)
         /\ monStage[m] = "none" <=> monRefs[m] = 0

\* The newcomer has his place kept free, which he does not know of.
NewcomerWaits ==
    newcomer # Nobody =>
        /\ checking \in S!Spots /\ spawnedMap[checking] = Nobody /\ spawnCount < Rate
        /\ newcomer \notin spawn
        /\ newcomer \notin monReleased => monStage[newcomer] = "placed"
        /\ monStage[newcomer] # "none"

\* An event is to come for a removed one on the map, and while no check goes on for an
\* empty place; the check leaves room for its own event.
ChecksCome ==
    /\ checkSpawnEvent => events > 0
    /\ checking > 0 => events < S!MaxEvents
    /\ \A s \in S!Spots :
         (IF spawnedMap[s] = Nobody THEN checking = 0 ELSE monStage[spawnedMap[s]] = "removed")
         => events > 0 \/ s \in lost

SpawnInv == S!TypeOK /\ PlacesKnown /\ MonstersCounted /\ NewcomerWaits /\ ChecksCome

LEMMA SpawnNumbers == ASSUME S!SpawnAssumption
    PROVE /\ Nobody \notin SpawnMonsters /\ SpawnPlaces \in Nat /\ SpawnPlaces >= 1 /\ Rate \in Nat /\ Rate >= 1
          /\ S!Spots \subseteq Nat /\ \A s \in S!Spots : s >= 1 /\ s <= SpawnPlaces
          /\ S!MaxEvents = 2 /\ 0 \in 0..S!MaxEvents
BY DEF S!SpawnAssumption, S!Spots, S!MaxEvents

\* What the counts say of the number of places that hold a monster.
LEMMA CountedAsHolders ==
    ASSUME S!SpawnAssumption, PlacesKnown, spawnedMap \in [S!Spots -> SpawnMonsters \cup {Nobody}], NEW m \in SpawnMonsters
    PROVE  S!Holders(m) = (IF OnSpawnMap(m) THEN 1 ELSE 0) + (IF m \in monReleased \/ monStage[m] = "placed" THEN 1 ELSE 0)
<1> DEFINE Held == {s \in S!Spots : spawnedMap[s] = m}
<1>0. S!Holders(m) = Cardinality(Held) + (IF m \in monReleased \/ monStage[m] = "placed" THEN 1 ELSE 0)
  BY DEF S!Holders, S!Cardinality, Cardinality
<1> HIDE DEF Held
<1>1. CASE OnSpawnMap(m)
  <2>1. PICK s \in S!Spots : spawnedMap[s] = m
    BY <1>1 DEF OnSpawnMap
  <2>2. Held = {s}
    BY <2>1, SpawnNumbers DEF PlacesKnown, Held
  <2>3. Cardinality(Held) = 1
    BY <2>2, FS_Singleton
  <2>4. QED BY <1>0, <1>1, <2>3
<1>2. CASE ~OnSpawnMap(m)
  <2>1. Held = {}
    BY <1>2 DEF OnSpawnMap, Held
  <2>2. Cardinality(Held) = 0
    BY <2>1, FS_EmptySet
  <2>3. QED BY <1>0, <1>2, <2>2
<1>3. QED BY <1>1, <1>2

LEMMA InitSpawn == ASSUME S!SpawnAssumption, S!Init PROVE SpawnInv
<1> USE SpawnNumbers DEF S!Init
<1> DEFINE first == {spawnedMap[s] : s \in S!Spots} \ {Nobody}
<1>0. /\ monStage = [m \in SpawnMonsters |-> IF m \in first THEN "placed" ELSE "none"]
      /\ monRefs = [m \in SpawnMonsters |-> IF m \in first THEN 2 ELSE 0] /\ spawn = first
  OBVIOUS
<1>1. S!TypeOK
  <2>1. first \subseteq SpawnMonsters
    OBVIOUS
  <2> HIDE DEF first
  <2>2. monStage \in [SpawnMonsters -> {"none", "placed", "removed"}] /\ monRefs \in [SpawnMonsters -> Nat]
    BY <1>0
  <2>3. lost \subseteq S!Spots
    OBVIOUS
  <2>4. checking \in 0..SpawnPlaces+1 /\ spawnCount \in 0..Rate /\ events \in 0..S!MaxEvents
    OBVIOUS
  <2>5. QED BY <1>0, <2>1, <2>2, <2>3, <2>4 DEF S!TypeOK
<1>2. PlacesKnown
  BY DEF PlacesKnown, OnSpawnMap
<1>3. MonstersCounted
  BY DEF MonstersCounted, OnSpawnMap
<1>4. NewcomerWaits /\ ChecksCome
  BY DEF NewcomerWaits, ChecksCome
<1>5. QED BY <1>1, <1>2, <1>3, <1>4 DEF SpawnInv

LEMMA MonsterLeaves ==
    ASSUME S!SpawnAssumption, SpawnInv, NEW m \in SpawnMonsters, S!Remove(m) \/ S!Convince(m)
    PROVE  SpawnInv'
<1> USE SpawnNumbers DEF SpawnInv, S!TypeOK
<1>1. CASE S!Remove(m)
  <2>0. /\ monStage[m] = "placed" /\ monStage' = [monStage EXCEPT ![m] = "removed"] /\ monReleased' = monReleased \cup {m}
        /\ UNCHANGED <<monRefs, spawn, spawnedMap, checking, spawnCount, newcomer>>
    BY <1>1 DEF S!Remove
  <2>1. /\ checkSpawnEvent' \in BOOLEAN /\ events' \in 0..S!MaxEvents /\ lost' \subseteq S!Spots
        /\ events' >= events /\ (checkSpawnEvent' => events' > 0)
        /\ checking > 0 => events' < S!MaxEvents
        /\ (lost' = lost \/ events' > 0)
        /\ m \in spawn => events' > 0
    <3>1. CASE UNCHANGED <<checkSpawnEvent, events, lost>> /\ (m \in spawn => checkSpawnEvent)
      BY <3>1 DEF ChecksCome
    <3>2. CASE ~checkSpawnEvent /\ S!Within /\ S!AddEvent
      BY <3>2 DEF S!AddEvent, S!Within
    <3>3. QED BY <1>1, <3>1, <3>2 DEF S!Remove, S!startEvent
  <2>2. S!TypeOK'
    BY <2>0, <2>1
  <2>3. PlacesKnown'
    BY <2>0 DEF PlacesKnown, OnSpawnMap
  <2>4. MonstersCounted'
    BY <2>0 DEF MonstersCounted, OnSpawnMap
  <2>5. NewcomerWaits'
    BY <2>0 DEF NewcomerWaits
  <2>6. ChecksCome'
    BY <2>0, <2>1 DEF ChecksCome, PlacesKnown
  <2>7. QED BY <2>2, <2>3, <2>4, <2>5, <2>6
<1>2. CASE S!Convince(m)
  <2>0. /\ monStage[m] = "placed" /\ m \in spawn /\ spawn' = spawn \ {m}
        /\ spawnedMap' = [s \in S!Spots |-> IF spawnedMap[s] = m THEN Nobody ELSE spawnedMap[s]]
        /\ lost' = lost \cup {s \in S!Spots : spawnedMap[s] = m}
        /\ monRefs' = [monRefs EXCEPT ![m] = @ - 1]
        /\ UNCHANGED <<monStage, monReleased, checkSpawnEvent, events, checking, spawnCount, newcomer>>
    BY <1>2 DEF S!Convince, S!checkVars
  <2>1. OnSpawnMap(m) /\ ~OnSpawnMap(m)' /\ \A n \in SpawnMonsters \ {m} : OnSpawnMap(n)' <=> OnSpawnMap(n)
    BY <2>0 DEF OnSpawnMap, PlacesKnown
  <2>2. monRefs[m] = 2
    BY <2>0, <2>1 DEF MonstersCounted
  <2>3. S!TypeOK'
    BY <2>0, <2>2
  <2>4. PlacesKnown'
    <3>1. \A s, t \in S!Spots : spawnedMap'[s] = spawnedMap'[t] => s = t \/ spawnedMap'[s] = Nobody
      BY <2>0 DEF PlacesKnown
    <3>2. \A s \in S!Spots : spawnedMap'[s] # Nobody => spawnedMap'[s] \in spawn'
      BY <2>0 DEF PlacesKnown
    <3>3. \A n \in spawn' : monStage'[n] # "none" /\ (monStage'[n] = "placed" => OnSpawnMap(n)')
      BY <2>0, <2>1 DEF PlacesKnown
    <3>4. QED BY <3>1, <3>2, <3>3 DEF PlacesKnown
  <2>5. MonstersCounted'
    BY <2>0, <2>1, <2>2 DEF MonstersCounted
  <2>6. NewcomerWaits'
    BY <2>0 DEF NewcomerWaits
  <2>7. ChecksCome'
    BY <2>0 DEF ChecksCome
  <2>8. QED BY <2>3, <2>4, <2>5, <2>6, <2>7
<1>3. QED BY <1>1, <1>2

\* What unRef does to monsters of the released, or to those on the map that are removed.
LEMMA MonstersUnRef ==
    ASSUME S!SpawnAssumption, SpawnInv, NEW Held \in SUBSET SpawnMonsters, S!UnRef(Held),
           \A m \in Held : monRefs[m] >= 1
    PROVE  /\ monRefs' \in [SpawnMonsters -> Nat] /\ monStage' \in [SpawnMonsters -> {"none", "placed", "removed"}]
           /\ \A m \in SpawnMonsters : monRefs'[m] = monRefs[m] - (IF m \in Held THEN 1 ELSE 0)
           /\ \A m \in SpawnMonsters : monStage'[m] = IF monRefs'[m] = 0 THEN "none" ELSE monStage[m]
           /\ spawn' = {m \in spawn : monRefs'[m] # 0}
<1> USE DEF SpawnInv, S!TypeOK
<1>1. \A m \in SpawnMonsters : monRefs'[m] = monRefs[m] - (IF m \in Held THEN 1 ELSE 0)
  BY DEF S!UnRef
<1>2. monRefs' \in [SpawnMonsters -> Nat]
  BY DEF S!UnRef
<1>3. \A m \in SpawnMonsters : monRefs'[m] = 0 <=> (m \in Held /\ monRefs[m] = 1) \/ monRefs[m] = 0
  BY <1>1
<1>4. \A m \in SpawnMonsters : monStage'[m] = IF m \in Held /\ monRefs[m] = 1 THEN "none" ELSE monStage[m]
  BY DEF S!UnRef
<1>5. monStage' \in [SpawnMonsters -> {"none", "placed", "removed"}]
  BY DEF S!UnRef
<1>6. \A m \in SpawnMonsters : monStage'[m] = IF monRefs'[m] = 0 THEN "none" ELSE monStage[m]
  BY <1>3, <1>4 DEF MonstersCounted
<1>7. spawn' = {m \in spawn : monRefs'[m] # 0}
  <2>1. spawn' = {m \in spawn : ~(m \in Held /\ monRefs[m] = 1)}
    BY DEF S!UnRef
  <2>2. \A m \in spawn : monRefs[m] # 0
    BY DEF PlacesKnown, MonstersCounted
  <2>3. QED BY <1>3, <2>1, <2>2
<1>8. QED BY <1>1, <1>2, <1>5, <1>6, <1>7

LEMMA SpawnCleanup == ASSUME S!SpawnAssumption, SpawnInv, S!Cleanup PROVE SpawnInv'
<1> USE SpawnNumbers DEF SpawnInv, S!TypeOK
<1>0. S!UnRef(monReleased) /\ monReleased' = {} /\ checking = 0
      /\ UNCHANGED <<spawnedMap, checkSpawnEvent, events, checking, spawnCount, newcomer, lost>>
  BY DEF S!Cleanup, S!checkVars
<1>1. \A m \in monReleased : monRefs[m] >= 1
  BY DEF MonstersCounted
<1>2. /\ monRefs' \in [SpawnMonsters -> Nat] /\ monStage' \in [SpawnMonsters -> {"none", "placed", "removed"}]
      /\ \A m \in SpawnMonsters : monRefs'[m] = monRefs[m] - (IF m \in monReleased THEN 1 ELSE 0)
      /\ \A m \in SpawnMonsters : monStage'[m] = IF monRefs'[m] = 0 THEN "none" ELSE monStage[m]
      /\ spawn' = {m \in spawn : monRefs'[m] # 0}
  BY <1>0, <1>1, MonstersUnRef
<1>3. \A m \in SpawnMonsters : /\ OnSpawnMap(m)' <=> OnSpawnMap(m)
                          /\ monRefs'[m] = (IF OnSpawnMap(m) THEN 1 ELSE 0) + (IF monStage[m] = "placed" THEN 1 ELSE 0)
  BY <1>0, <1>2 DEF OnSpawnMap, MonstersCounted
<1>4. \A s \in S!Spots : spawnedMap[s] # Nobody =>
         spawnedMap[s] \in SpawnMonsters /\ monRefs'[spawnedMap[s]] # 0 /\ monStage'[spawnedMap[s]] = monStage[spawnedMap[s]]
  BY <1>2, <1>3 DEF OnSpawnMap
<1>5. S!TypeOK'
  BY <1>0, <1>2
<1>6. PlacesKnown'
  BY <1>0, <1>2, <1>3, <1>4 DEF PlacesKnown
<1>7. MonstersCounted'
  BY <1>0, <1>2, <1>3 DEF MonstersCounted
<1>8. NewcomerWaits'
  BY <1>0 DEF NewcomerWaits
<1>9. ChecksCome'
  BY <1>0, <1>4 DEF ChecksCome
<1>10. QED BY <1>5, <1>6, <1>7, <1>8, <1>9

LEMMA SpawnBegins == ASSUME S!SpawnAssumption, SpawnInv, S!BeginCheck PROVE SpawnInv'
<1> USE SpawnNumbers DEF SpawnInv, S!TypeOK
<1> DEFINE gone == {s \in S!Spots : spawnedMap[s] # Nobody /\ S!IsRemoved(spawnedMap[s])}
           taken == {spawnedMap[s] : s \in gone}
<1>0. /\ S!UnRef(taken) /\ checking = 0 /\ events > 0 /\ events' = events - 1 /\ checkSpawnEvent' = FALSE
      /\ spawnedMap' = [s \in S!Spots |-> IF s \in gone THEN Nobody ELSE spawnedMap[s]]
      /\ checking' = 1 /\ spawnCount' = 0 /\ UNCHANGED <<monReleased, newcomer, lost>>
  BY DEF S!BeginCheck
<1>1. taken \subseteq SpawnMonsters /\ \A m \in taken : OnSpawnMap(m) /\ monStage[m] = "removed"
  BY DEF OnSpawnMap, S!IsRemoved
<1>2. \A m \in taken : monRefs[m] >= 1
  BY <1>1 DEF MonstersCounted
<1>t. \A m \in SpawnMonsters : m \in taken <=> OnSpawnMap(m) /\ monStage[m] = "removed"
  BY DEF OnSpawnMap, S!IsRemoved
<1> HIDE DEF taken
<1>3. /\ monRefs' \in [SpawnMonsters -> Nat] /\ monStage' \in [SpawnMonsters -> {"none", "placed", "removed"}]
      /\ \A m \in SpawnMonsters : monRefs'[m] = monRefs[m] - (IF m \in taken THEN 1 ELSE 0)
      /\ \A m \in SpawnMonsters : monStage'[m] = IF monRefs'[m] = 0 THEN "none" ELSE monStage[m]
      /\ spawn' = {m \in spawn : monRefs'[m] # 0}
  BY <1>0, <1>1, <1>2, MonstersUnRef
<1>4. \A m \in SpawnMonsters : OnSpawnMap(m)' <=> OnSpawnMap(m) /\ monStage[m] # "removed"
  BY <1>0 DEF OnSpawnMap, S!IsRemoved
<1>5. \A s \in S!Spots : spawnedMap'[s] # Nobody =>
         /\ spawnedMap'[s] = spawnedMap[s] /\ spawnedMap[s] \in spawn
         /\ monStage[spawnedMap[s]] = "placed" /\ monStage'[spawnedMap[s]] = "placed" /\ monRefs'[spawnedMap[s]] # 0
  <2> SUFFICES ASSUME NEW s \in S!Spots, spawnedMap'[s] # Nobody
               PROVE  /\ spawnedMap'[s] = spawnedMap[s] /\ spawnedMap[s] \in spawn
                      /\ monStage[spawnedMap[s]] = "placed" /\ monStage'[spawnedMap[s]] = "placed"
                      /\ monRefs'[spawnedMap[s]] # 0
    OBVIOUS
  <2>1. spawnedMap'[s] = spawnedMap[s] /\ spawnedMap[s] \in SpawnMonsters /\ monStage[spawnedMap[s]] # "removed"
    BY <1>0 DEF S!IsRemoved
  <2>2. spawnedMap[s] \in spawn /\ monStage[spawnedMap[s]] = "placed"
    BY <2>1 DEF PlacesKnown
  <2>3. monRefs'[spawnedMap[s]] # 0
    BY <1>3, <1>t, <2>1, <2>2 DEF MonstersCounted
  <2>4. QED BY <1>3, <2>1, <2>2, <2>3
<1>6. S!TypeOK'
  <2>1. spawnedMap' \in [S!Spots -> SpawnMonsters \cup {Nobody}]
    BY <1>0
  <2>2. events' \in 0..S!MaxEvents /\ checking' \in 0..SpawnPlaces+1 /\ spawnCount' \in 0..Rate
    BY <1>0
  <2> HIDE DEF gone
  <2>3. QED BY <1>0, <1>3, <2>1, <2>2
<1>7. PlacesKnown'
  <2>1. \A s, t \in S!Spots : spawnedMap'[s] = spawnedMap'[t] => s = t \/ spawnedMap'[s] = Nobody
    BY <1>0 DEF PlacesKnown
  <2>2. \A s \in S!Spots : spawnedMap'[s] # Nobody => spawnedMap'[s] \in spawn'
    BY <1>3, <1>5
  <2>3. \A n \in spawn' : monStage'[n] # "none" /\ (monStage'[n] = "placed" => OnSpawnMap(n)')
    BY <1>3, <1>4 DEF PlacesKnown
  <2>4. QED BY <2>1, <2>2, <2>3 DEF PlacesKnown
<1>8. MonstersCounted'
  <2>1. \A m \in monReleased' : monStage'[m] = "removed"
    BY <1>0, <1>1, <1>3, <1>t DEF MonstersCounted
  <2>2. ASSUME NEW m \in SpawnMonsters
        PROVE  monRefs'[m] = (IF OnSpawnMap(m)' THEN 1 ELSE 0)
                          + (IF m \in monReleased' \/ monStage'[m] = "placed" THEN 1 ELSE 0)
    BY <1>0, <1>3, <1>4, <1>t DEF MonstersCounted
  <2>3. \A m \in SpawnMonsters : monStage'[m] = "none" <=> monRefs'[m] = 0
    BY <1>3, <1>t DEF MonstersCounted
  <2>4. QED BY <2>1, <2>2, <2>3 DEF MonstersCounted
<1>9. NewcomerWaits'
  BY <1>0 DEF NewcomerWaits
<1>10. ChecksCome'
  BY <1>0, <1>5 DEF ChecksCome
<1>11. QED BY <1>6, <1>7, <1>8, <1>9, <1>10

LEMMA SpawnChecks ==
    ASSUME S!SpawnAssumption, SpawnInv, (\E m \in SpawnMonsters : S!Place(m)) \/ S!Skip \/ S!Fail \/ S!Adopt \/ S!EndCheck
    PROVE  SpawnInv'
<1> USE SpawnNumbers DEF SpawnInv, S!TypeOK
<1>1. ASSUME NEW m \in SpawnMonsters, S!Place(m) PROVE SpawnInv'
  <2>0. /\ monStage[m] = "none" /\ checking \in S!Spots /\ spawnedMap[checking] = Nobody /\ spawnCount < Rate
        /\ monStage' = [monStage EXCEPT ![m] = "placed"] /\ monRefs' = [monRefs EXCEPT ![m] = 1] /\ newcomer' = m
        /\ UNCHANGED <<monReleased, spawn, spawnedMap, checkSpawnEvent, events, checking, spawnCount, lost>>
    BY <1>1 DEF S!Place, S!AtPlace
  <2>1. ~OnSpawnMap(m) /\ m \notin monReleased /\ m \notin spawn
    BY <2>0 DEF MonstersCounted, PlacesKnown
  <2>2. S!TypeOK'
    BY <2>0
  <2>3. PlacesKnown'
    BY <2>0, <2>1 DEF PlacesKnown, OnSpawnMap
  <2>4. MonstersCounted'
    BY <2>0, <2>1 DEF MonstersCounted, OnSpawnMap
  <2>5. NewcomerWaits'
    BY <2>0, <2>1 DEF NewcomerWaits
  <2>6. ChecksCome'
    BY <2>0, <2>1 DEF ChecksCome, OnSpawnMap
  <2>7. QED BY <2>2, <2>3, <2>4, <2>5, <2>6
<1>2. CASE S!Skip \/ S!Fail
  <2>0. /\ checking \in S!Spots /\ newcomer = Nobody /\ spawnCount < Rate
        /\ checking' = checking + 1 /\ spawnCount' \in {spawnCount, spawnCount + 1}
        /\ UNCHANGED <<monStage, monRefs, monReleased, spawn, spawnedMap, checkSpawnEvent, events, newcomer, lost>>
    BY <1>2 DEF S!Skip, S!Fail, S!AtPlace, S!monsterVars
  <2>1. S!TypeOK'
    BY <2>0
  <2>2. PlacesKnown' /\ MonstersCounted'
    BY <2>0 DEF PlacesKnown, MonstersCounted, OnSpawnMap
  <2>3. NewcomerWaits' /\ ChecksCome'
    BY <2>0 DEF NewcomerWaits, ChecksCome
  <2>4. QED BY <2>1, <2>2, <2>3
<1>3. CASE S!Adopt
  <2>0. /\ newcomer # Nobody /\ newcomer \in SpawnMonsters /\ checking \in S!Spots
        /\ spawn' = spawn \cup {newcomer} /\ monRefs' = [monRefs EXCEPT ![newcomer] = @ + 1]
        /\ spawnedMap' = [spawnedMap EXCEPT ![checking] = newcomer]
        /\ lost' = IF monStage[newcomer] = "removed" THEN lost \cup {checking} ELSE lost \ {checking}
        /\ newcomer' = Nobody /\ checking' = checking + 1 /\ spawnCount' = spawnCount + 1
        /\ UNCHANGED <<monStage, monReleased, checkSpawnEvent, events>>
    BY <1>3 DEF S!Adopt, S!IsRemoved, NewcomerWaits
  <2>1. ~OnSpawnMap(newcomer) /\ spawnedMap[checking] = Nobody /\ spawnCount < Rate
        /\ monStage[newcomer] # "none"
    BY <2>0 DEF NewcomerWaits, PlacesKnown, OnSpawnMap
  <2>k. PICK k \in SpawnMonsters : k = newcomer
    BY <2>0
  <2>2. OnSpawnMap(k)' /\ \A n \in SpawnMonsters \ {k} : OnSpawnMap(n)' <=> OnSpawnMap(n)
    BY <2>0, <2>1, <2>k DEF OnSpawnMap
  <2>3. S!TypeOK'
    BY <2>0, <2>1
  <2>4. PlacesKnown'
    <3>1. \A s, t \in S!Spots : spawnedMap'[s] = spawnedMap'[t] => s = t \/ spawnedMap'[s] = Nobody
      BY <2>0, <2>1 DEF PlacesKnown, OnSpawnMap
    <3>2. \A s \in S!Spots : spawnedMap'[s] # Nobody => spawnedMap'[s] \in spawn'
      BY <2>0 DEF PlacesKnown
    <3>3. \A n \in spawn' : monStage'[n] # "none" /\ (monStage'[n] = "placed" => OnSpawnMap(n)')
      BY <2>0, <2>1, <2>2, <2>k DEF PlacesKnown
    <3>4. QED BY <3>1, <3>2, <3>3 DEF PlacesKnown
  <2>5. MonstersCounted'
    <3>1. monRefs'[k] = monRefs[k] + 1 /\ \A n \in SpawnMonsters \ {k} : monRefs'[n] = monRefs[n]
      BY <2>0, <2>k
    <3>2. ASSUME NEW n \in SpawnMonsters
          PROVE  monRefs'[n] = (IF OnSpawnMap(n)' THEN 1 ELSE 0)
                            + (IF n \in monReleased' \/ monStage'[n] = "placed" THEN 1 ELSE 0)
      BY <2>0, <2>1, <2>2, <2>k, <3>1 DEF MonstersCounted
    <3>3. ASSUME NEW n \in SpawnMonsters PROVE monStage'[n] = "none" <=> monRefs'[n] = 0
      BY <2>0, <2>1, <2>k, <3>1 DEF MonstersCounted
    <3>4. QED BY <2>0, <3>2, <3>3 DEF MonstersCounted
  <2>6. NewcomerWaits'
    BY <2>0 DEF NewcomerWaits
  <2>7. ChecksCome'
    BY <2>0, <2>1 DEF ChecksCome
  <2>8. QED BY <2>3, <2>4, <2>5, <2>6, <2>7
<1>4. CASE S!EndCheck
  <2>0. /\ checking > 0 /\ newcomer = Nobody /\ checking' = 0
        /\ UNCHANGED <<monStage, monRefs, monReleased, spawn, spawnedMap, spawnCount, newcomer>>
    BY <1>4 DEF S!EndCheck, S!monsterVars
  <2>1. \/ /\ checkSpawnEvent' = TRUE /\ events' = events + 1 /\ lost' = {}
        \/ /\ \A s \in S!Spots : spawnedMap[s] # Nobody
           /\ UNCHANGED <<checkSpawnEvent, events, lost>>
    BY <1>4 DEF S!EndCheck, S!AddEvent, S!Incomplete
  <2>2. events < S!MaxEvents
    BY <2>0 DEF ChecksCome
  <2>3. S!TypeOK'
    <3>1. events' \in 0..S!MaxEvents
      BY <2>1, <2>2, SpawnNumbers
    <3>2. checkSpawnEvent' \in BOOLEAN /\ lost' \subseteq S!Spots
      BY <2>1
    <3>3. checking' \in 0..SpawnPlaces+1
      BY <2>0
    <3>4. QED BY <2>0, <3>1, <3>2, <3>3
  <2>4. PlacesKnown' /\ MonstersCounted' /\ NewcomerWaits'
    BY <2>0 DEF PlacesKnown, MonstersCounted, OnSpawnMap, NewcomerWaits
  <2>5. ChecksCome'
    BY <2>0, <2>1, <2>2 DEF ChecksCome
  <2>6. QED BY <2>3, <2>4, <2>5
<1>5. QED BY <1>1, <1>2, <1>3, <1>4

LEMMA SpawnInvariant == ASSUME S!SpawnAssumption PROVE S!Spec => []SpawnInv
<1>1. S!Init => SpawnInv
  BY InitSpawn
<1>2. SpawnInv /\ [S!Next]_(S!spawnVars) => SpawnInv'
  <2> SUFFICES ASSUME SpawnInv, [S!Next]_(S!spawnVars) PROVE SpawnInv'
    OBVIOUS
  <2>1. CASE UNCHANGED S!spawnVars
    BY <2>1 DEF S!spawnVars, S!monsterVars, S!checkVars, SpawnInv, S!TypeOK, PlacesKnown, MonstersCounted, NewcomerWaits,
                ChecksCome, OnSpawnMap
  <2>2. ASSUME NEW m \in SpawnMonsters, S!Remove(m) \/ S!Convince(m) \/ S!Place(m)
        PROVE  SpawnInv'
    BY <2>2, MonsterLeaves, SpawnChecks
  <2>3. CASE S!Cleanup \/ S!BeginCheck
    BY <2>3, SpawnCleanup, SpawnBegins
  <2>4. CASE S!Skip \/ S!Fail \/ S!Adopt \/ S!EndCheck
    BY <2>4, SpawnChecks
  <2>5. QED BY <2>1, <2>2, <2>3, <2>4 DEF S!Next
<1>3. QED BY <1>1, <1>2, PTL DEF S!Spec

LEMMA SpawnImplied == ASSUME S!SpawnAssumption, SpawnInv PROVE S!TypeOK /\ S!SpawnsRefill
<1> USE SpawnNumbers DEF SpawnInv, S!TypeOK
<1>1. \A m \in SpawnMonsters : monRefs[m] = S!Holders(m)
  BY CountedAsHolders DEF MonstersCounted
<1>2. \A m \in spawn : monStage[m] = "placed" => \E s \in S!Spots : spawnedMap[s] = m
  BY DEF PlacesKnown, OnSpawnMap
<1>3. \A s \in S!Spots : spawnedMap[s] # Nobody => spawnedMap[s] \in spawn /\ monStage[spawnedMap[s]] # "none"
  BY DEF PlacesKnown
<1>4. checking = 0 => \A s \in S!Spots :
         \/ spawnedMap[s] # Nobody /\ monStage[spawnedMap[s]] = "placed"
         \/ events > 0 \/ s \in lost
  <2> SUFFICES ASSUME checking = 0, NEW s \in S!Spots,
                      ~(spawnedMap[s] # Nobody /\ monStage[spawnedMap[s]] = "placed")
               PROVE  events > 0 \/ s \in lost
    OBVIOUS
  <2>1. spawnedMap[s] # Nobody => monStage[spawnedMap[s]] = "removed"
    BY <1>3
  <2>2. QED BY <2>1 DEF ChecksCome
<1>5. QED BY <1>1, <1>2, <1>3, <1>4 DEF S!SpawnsRefill, ChecksCome

-----------------------------------------------------------------------------
(* What a monster believes of the tiles in its sight                       *)

CacheInv == K!TypeOK /\ K!CacheTrue

\* A tile in sight is at one distance.
LEMMA Distances ==
    ASSUME K!WalkCacheAssumption, NEW p \in K!Tiles
    PROVE  /\ \A d \in K!Offsets :
                d = <<d[1], d[2]>> /\ d[1] \in Int /\ d[2] \in Int /\ K!Minus(K!Plus(p, d), p) = d
           /\ p = <<p[1], p[2]>> /\ p[1] \in Int /\ p[2] \in Int
BY DEF K!WalkCacheAssumption, K!Tiles, K!Offsets, K!Plus, K!Minus

\* Asking T where the monster stands makes the cache right there, and leaves the rest,
\* which is right if its tiles would answer as before.
LEMMA AskedIsTrue ==
    ASSUME CacheInv, NEW w, w.pos = standing, NEW T, K!World' = w, cache' = K!updateTileCache(cache, w, T),
           NEW L, unasked' = L, unasked \subseteq L \cup T,
           \A p \in K!Tiles : p \notin T /\ (\E d \in K!Offsets : p = K!Plus(standing, d)) /\ p \notin L
                => (K!queryAdd(w, p) <=> K!queryAdd(K!World, p))
    PROVE  cache' \in [K!Offsets -> BOOLEAN] /\ K!CacheTrue'
<1>1. standing' = standing
  BY DEF K!World
<1>2. cache' \in [K!Offsets -> BOOLEAN]
  BY DEF K!updateTileCache, CacheInv, K!TypeOK, K!queryAdd
<1>3. ASSUME NEW d \in K!Offsets \ {<<0, 0>>}, K!Plus(standing', d) \in K!Tiles \ unasked'
      PROVE  cache'[d] <=> K!queryAdd(K!World', K!Plus(standing', d))
  <2> DEFINE p == K!Plus(standing, d)
  <2>1. p \in K!Tiles /\ p \notin L /\ K!Plus(standing', d) = p
    BY <1>1, <1>3
  <2>2. cache'[d] = IF p \in T THEN K!queryAdd(w, p) ELSE cache[d]
    BY DEF K!updateTileCache
  <2>3. CASE p \in T
    BY <2>1, <2>2, <2>3
  <2>4. CASE p \notin T
    <3>1. cache[d] <=> K!queryAdd(K!World, p)
      BY <2>1, <2>4 DEF CacheInv, K!CacheTrue
    <3>2. K!queryAdd(w, p) <=> K!queryAdd(K!World, p)
      BY <2>1, <2>4
    <3>3. QED BY <2>1, <2>2, <2>4, <3>1, <3>2
  <2>5. QED BY <2>3, <2>4
<1>4. K!CacheTrue'
  BY <1>3 DEF K!CacheTrue
<1>5. QED BY <1>2, <1>4

\* A step keeps the answers of the tiles that stay in sight, and asks the others and
\* the one that it leaves.
LEMMA StepIsTrue ==
    ASSUME K!WalkCacheAssumption, CacheInv, NEW to \in K!Tiles, K!Step(to)
    PROVE  CacheInv'
<1> DEFINE w == [K!World EXCEPT !.pos = to]
           m == K!Minus(to, standing)
           rows == K!ShiftRows(cache, w, m)
           columns == K!ShiftColumns(rows, w, m)
<1>0. /\ standing \in K!Tiles /\ cache \in [K!Offsets -> BOOLEAN] /\ unasked \subseteq K!Tiles
      /\ standing' = to /\ UNCHANGED <<at, lying, burning>>
      /\ unasked' = (unasked \cap K!InSight(standing) \cap K!InSight(to)) \ {standing}
      /\ cache' = K!updateTileCache(columns, w, {standing})
  BY DEF K!Step, K!Stepped, K!World, CacheInv, K!TypeOK
<1>1. w.pos = to /\ w = K!World' /\ \A p : K!queryAdd(w, p) <=> K!queryAdd(K!World, p)
  BY <1>0 DEF K!World, K!queryAdd
<1> DEFINE Asked0(d) == cache'[d] <=> K!queryAdd(w, K!Plus(to, d))
           Back(d) == <<d[1] + m[1], d[2] + m[2]>>
<1>2. ASSUME NEW d \in K!Offsets
      PROVE  /\ cache'[d] \in BOOLEAN
             /\ \/ Asked0(d)
                \/ Back(d) \in K!Offsets /\ K!Plus(to, d) # standing /\ cache'[d] = cache[Back(d)]
  <2>1. cache'[d] = IF K!Plus(to, d) \in {standing} THEN K!queryAdd(w, K!Plus(to, d)) ELSE columns[d]
    BY <1>0, <1>1 DEF K!updateTileCache
  <2> DEFINE was1 == <<d[1] + m[1], d[2]>>
             was2 == <<d[1], d[2] + m[2]>>
  <2>2. columns[d] = IF was1 \notin K!Offsets THEN K!queryAdd(w, K!Plus(to, d))
                     ELSE IF was2 \in K!Offsets THEN rows[was1] ELSE rows[d]
    BY <1>1 DEF K!ShiftColumns
  <2>3. \A e \in K!Offsets : rows[e] = IF <<e[1], e[2] + m[2]>> \in K!Offsets THEN cache[<<e[1], e[2] + m[2]>>]
                                     ELSE K!queryAdd(w, K!Plus(to, e))
    BY <1>1 DEF K!ShiftRows
  <2>4. CASE K!Plus(to, d) = standing
    BY <2>1, <2>4 DEF K!queryAdd
  <2>5. CASE K!Plus(to, d) # standing /\ was1 \notin K!Offsets
    BY <2>1, <2>2, <2>5 DEF K!queryAdd
  <2>6. CASE K!Plus(to, d) # standing /\ was1 \in K!Offsets /\ was2 \notin K!Offsets
    BY <2>1, <2>2, <2>3, <2>6 DEF K!queryAdd
  <2>7. CASE K!Plus(to, d) # standing /\ was1 \in K!Offsets /\ was2 \in K!Offsets
    <3>1. was1[1] = d[1] + m[1] /\ was1[2] = d[2] /\ <<was1[1], was1[2] + m[2]>> = Back(d)
      OBVIOUS
    <3>2. Back(d) \in K!Offsets
      BY <2>7 DEF K!Offsets
    <3>3. cache'[d] = cache[Back(d)]
      BY <2>1, <2>2, <2>3, <2>7, <3>1, <3>2
    <3>4. QED BY <1>0, <2>7, <3>2, <3>3
  <2>8. QED BY <2>4, <2>5, <2>6, <2>7
<1>3. ASSUME NEW d \in K!Offsets \ {<<0, 0>>}, K!Plus(to, d) \in K!Tiles \ unasked'
      PROVE  Asked0(d)
  <2>1. CASE Back(d) \in K!Offsets /\ K!Plus(to, d) # standing /\ cache'[d] = cache[Back(d)]
    <3>1. /\ d = <<d[1], d[2]>> /\ d[1] \in Int /\ d[2] \in Int
          /\ to = <<to[1], to[2]>> /\ to[1] \in Int /\ to[2] \in Int
          /\ standing = <<standing[1], standing[2]>> /\ standing[1] \in Int /\ standing[2] \in Int
      BY <1>0, Distances
    <3>2. K!Plus(standing, Back(d)) = K!Plus(to, d)
      BY <3>1 DEF K!Plus, K!Minus
    <3>3. K!Minus(K!Plus(to, d), standing) = Back(d) /\ K!Minus(K!Plus(to, d), to) = d
      BY <3>1 DEF K!Plus, K!Minus
    <3>4. Back(d) # <<0, 0>>
      BY <2>1, <3>1, <3>2 DEF K!Plus
    <3>5. K!Plus(to, d) \in K!InSight(standing) \cap K!InSight(to)
      BY <1>3, <2>1, <3>3 DEF K!InSight
    <3>6. K!Plus(standing, Back(d)) \in K!Tiles \ unasked
      BY <1>0, <1>3, <2>1, <3>2, <3>5
    <3>7. cache[Back(d)] <=> K!queryAdd(K!World, K!Plus(to, d))
      BY <2>1, <3>2, <3>4, <3>6 DEF CacheInv, K!CacheTrue
    <3>8. QED BY <1>1, <2>1, <3>7
  <2>2. QED BY <1>2, <2>1
<1>4. K!CacheTrue'
  BY <1>0, <1>1, <1>3 DEF K!CacheTrue
<1>5. cache' \in [K!Offsets -> BOOLEAN]
  <2>1. cache' = [d \in K!Offsets |-> cache'[d]]
    BY <1>0 DEF K!updateTileCache
  <2>2. QED BY <1>2, <2>1
<1>6. K!TypeOK'
  BY <1>0, <1>5 DEF CacheInv, K!TypeOK
<1>7. QED BY <1>4, <1>6 DEF CacheInv

\* Asking all tiles.
LEMMA AllAsked ==
    ASSUME NEW c \in [K!Offsets -> BOOLEAN], NEW w, K!World' = w, cache' = K!updateMapCache(c, w)
    PROVE  cache' \in [K!Offsets -> BOOLEAN] /\ K!CacheTrue'
<1>1. standing' = w.pos
  BY DEF K!World
<1>2. cache' \in [K!Offsets -> BOOLEAN]
  BY DEF K!updateMapCache, K!updateTileCache, K!queryAdd
<1>3. ASSUME NEW d \in K!Offsets, K!Plus(standing', d) \in K!Tiles
      PROVE  cache'[d] <=> K!queryAdd(K!World', K!Plus(standing', d))
  BY <1>1, <1>3 DEF K!updateMapCache, K!updateTileCache
<1>4. QED BY <1>2, <1>3 DEF K!CacheTrue

\* A change that asks the tiles that it changes.
LEMMA ChangesIsTrue ==
    ASSUME CacheInv, NEW w, NEW T \in SUBSET K!Tiles, K!Changes(w, T),
           w = [pos |-> w.pos, at |-> w.at, things |-> w.things, burning |-> w.burning],
           w.pos = standing, w.at \in [Others -> K!Tiles \cup {Nowhere}], w.things \in [K!Tiles -> SUBSET Kinds],
           w.burning = burning,
           \A p \in K!Tiles \ T : w.things[p] = lying[p] /\ \A c \in Others : w.at[c] = p <=> at[c] = p
    PROVE  CacheInv'
<1>1. K!World' = w /\ cache' = K!updateTileCache(cache, w, T) /\ unasked' = unasked \ T
  BY DEF K!Changes, K!World
<1>2. \A p \in K!Tiles : p \notin T => (K!queryAdd(w, p) <=> K!queryAdd(K!World, p))
  BY DEF K!queryAdd, K!World
<1>3. cache' \in [K!Offsets -> BOOLEAN] /\ K!CacheTrue'
  BY <1>1, <1>2, AskedIsTrue
<1>4. K!TypeOK'
  BY <1>1, <1>3 DEF K!Changes, CacheInv, K!TypeOK
<1>5. QED BY <1>3, <1>4 DEF CacheInv

\* A change of items that asks only after some kinds; the others it may lose.
LEMMA AlteredIsTrue ==
    ASSUME K!WalkCacheAssumption, CacheInv, NEW p \in K!Tiles, NEW k \in lying[p], NEW kinds,
           NEW after \in SUBSET Kinds, K!Altered(p, after, kinds),
           \A j \in after \cup lying[p] : (j \in after /\ j \in lying[p]) \/ j \in kinds
    PROVE  CacheInv'
<1> DEFINE w == [K!World EXCEPT !.things[p] = after]
<1>0. /\ lying' = w.things /\ cache' = K!updateTileCache(cache, w, K!Asked(p, kinds))
      /\ unasked' = (unasked \ K!Asked(p, kinds)) \cup K!Silent(p, kinds)
      /\ UNCHANGED <<standing, at, burning>>
  BY DEF K!Altered
<1>1. /\ w = [pos |-> standing, at |-> at, things |-> [lying EXCEPT ![p] = after], burning |-> burning]
      /\ K!World' = w
  BY <1>0 DEF K!World
<1> HIDE DEF w
<1>2. K!Asked(p, kinds) \subseteq K!Tiles /\ K!Silent(p, kinds) \subseteq K!Tiles
  BY DEF K!Asked, K!Silent
<1>3. ASSUME NEW q \in K!Tiles, q \notin K!Asked(p, kinds), \E d \in K!Offsets : q = K!Plus(standing, d), q \notin unasked'
      PROVE  K!queryAdd(w, q) <=> K!queryAdd(K!World, q)
  <2>1. CASE q # p
    BY <1>1, <2>1 DEF K!queryAdd, K!World, CacheInv, K!TypeOK
  <2>2. CASE q = p
    <3>1. standing \in K!Tiles /\ lying \in [K!Tiles -> SUBSET Kinds]
      BY DEF CacheInv, K!TypeOK
    <3>2. q \in K!InSight(standing)
      BY <1>3, <3>1, Distances DEF K!InSight
    <3>3. \A j \in kinds : j \notin Solid /\ j \notin NoPath /\ j \notin Holes /\ j \notin Fields
      BY <1>0, <1>3, <2>2, <3>2 DEF K!Asked, K!Silent, K!Blocks
    <3>4. w.things[p] = after /\ w.at = at /\ w.burning = burning
      BY <1>1, <3>1
    <3>5. QED BY <2>2, <3>3, <3>4 DEF K!queryAdd, K!World
  <2>3. QED BY <2>1, <2>2
<1>4. w.pos = standing
  BY <1>1
<1>5. cache' \in [K!Offsets -> BOOLEAN] /\ K!CacheTrue'
  <2> DEFINE L == unasked'
             T == K!Asked(p, kinds)
  <2>1. unasked \subseteq L \cup T
    BY <1>0
  <2>2. \A q \in K!Tiles : q \notin T /\ (\E d \in K!Offsets : q = K!Plus(standing, d)) /\ q \notin L
            => (K!queryAdd(w, q) <=> K!queryAdd(K!World, q))
    BY <1>3
  <2>3. K!World' = w /\ cache' = K!updateTileCache(cache, w, T) /\ unasked' = L
    BY <1>0, <1>1
  <2> HIDE DEF L, T
  <2>4. QED BY <1>4, <2>1, <2>2, <2>3, AskedIsTrue
<1>6. K!TypeOK'
  BY <1>0, <1>1, <1>2, <1>5 DEF CacheInv, K!TypeOK
<1>7. QED BY <1>5, <1>6 DEF CacheInv

LEMMA CacheStep == ASSUME K!WalkCacheAssumption, CacheInv, [K!Next]_(K!cacheVars) PROVE CacheInv'
<1> USE DEF CacheInv, K!TypeOK
<1>0. Landings \subseteq K!Tiles /\ ItemSpots \subseteq K!Tiles
  BY DEF K!WalkCacheAssumption
<1>1. ASSUME NEW c \in Others, NEW to \in K!Tiles, K!MoveOther(c, to) \/ K!placeCreature(c, to) PROVE CacheInv'
  <2> DEFINE w == [K!World EXCEPT !.at[c] = to]
  <2>1. PICK T : /\ T \in SUBSET K!Tiles /\ to \in T /\ (at[c] \in T \/ at[c] = Nowhere) /\ K!Changes(w, T)
    <3>1. CASE K!MoveOther(c, to)
      BY <3>1 DEF K!MoveOther
    <3>2. CASE K!placeCreature(c, to)
      BY <3>2 DEF K!placeCreature
    <3>3. QED BY <1>1, <3>1, <3>2
  <2>2. w = [pos |-> standing, at |-> [at EXCEPT ![c] = to], things |-> lying, burning |-> burning]
    BY DEF K!World
  <2>3. Nowhere \notin K!Tiles
    BY DEF K!WalkCacheAssumption
  <2>4. \A p \in K!Tiles \ T : \A e \in Others : [at EXCEPT ![c] = to][e] = p <=> at[e] = p
    BY <2>1, <2>3
  <2> HIDE DEF w
  <2>5. QED BY <2>1, <2>2, <2>4, ChangesIsTrue
<1>2. ASSUME NEW c \in Others, K!removeCreature(c) PROVE CacheInv'
  <2> DEFINE w == [K!World EXCEPT !.at[c] = Nowhere]
             T == {at[c]}
  <2>1. at[c] # Nowhere /\ K!Changes(w, T)
    BY <1>2 DEF K!removeCreature
  <2>2. w = [pos |-> standing, at |-> [at EXCEPT ![c] = Nowhere], things |-> lying, burning |-> burning]
    BY DEF K!World
  <2>3. Nowhere \notin K!Tiles
    BY DEF K!WalkCacheAssumption
  <2>4. \A p \in K!Tiles \ T : \A e \in Others : [at EXCEPT ![c] = Nowhere][e] = p <=> at[e] = p
    BY <2>1, <2>3
  <2>5. T \in SUBSET K!Tiles
    BY <2>1
  <2> HIDE DEF w, T
  <2>6. QED BY <2>1, <2>2, <2>4, <2>5, ChangesIsTrue
<1>3. ASSUME NEW p \in ItemSpots, NEW k \in Kinds, K!AddItem(p, k) PROVE CacheInv'
  <2> DEFINE w == [K!World EXCEPT !.things[p] = @ \cup {k}]
             T == {p}
  <2>1. K!Changes(w, T)
    BY <1>3 DEF K!AddItem
  <2>2. w = [pos |-> standing, at |-> at, things |-> [lying EXCEPT ![p] = @ \cup {k}], burning |-> burning]
    <3>1. K!World.things = lying
      BY DEF K!World
    <3>2. w = [K!World EXCEPT !.things = [lying EXCEPT ![p] = @ \cup {k}]]
      BY <3>1
    <3> HIDE DEF w
    <3>3. QED BY <3>2 DEF K!World
  <2>3. \A q \in K!Tiles \ T : [lying EXCEPT ![p] = @ \cup {k}][q] = lying[q]
    OBVIOUS
  <2>4. T \in SUBSET K!Tiles /\ [lying EXCEPT ![p] = @ \cup {k}] \in [K!Tiles -> SUBSET Kinds]
    BY <1>0
  <2> HIDE DEF w, T
  <2>5. QED BY <2>1, <2>2, <2>3, <2>4, ChangesIsTrue
<1>4. ASSUME NEW p \in ItemSpots, NEW k \in Kinds, K!RemoveItem(p, k) PROVE CacheInv'
  BY <1>0, <1>4, AlteredIsTrue DEF K!RemoveItem
<1>5. ASSUME NEW p \in ItemSpots, NEW k \in Kinds, NEW to \in Kinds, K!transformItem(p, k, to) PROVE CacheInv'
  BY <1>0, <1>5, AlteredIsTrue DEF K!transformItem
<1>6. ASSUME NEW to \in K!Tiles, K!Teleport(to) PROVE CacheInv'
  <2> DEFINE w == [K!World EXCEPT !.pos = to]
  <2>1. /\ cache' = K!updateMapCache(cache, w) /\ unasked' = {} /\ standing' = to /\ UNCHANGED <<at, lying, burning>>
    BY <1>6 DEF K!Teleport
  <2>2. K!World' = w
    BY <2>1 DEF K!World
  <2> HIDE DEF w
  <2>3. cache' \in [K!Offsets -> BOOLEAN] /\ K!CacheTrue'
    BY <2>1, <2>2, AllAsked
  <2>4. QED BY <2>1, <2>3
<1>7. CASE K!ChangeCondition
  <2> DEFINE w == [K!World EXCEPT !.burning = ~burning]
  <2>1. /\ cache' = K!updateMapCache(cache, w) /\ unasked' = {} /\ burning' = ~burning /\ UNCHANGED <<standing, at, lying>>
    BY <1>7 DEF K!ChangeCondition
  <2>2. K!World' = w
    BY <2>1 DEF K!World
  <2> HIDE DEF w
  <2>3. cache' \in [K!Offsets -> BOOLEAN] /\ K!CacheTrue'
    BY <2>1, <2>2, AllAsked
  <2>4. QED BY <2>1, <2>3
<1>8. CASE UNCHANGED K!cacheVars
  BY <1>8 DEF K!cacheVars, K!CacheTrue, K!World
<1>9. \A to \in K!Tiles : K!Step(to) => CacheInv'
  BY StepIsTrue
<1>10. QED BY <1>0, <1>1, <1>2, <1>3, <1>4, <1>5, <1>6, <1>7, <1>8, <1>9 DEF K!Next

LEMMA CacheInvariant == ASSUME K!WalkCacheAssumption PROVE K!Spec => []CacheInv
<1>1. ASSUME K!Init PROVE CacheInv
  <2> DEFINE c == [d \in K!Offsets |-> FALSE]
  <2>1. cache \in [K!Offsets -> BOOLEAN]
    BY <1>1 DEF K!Init, K!updateMapCache, K!updateTileCache, K!queryAdd
  <2>2. K!CacheTrue
    BY <1>1 DEF K!Init, K!updateMapCache, K!updateTileCache, K!CacheTrue, K!World
  <2>3. QED BY <1>1, <2>1, <2>2 DEF K!Init, CacheInv, K!TypeOK
<1>2. CacheInv /\ [K!Next]_(K!cacheVars) => CacheInv'
  BY CacheStep
<1>3. QED BY <1>1, <1>2, PTL DEF K!Spec

-----------------------------------------------------------------------------
(* The walk of a player: for paths of any length and any number of events  *)
(* that were stopped too late                                              *)

\* Events that are with the scheduler or with the dispatcher, and how many there may be
\* besides those that were stopped too late.
Number(w) == Cardinality(w.timed) + W!Queued(w, "walk")
Live(w) == IF w.eventWalk # 0 /\ ~w.missed THEN 1 ELSE 0

\* An event that comes; steps that are left, and an action that waits, with what they
\* wait for.
Coming(w) == w.eventWalk # 0 /\ ~w.missed => w.eventWalk \in w.timed \/ W!Queued(w, "walk") > 0
StepsGo(w) == w.steps > 0 => w.eventWalk # 0 \/ w.held
ActionGoes(w) == w.walkTask => w.eventWalk # 0 \/ W!Queued(w, "go") > 0 \/ w.forgotten

\* A walker who may begin to walk, and one who walks as he should.
Ready(w) == w \in W!Walkers /\ w.stray <= MaxStray /\ Number(w) <= Live(w) + w.stray /\ Coming(w)
Good(w) == w \in W!Walkers /\ Number(w) <= Live(w) + w.stray /\ Coming(w) /\ StepsGo(w) /\ ActionGoes(w)

WalkInv == W!TypeOK /\ Good(walker)

WalkBounds == MaxSteps \in Nat \ {0} /\ MaxTasks \in Nat /\ MaxStray \in Nat

LEMMA WalkBoundsAre == ASSUME W!WalkAssumption PROVE WalkBounds
BY DEF W!WalkAssumption, WalkBounds

-----------------------------------------------------------------------------
(* Tasks and events                                                        *)

LEMMA QueuedSays ==
    ASSUME NEW w, NEW k
    PROVE  W!Queued(w, k) = Cardinality({i \in DOMAIN w.queue : w.queue[i] = k})
BY DEF W!Queued, W!Cardinality, Cardinality

LEMMA QueuedIs ==
    ASSUME NEW w \in W!Walkers, NEW k
    PROVE  W!Queued(w, k) \in Nat /\ IsFiniteSet({i \in DOMAIN w.queue : w.queue[i] = k})
<1>1. w.queue \in Seq(W!Tasks)
  BY DEF W!Walkers
<1>2. DOMAIN w.queue = 1..Len(w.queue) /\ Len(w.queue) \in Nat
  BY <1>1
<1>3. IsFiniteSet(1..Len(w.queue))
  <2>1. \A n \in Int : IsFiniteSet(1..n)
    BY FS_Interval
  <2>2. QED BY <1>2, <2>1
<1>4. IsFiniteSet({i \in DOMAIN w.queue : w.queue[i] = k})
  BY <1>2, <1>3, FS_Subset
<1>5. QED BY <1>4, FS_CardinalityType, QueuedSays

LEMMA QueuedAppend ==
    ASSUME NEW w \in W!Walkers, NEW k, NEW t \in W!Tasks, NEW u, u.queue = Append(w.queue, t)
    PROVE  W!Queued(u, k) = W!Queued(w, k) + (IF t = k THEN 1 ELSE 0)
<1> DEFINE q == w.queue
           r == u.queue
           n == Len(q) + 1
           were == {i \in DOMAIN q : q[i] = k}
           are == {i \in DOMAIN r : r[i] = k}
<1>1. q \in Seq(W!Tasks)
  BY DEF W!Walkers
<1>2. r = Append(q, t)
  OBVIOUS
<1>3. DOMAIN q = 1..Len(q) /\ DOMAIN r = 1..n /\ r[n] = t /\ Len(q) \in Nat
  BY <1>1, <1>2
<1>4. \A i \in 1..Len(q) : r[i] = q[i]
  BY <1>1, <1>2
<1>5. 1..n = (1..Len(q)) \cup {n} /\ n \notin 1..Len(q)
  BY <1>3
<1>6. IsFiniteSet(were) /\ W!Queued(w, k) = Cardinality(were) /\ Cardinality(were) \in Nat
  BY QueuedIs, QueuedSays
<1>7. W!Queued(u, k) = Cardinality(are)
  BY QueuedSays
<1> HIDE DEF q, r, n
<1>8. are = IF t = k THEN were \cup {n} ELSE were
  BY <1>3, <1>4, <1>5
<1>9. n \notin were
  BY <1>3, <1>5
<1>10. Cardinality(were \cup {n}) = Cardinality(were) + 1
  BY <1>6, <1>9, FS_AddElement
<1> HIDE DEF were, are
<1>11. QED BY <1>6, <1>7, <1>8, <1>10

LEMMA QueuedTail ==
    ASSUME NEW w \in W!Walkers, NEW k, w.queue # <<>>, NEW u, u.queue = Tail(w.queue)
    PROVE  W!Queued(w, k) = W!Queued(u, k) + (IF Head(w.queue) = k THEN 1 ELSE 0)
<1> DEFINE q == w.queue
           r == u.queue
           were == {i \in DOMAIN q : q[i] = k}
           are == {i \in DOMAIN r : r[i] = k}
           rest == {i \in were : i # 1}
           f == [i \in are |-> i + 1]
<1>1. q \in Seq(W!Tasks) /\ q # <<>> /\ r = Tail(q)
  BY DEF W!Walkers
<1>2. Len(q) \in Nat \ {0} /\ DOMAIN q = 1..Len(q) /\ DOMAIN r = 1..(Len(q) - 1) /\ Head(q) = q[1]
  BY <1>1
<1>3. \A i \in 1..(Len(q) - 1) : r[i] = q[i + 1]
  BY <1>1
<1>4. IsFiniteSet(were) /\ W!Queued(w, k) = Cardinality(were) /\ Cardinality(were) \in Nat
  BY QueuedIs, QueuedSays
<1>5. W!Queued(u, k) = Cardinality(are)
  BY QueuedSays
<1> HIDE DEF q, r
<1>6. \A i \in are : i \in Int /\ i + 1 \in rest
  BY <1>2, <1>3
<1>7. ASSUME NEW j \in rest PROVE j - 1 \in are /\ j = (j - 1) + 1
  <2>1. j \in 2..Len(q) /\ q[j] = k
    BY <1>2
  <2>2. j - 1 \in 1..(Len(q) - 1) /\ (j - 1) + 1 = j
    BY <1>2, <2>1
  <2>3. r[j - 1] = q[j]
    BY <1>3, <2>2
  <2>4. QED BY <1>2, <2>1, <2>2, <2>3
<1>8. IsFiniteSet(are)
  <2>1. IsFiniteSet(1..(Len(q) - 1))
    BY <1>2, FS_Interval
  <2>2. are \subseteq 1..(Len(q) - 1)
    BY <1>2
  <2>3. QED BY <2>1, <2>2, FS_Subset
<1>9. Cardinality(rest) = Cardinality(are)
  <2>1. f \in [are -> rest] /\ \A i \in are : f[i] = i + 1
    BY <1>6
  <2> HIDE DEF f
  <2>2. \A i, j \in are : f[i] = f[j] => i = j
    BY <1>6, <2>1
  <2>3. \A j \in rest : \E i \in are : f[i] = j
    BY <1>7, <2>1
  <2> HIDE DEF are, rest
  <2>4. f \in Bijection(are, rest)
    BY <2>1, <2>2, <2>3 DEF Bijection, Injection, IsInjective, Surjection
  <2>5. ExistsBijection(are, rest)
    BY <2>4 DEF ExistsBijection
  <2>6. QED BY <1>8, <2>5, FS_Bijection
<1>10. CASE Head(q) = k
  <2>1. 1 \in were /\ rest = were \ {1}
    BY <1>2, <1>10
  <2> HIDE DEF were, are, rest
  <2>2. Cardinality(were \ {1}) = Cardinality(were) - 1
    BY <1>4, <2>1, FS_RemoveElement
  <2>3. W!Queued(w, k) = W!Queued(u, k) + 1
    BY <1>4, <1>5, <1>9, <2>1, <2>2
  <2>4. QED BY <1>10, <2>3 DEF q
<1>11. CASE Head(q) # k
  <2>1. rest = were
    BY <1>2, <1>11
  <2> HIDE DEF were, are, rest
  <2>2. W!Queued(w, k) = W!Queued(u, k) + 0
    BY <1>4, <1>5, <1>9, <2>1
  <2>3. QED BY <1>11, <2>2 DEF q
<1>12. QED BY <1>10, <1>11

\* Events with the scheduler are few, and there is an id for one more.
LEMMA TimedFinite ==
    ASSUME WalkBounds, NEW T, T \subseteq W!Ids
    PROVE  /\ IsFiniteSet(T) /\ Cardinality(T) \in Nat
           /\ Cardinality(T) <= MaxStray + 1 => \E i \in W!Ids : i \notin T
           /\ \A i \in T : Cardinality(T \ {i}) = Cardinality(T) - 1
           /\ \A i : i \notin T => Cardinality(T \cup {i}) = Cardinality(T) + 1
<1>1. IsFiniteSet(W!Ids) /\ Cardinality(W!Ids) = MaxStray + 2
  <2>1. \A n \in Int : IsFiniteSet(1..n) /\ Cardinality(1..n) = IF 1 > n THEN 0 ELSE n - 1 + 1
    BY FS_Interval
  <2>2. QED BY <2>1 DEF WalkBounds, W!Ids
<1>2. IsFiniteSet(T) /\ Cardinality(T) \in Nat
  BY <1>1, FS_Subset, FS_CardinalityType
<1>3. ASSUME Cardinality(T) <= MaxStray + 1 PROVE \E i \in W!Ids : i \notin T
  <2>1. T # W!Ids
    BY <1>1, <1>2, <1>3 DEF WalkBounds
  <2>2. QED BY <2>1
<1>4. QED BY <1>2, <1>3, FS_AddElement, FS_RemoveElement

-----------------------------------------------------------------------------
(* What the operators leave                                                *)

LEMMA WalkerIs ==
    ASSUME WalkBounds, NEW w \in W!Walkers
    PROVE  /\ w.steps \in 0..MaxSteps /\ w.eventWalk \in W!Ids \cup {0} /\ w.timed \subseteq W!Ids
           /\ w.queue \in Seq(W!Tasks) /\ w.stray \in Nat /\ Cardinality(w.timed) \in Nat
           /\ W!Queued(w, "walk") \in Nat /\ W!Queued(w, "go") \in Nat /\ 0 \notin W!Ids
           /\ w.cancelNextWalk \in BOOLEAN /\ w.walkTask \in BOOLEAN /\ w.missed \in BOOLEAN
<1>1. w.timed \subseteq W!Ids
  BY DEF W!Walkers
<1>2. Cardinality(w.timed) \in Nat
  BY <1>1, TimedFinite
<1>3. W!Queued(w, "walk") \in Nat /\ W!Queued(w, "go") \in Nat
  BY QueuedIs
<1>4. 0 \notin W!Ids
  BY DEF W!Ids, WalkBounds
<1>5. QED BY <1>1, <1>2, <1>3, <1>4 DEF W!Walkers

\* What is counted, and what comes, depends on these parts only.
LEMMA SameEvents ==
    ASSUME NEW w, NEW u, u.queue = w.queue
    PROVE  /\ \A k : W!Queued(u, k) = W!Queued(w, k)
           /\ u.timed = w.timed => Number(u) = Number(w)
BY QueuedSays DEF Number

LEMMA AbortedIs ==
    ASSUME WalkBounds, NEW w \in W!Walkers
    PROVE  LET u == W!Aborted(w) IN
           /\ u \in W!Walkers /\ u.steps = 0 /\ u.walkTask = FALSE /\ u.stray = w.stray
           /\ u.eventWalk = w.eventWalk /\ u.missed = w.missed /\ u.timed = w.timed
           /\ u.queue = w.queue /\ u.cancelNextWalk = w.cancelNextWalk
<1>1. 0 \in 0..MaxSteps
  BY DEF WalkBounds
<1>2. QED BY <1>1 DEF W!Aborted, W!SetAction, W!Walkers

LEMMA CompletedIs ==
    ASSUME NEW w \in W!Walkers
    PROVE  LET u == W!Completed(w) IN
           /\ u \in W!Walkers /\ u.walkTask = FALSE /\ u.steps = w.steps /\ u.stray = w.stray
           /\ u.eventWalk = w.eventWalk /\ u.missed = w.missed /\ u.timed = w.timed
           /\ u.queue = w.queue /\ u.cancelNextWalk = w.cancelNextWalk /\ u.held = w.held
BY DEF W!Completed, W!Walkers

LEMMA StopEventIs ==
    ASSUME NEW w \in W!Walkers
    PROVE  LET u == W!StopEvent(w) IN
           /\ u \in W!Walkers /\ u.walkTask = w.walkTask /\ u.steps = w.steps
           /\ u.stray = IF w.eventWalk \in w.timed \/ w.missed THEN w.stray ELSE w.stray + 1
           /\ u.eventWalk = 0 /\ u.missed = FALSE /\ u.timed = w.timed \ {w.eventWalk}
           /\ u.queue = w.queue /\ u.cancelNextWalk = w.cancelNextWalk
<1> DEFINE n == IF w.eventWalk \in w.timed \/ w.missed THEN w.stray ELSE w.stray + 1
           T == w.timed \ {w.eventWalk}
<1>1. n \in Nat /\ T \subseteq W!Ids /\ w.stray \in Nat
  BY DEF W!Walkers
<1>2. W!StopEvent(w) = [w EXCEPT !.timed = T, !.eventWalk = 0, !.missed = FALSE, !.stray = n]
  BY DEF W!StopEvent
<1> HIDE DEF n, T
<1>3. LET u == W!StopEvent(w) IN
      /\ u \in W!Walkers /\ u.walkTask = w.walkTask /\ u.steps = w.steps /\ u.stray = n
      /\ u.eventWalk = 0 /\ u.missed = FALSE /\ u.timed = T
      /\ u.queue = w.queue /\ u.cancelNextWalk = w.cancelNextWalk
  BY <1>1, <1>2 DEF W!Walkers
<1>4. QED BY <1>3 DEF n, T

\* One who is stopped has neither an event nor steps, nor an action that was not told.
LEMMA EndedIs ==
    ASSUME WalkBounds, NEW w \in W!Walkers, NEW fired \in BOOLEAN, w.eventWalk # 0
    PROVE  LET u == W!Ended(w, fired) IN
           /\ u \in W!Walkers /\ u.steps = 0 /\ u.eventWalk = 0 /\ u.missed = FALSE
           /\ u.walkTask => u.forgotten
           /\ u.timed = w.timed \ {w.eventWalk} /\ u.queue = w.queue
           /\ fired => u.stray = w.stray
           /\ ~fired => u.stray = IF w.eventWalk \in w.timed \/ w.missed THEN w.stray ELSE w.stray + 1
<1> DEFINE s == W!StopEvent(w)
           v == IF fired THEN [s EXCEPT !.stray = w.stray] ELSE s
           a == [v EXCEPT !.forgotten = w.walkTask]
<1>1. /\ s \in W!Walkers /\ s.walkTask = w.walkTask /\ s.steps = w.steps
      /\ s.stray = IF w.eventWalk \in w.timed \/ w.missed THEN w.stray ELSE w.stray + 1
      /\ s.eventWalk = 0 /\ s.missed = FALSE /\ s.timed = w.timed \ {w.eventWalk} /\ s.queue = w.queue
  BY StopEventIs
<1>2. W!Ended(w, fired) = IF w.steps > 0 THEN W!Aborted(v) ELSE a
  BY DEF W!Ended
<1> HIDE DEF s
<1>3. /\ v \in W!Walkers /\ v.walkTask = w.walkTask /\ v.steps = w.steps
      /\ v.eventWalk = 0 /\ v.missed = FALSE /\ v.timed = w.timed \ {w.eventWalk} /\ v.queue = w.queue
      /\ fired => v.stray = w.stray
      /\ ~fired => v.stray = IF w.eventWalk \in w.timed \/ w.missed THEN w.stray ELSE w.stray + 1
  BY <1>1 DEF W!Walkers
<1> HIDE DEF v
<1>4. CASE w.steps > 0
  BY <1>2, <1>3, <1>4, AbortedIs
<1>5. CASE ~(w.steps > 0)
  <2>1. w.steps = 0 /\ w.walkTask \in BOOLEAN
    BY <1>5, WalkerIs DEF WalkBounds
  <2>2. /\ a \in W!Walkers /\ a.forgotten = w.walkTask /\ a.walkTask = w.walkTask /\ a.steps = 0
        /\ a.eventWalk = 0 /\ a.missed = FALSE /\ a.timed = v.timed /\ a.queue = v.queue
        /\ a.stray = v.stray
    BY <1>3, <2>1 DEF W!Walkers
  <2> HIDE DEF a
  <2>3. QED BY <1>2, <1>3, <1>5, <2>1, <2>2
<1>6. QED BY <1>4, <1>5


\* One who comes to his event goes on as he is, or has no event afterwards.
LEMMA WalkedIs ==
    ASSUME WalkBounds, NEW w \in W!Walkers, NEW u \in W!Walked(w)
    PROVE  /\ u \in W!Walkers /\ u.queue = w.queue /\ u.stray = w.stray
           /\ \/ u.eventWalk = w.eventWalk /\ u.missed = w.missed /\ u.timed = w.timed
              \/ u.eventWalk = 0 /\ u.missed = FALSE /\ u.timed = w.timed \ {w.eventWalk}
           /\ StepsGo(w) => StepsGo(u)
           /\ ActionGoes(w) => ActionGoes(u)
<1> DEFINE step == [w EXCEPT !.steps = @ - 1]
           Fits(v) ==
              /\ v \in W!Walkers /\ v.queue = w.queue /\ v.stray = w.stray
              /\ \/ v.eventWalk = w.eventWalk /\ v.missed = w.missed /\ v.timed = w.timed
                 \/ v.eventWalk = 0 /\ v.missed = FALSE /\ v.timed = w.timed \ {w.eventWalk}
              /\ StepsGo(w) => StepsGo(v)
              /\ ActionGoes(w) => ActionGoes(v)
<1>1. PICK v : /\ \/ v = w
                  \/ w.steps = 0 /\ v = W!Ended(W!Completed(w), TRUE)
                  \/ w.steps # 0 /\ (v = step \/ v = W!Ended(step, TRUE))
               /\ u = IF v.cancelNextWalk THEN [W!Aborted(v) EXCEPT !.cancelNextWalk = FALSE] ELSE v
  BY DEF W!Walked
<1>2. w.steps \in 0..MaxSteps
  BY WalkerIs
<1>3. ASSUME NEW x \in W!Walkers, x.eventWalk = w.eventWalk, x.missed = w.missed, x.timed = w.timed,
             x.queue = w.queue, x.stray = w.stray, StepsGo(w) => StepsGo(x), ActionGoes(w) => ActionGoes(x)
      PROVE  Fits(W!Ended(x, TRUE))
  <2>1. CASE x.eventWalk = 0
    BY <1>3, <2>1 DEF W!Ended
  <2>2. CASE x.eventWalk # 0
    <3> DEFINE e == W!Ended(x, TRUE)
    <3>1. /\ e \in W!Walkers /\ e.steps = 0 /\ e.eventWalk = 0 /\ e.missed = FALSE
          /\ e.walkTask => e.forgotten
          /\ e.timed = x.timed \ {x.eventWalk} /\ e.queue = x.queue /\ e.stray = x.stray
      BY <2>2, EndedIs
    <3> HIDE DEF e
    <3>2. StepsGo(e) /\ ActionGoes(e)
      BY <3>1 DEF StepsGo, ActionGoes
    <3>3. Fits(e)
      BY <1>3, <3>1, <3>2
    <3>4. QED BY <3>3 DEF e
  <2>3. QED BY <2>1, <2>2
<1>4. Fits(v)
  <2>1. CASE v = w
    BY <2>1
  <2>2. CASE w.steps = 0 /\ v = W!Ended(W!Completed(w), TRUE)
    <3> DEFINE c == W!Completed(w)
    <3>1. /\ c \in W!Walkers /\ c.walkTask = FALSE /\ c.steps = w.steps /\ c.stray = w.stray
          /\ c.eventWalk = w.eventWalk /\ c.missed = w.missed /\ c.timed = w.timed
          /\ c.queue = w.queue
      BY CompletedIs
    <3> HIDE DEF c
    <3>2. StepsGo(c) /\ ActionGoes(c)
      BY <2>2, <3>1 DEF StepsGo, ActionGoes
    <3>3. QED BY <1>3, <2>2, <3>1, <3>2 DEF c
  <2>3. CASE w.steps # 0 /\ (v = step \/ v = W!Ended(step, TRUE))
    <3>1. w.steps - 1 \in 0..MaxSteps /\ w.steps > 0
      BY <1>2, <2>3 DEF WalkBounds
    <3>2. /\ step \in W!Walkers /\ step.walkTask = w.walkTask /\ step.stray = w.stray
          /\ step.eventWalk = w.eventWalk /\ step.missed = w.missed /\ step.timed = w.timed
          /\ step.queue = w.queue /\ step.held = w.held /\ step.forgotten = w.forgotten
      BY <3>1 DEF W!Walkers
    <3> HIDE DEF step
    <3>3. StepsGo(w) => StepsGo(step)
      BY <3>1, <3>2 DEF StepsGo
    <3>4. ActionGoes(w) => ActionGoes(step)
      BY <3>2, SameEvents DEF ActionGoes
    <3>5. Fits(step)
      BY <3>2, <3>3, <3>4
    <3>6. Fits(W!Ended(step, TRUE))
      BY <1>3, <3>2, <3>3, <3>4
    <3>7. QED BY <2>3, <3>5, <3>6
  <2>4. QED BY <1>1, <2>1, <2>2, <2>3
<1>5. CASE ~v.cancelNextWalk
  BY <1>1, <1>4, <1>5
<1>6. CASE v.cancelNextWalk
  <2> DEFINE a == W!Aborted(v)
  <2>1. /\ a \in W!Walkers /\ a.steps = 0 /\ a.walkTask = FALSE /\ a.stray = v.stray
        /\ a.eventWalk = v.eventWalk /\ a.missed = v.missed /\ a.timed = v.timed
        /\ a.queue = v.queue
    BY <1>4, AbortedIs
  <2>2. u = [a EXCEPT !.cancelNextWalk = FALSE]
    BY <1>1, <1>6
  <2> HIDE DEF a
  <2>3. /\ u \in W!Walkers /\ u.steps = 0 /\ u.walkTask = FALSE /\ u.stray = v.stray
        /\ u.eventWalk = v.eventWalk /\ u.missed = v.missed /\ u.timed = v.timed
        /\ u.queue = v.queue
    BY <2>1, <2>2 DEF W!Walkers
  <2>4. StepsGo(u) /\ ActionGoes(u)
    BY <2>3 DEF StepsGo, ActionGoes
  <2>5. QED BY <1>4, <2>3, <2>4
<1>7. QED BY <1>5, <1>6

\* One who has no event to come gets one.
LEMMA ScheduledIs ==
    ASSUME WalkBounds, NEW w \in W!Walkers, w.stray <= MaxStray, Number(w) <= w.stray
    PROVE  Good(W!Scheduled(w)) /\ W!Scheduled(w).eventWalk # 0
<1> DEFINE id == CHOOSE i \in W!Ids : i \notin w.timed
           u == W!Scheduled(w)
<1>1. w.timed \subseteq W!Ids /\ w.stray \in Nat /\ Cardinality(w.timed) \in Nat /\ W!Queued(w, "walk") \in Nat
      /\ 0 \notin W!Ids
  BY WalkerIs
<1>2. Cardinality(w.timed) <= MaxStray + 1
  BY <1>1 DEF Number, WalkBounds
<1>3. id \in W!Ids /\ id \notin w.timed
  <2>1. \E i \in W!Ids : i \notin w.timed
    BY <1>1, <1>2, TimedFinite
  <2>2. QED BY <2>1
<1>4. u = [w EXCEPT !.eventWalk = id, !.timed = @ \cup {id}, !.missed = FALSE, !.held = FALSE, !.forgotten = FALSE]
  BY DEF W!Scheduled
<1> HIDE DEF id, u
<1>5. /\ u \in W!Walkers /\ u.eventWalk = id /\ u.timed = w.timed \cup {id} /\ u.missed = FALSE
      /\ u.queue = w.queue /\ u.stray = w.stray
  BY <1>3, <1>4 DEF W!Walkers
<1>6. Cardinality(u.timed) = Cardinality(w.timed) + 1
  BY <1>1, <1>3, <1>5, TimedFinite
<1>7. W!Queued(u, "walk") = W!Queued(w, "walk")
  BY <1>5, SameEvents
<1>8. u.eventWalk # 0 /\ Live(u) = 1
  BY <1>1, <1>3, <1>5 DEF Live
<1>9. Number(u) <= Live(u) + u.stray
  BY <1>1, <1>5, <1>6, <1>7, <1>8 DEF Number
<1>10. QED BY <1>5, <1>8, <1>9 DEF Good, Coming, StepsGo, ActionGoes, u

LEMMA AddEventIs ==
    ASSUME WalkBounds, NEW w, Ready(w), NEW first \in BOOLEAN, NEW u \in W!addEventWalk(w, first)
    PROVE  Good(u)
<1> DEFINE c == [w EXCEPT !.cancelNextWalk = FALSE]
<1>1. /\ c \in W!Walkers /\ c.eventWalk = w.eventWalk /\ c.missed = w.missed /\ c.timed = w.timed
      /\ c.queue = w.queue /\ c.stray = w.stray /\ c.steps = w.steps
  BY DEF Ready, W!Walkers
<1>2. \/ c.eventWalk # 0 /\ u = c
      \/ c.eventWalk = 0 /\ u = W!Scheduled(c)
      \/ c.eventWalk = 0 /\ \E v \in W!Walked(c) : u = W!Scheduled(v)
  BY DEF W!addEventWalk
<1> HIDE DEF c
<1>3. Number(c) = Number(w) /\ \A k : W!Queued(c, k) = W!Queued(w, k)
  BY <1>1, SameEvents
<1>4. CASE c.eventWalk # 0 /\ u = c
  <2>1. Live(c) = Live(w) /\ Coming(c)
    BY <1>1, <1>3 DEF Live, Coming, Ready
  <2>2. QED BY <1>1, <1>3, <1>4, <2>1 DEF Good, Ready, StepsGo, ActionGoes
<1>5. ASSUME c.eventWalk = 0 PROVE Number(c) <= c.stray /\ c.stray <= MaxStray
  <2>1. Live(w) = 0 /\ w.stray \in Nat
    BY <1>1, <1>5 DEF Live, Ready, W!Walkers
  <2>2. QED BY <1>1, <1>3, <2>1 DEF Ready
<1>6. CASE c.eventWalk = 0 /\ u = W!Scheduled(c)
  BY <1>1, <1>5, <1>6, ScheduledIs
<1>7. ASSUME c.eventWalk = 0, NEW v \in W!Walked(c), u = W!Scheduled(v) PROVE Good(u)
  <2>1. /\ v \in W!Walkers /\ v.queue = c.queue /\ v.stray = c.stray
        /\ \/ v.eventWalk = c.eventWalk /\ v.missed = c.missed /\ v.timed = c.timed
           \/ v.eventWalk = 0 /\ v.missed = FALSE /\ v.timed = c.timed \ {c.eventWalk}
    BY <1>1, <1>7, WalkedIs
  <2>2. c.timed \ {c.eventWalk} = c.timed
    BY <1>1, <1>7, WalkerIs
  <2>3. Number(v) = Number(c)
    BY <2>1, <2>2, SameEvents
  <2>4. QED BY <1>5, <1>7, <2>1, <2>3, ScheduledIs
<1>8. QED BY <1>2, <1>4, <1>6, <1>7


LEMMA FewerTimed ==
    ASSUME WalkBounds, NEW w \in W!Walkers, NEW i
    PROVE  Cardinality(w.timed \ {i}) \in Nat /\ Cardinality(w.timed \ {i}) <= Cardinality(w.timed)
<1>1. w.timed \subseteq W!Ids /\ Cardinality(w.timed) \in Nat
  BY WalkerIs
<1>2. CASE i \in w.timed
  <2>1. Cardinality(w.timed \ {i}) = Cardinality(w.timed) - 1 /\ w.timed \ {i} \subseteq W!Ids
    BY <1>1, <1>2, TimedFinite
  <2>2. Cardinality(w.timed \ {i}) \in Nat
    BY <2>1, TimedFinite
  <2>3. QED BY <1>1, <2>1, <2>2
<1>3. CASE i \notin w.timed
  <2>1. w.timed \ {i} = w.timed
    BY <1>3
  <2>2. QED BY <1>1, <2>1
<1>4. QED BY <1>2, <1>3

\* The task of an event that has come has been taken from the queue; what is left is
\* one less than what there may be, so that there is room for the next event.
LEMMA OnWalkIs ==
    ASSUME WalkBounds, NEW w \in W!Walkers, w.stray <= MaxStray, Number(w) + 1 <= Live(w) + w.stray,
           StepsGo(w), ActionGoes(w), NEW u \in W!checkCreatureWalk(w)
    PROVE  Good(u)
<1>1. /\ w.stray \in Nat /\ Cardinality(w.timed) \in Nat /\ W!Queued(w, "walk") \in Nat
      /\ Live(w) \in {0, 1} /\ Number(w) \in Nat
  BY WalkerIs DEF Live, Number
<1>2. Number(w) <= w.stray
  BY <1>1
<1>3. CASE ~w.alive
  <2> DEFINE m == w.eventWalk # 0 /\ w.eventWalk \notin w.timed /\ W!Queued(w, "walk") = 0
  <2>1. u = [w EXCEPT !.missed = m]
    BY <1>3 DEF W!checkCreatureWalk
  <2>2. m \in BOOLEAN
    OBVIOUS
  <2> HIDE DEF m
  <2>3. /\ u \in W!Walkers /\ u.missed = m /\ u.queue = w.queue /\ u.timed = w.timed /\ u.stray = w.stray
        /\ u.eventWalk = w.eventWalk /\ u.steps = w.steps /\ u.held = w.held
        /\ u.walkTask = w.walkTask /\ u.forgotten = w.forgotten
    BY <2>1, <2>2 DEF W!Walkers
  <2>4. Number(u) = Number(w) /\ \A k : W!Queued(u, k) = W!Queued(w, k)
    BY <2>3, SameEvents
  <2>5. Coming(u)
    <3> SUFFICES ASSUME u.eventWalk # 0, ~u.missed
                 PROVE  u.eventWalk \in u.timed \/ W!Queued(u, "walk") > 0
      BY DEF Coming
    <3>1. ~m
      BY <2>3
    <3>2. w.eventWalk = 0 \/ w.eventWalk \in w.timed \/ W!Queued(w, "walk") # 0
      BY <3>1 DEF m
    <3>3. QED BY <1>1, <2>3, <2>4, <3>2
  <2>6. StepsGo(u) /\ ActionGoes(u)
    BY <2>3, <2>4 DEF StepsGo, ActionGoes
  <2>7. Number(u) <= Live(u) + u.stray
    BY <1>1, <1>2, <2>3, <2>4 DEF Live
  <2>8. QED BY <2>3, <2>5, <2>6, <2>7 DEF Good
<1>4. CASE w.alive
  <2>1. PICK v \in W!Walked(w) : u \in IF v.eventWalk # 0 THEN W!addEventWalk([v EXCEPT !.eventWalk = 0], FALSE) ELSE {v}
    BY <1>4 DEF W!checkCreatureWalk, W!onWalk
  <2>2. /\ v \in W!Walkers /\ v.queue = w.queue /\ v.stray = w.stray
        /\ \/ v.eventWalk = w.eventWalk /\ v.missed = w.missed /\ v.timed = w.timed
           \/ v.eventWalk = 0 /\ v.missed = FALSE /\ v.timed = w.timed \ {w.eventWalk}
        /\ StepsGo(v) /\ ActionGoes(v)
    BY WalkedIs
  <2>3. W!Queued(v, "walk") = W!Queued(w, "walk")
    BY <2>2, SameEvents
  <2>4. Cardinality(v.timed) \in Nat /\ Cardinality(v.timed) <= Cardinality(w.timed)
    <3>1. CASE v.timed = w.timed
      BY <1>1, <3>1
    <3>2. CASE v.timed = w.timed \ {w.eventWalk}
      BY <3>2, FewerTimed
    <3>3. QED BY <2>2, <3>1, <3>2
  <2>5. Number(v) <= v.stray
    BY <1>1, <1>2, <2>2, <2>3, <2>4 DEF Number
  <2>6. CASE v.eventWalk # 0
    <3> DEFINE x == [v EXCEPT !.eventWalk = 0]
    <3>1. /\ x \in W!Walkers /\ x.eventWalk = 0 /\ x.queue = v.queue /\ x.timed = v.timed /\ x.stray = v.stray
      BY <2>2 DEF W!Walkers
    <3>2. u \in W!addEventWalk(x, FALSE)
      BY <2>1, <2>6
    <3> HIDE DEF x
    <3>3. Number(x) <= Live(x) + x.stray /\ Coming(x)
      <4>1. Number(x) = Number(v)
        BY <3>1, SameEvents
      <4>2. Live(x) = 0 /\ Coming(x)
        BY <3>1 DEF Live, Coming
      <4>3. QED BY <1>1, <2>2, <2>5, <3>1, <4>1, <4>2
    <3>4. Ready(x)
      BY <2>2, <3>1, <3>3 DEF Ready
    <3>5. QED BY <3>2, <3>4, AddEventIs
  <2>7. CASE v.eventWalk = 0
    <3>1. u = v
      BY <2>1, <2>7
    <3>2. Live(v) = 0 /\ Coming(v)
      BY <2>7 DEF Live, Coming
    <3>3. QED BY <1>1, <2>2, <2>5, <3>1, <3>2 DEF Good
  <2>8. QED BY <2>6, <2>7
<1>5. w.alive \in BOOLEAN
  BY DEF W!Walkers
<1>6. QED BY <1>3, <1>4, <1>5

\* A walk that is stopped, where the event may have fired.
LEMMA StoppedIs ==
    ASSUME WalkBounds, NEW w, Good(w)
    PROVE  Good(W!stopEventWalk(w))
<1> DEFINE u == W!stopEventWalk(w)
<1>1. u = W!Ended(w, FALSE) /\ w \in W!Walkers
  BY DEF W!stopEventWalk, Good
<1>2. CASE w.eventWalk = 0
  BY <1>1, <1>2 DEF W!Ended
<1>3. CASE w.eventWalk # 0
  <2>1. /\ u \in W!Walkers /\ u.steps = 0 /\ u.eventWalk = 0 /\ u.missed = FALSE
        /\ u.walkTask => u.forgotten
        /\ u.timed = w.timed \ {w.eventWalk} /\ u.queue = w.queue
        /\ u.stray = IF w.eventWalk \in w.timed \/ w.missed THEN w.stray ELSE w.stray + 1
    BY <1>1, <1>3, EndedIs
  <2> HIDE DEF u
  <2>2. W!Queued(u, "walk") = W!Queued(w, "walk")
    BY <2>1, SameEvents
  <2>3. Cardinality(w.timed) \in Nat /\ W!Queued(w, "walk") \in Nat /\ w.stray \in Nat /\ w.timed \subseteq W!Ids
        /\ w.missed \in BOOLEAN
    BY <1>1, WalkerIs
  <2>4. Cardinality(w.timed) + W!Queued(w, "walk") <= Live(w) + w.stray
    BY DEF Good, Number
  <2>5. Cardinality(u.timed) \in Nat /\ Cardinality(u.timed) <= Cardinality(w.timed)
    BY <1>1, <2>1, FewerTimed
  <2>6. Cardinality(u.timed) + W!Queued(u, "walk") <= u.stray
    <3>1. CASE w.eventWalk \in w.timed
      <4>1. Cardinality(u.timed) = Cardinality(w.timed) - 1
        BY <2>1, <2>3, <3>1, TimedFinite
      <4>2. QED BY <2>1, <2>2, <2>3, <2>4, <3>1, <4>1 DEF Live
    <3>2. CASE w.missed
      <4>1. Live(w) = 0
        BY <3>2 DEF Live
      <4>2. QED BY <2>1, <2>2, <2>3, <2>4, <2>5, <3>2, <4>1
    <3>3. CASE ~(w.eventWalk \in w.timed \/ w.missed)
      <4>1. Live(w) = 1 /\ u.stray = w.stray + 1
        BY <1>3, <2>1, <3>3 DEF Live
      <4>2. QED BY <2>2, <2>3, <2>4, <2>5, <4>1
    <3>4. QED BY <3>1, <3>2, <3>3
  <2>7. Live(u) = 0 /\ Coming(u) /\ StepsGo(u) /\ ActionGoes(u)
    BY <2>1 DEF Live, Coming, StepsGo, ActionGoes
  <2>8. u.stray \in Nat
    BY <2>1, <2>3
  <2>9. Good(u)
    BY <2>1, <2>5, <2>6, <2>7, <2>8 DEF Good, Number
  <2>10. QED BY <2>9 DEF u
<1>4. QED BY <1>2, <1>3


-----------------------------------------------------------------------------
(* Handlers                                                                *)

\* What makes one ready does not depend on the path or on what waits.
LEMMA SameReady ==
    ASSUME NEW w, Ready(w), NEW x \in W!Walkers, x.queue = w.queue, x.timed = w.timed,
           x.eventWalk = w.eventWalk, x.missed = w.missed, x.stray = w.stray
    PROVE  Ready(x) /\ \A k : W!Queued(x, k) = W!Queued(w, k)
<1>1. Number(x) = Number(w) /\ \A k : W!Queued(x, k) = W!Queued(w, k)
  BY SameEvents
<1>2. Live(x) = Live(w)
  BY DEF Live
<1>3. Coming(x)
  BY <1>1 DEF Ready, Coming
<1>4. QED BY <1>1, <1>2, <1>3 DEF Ready

LEMMA GoodIsReady == ASSUME NEW w, Good(w), w.stray <= MaxStray PROVE Ready(w)
BY DEF Good, Ready

\* One who may not move: what waits for him is told nothing.
LEMMA RefusedIs ==
    ASSUME WalkBounds, NEW w, Ready(w), StepsGo(w)
    PROVE  Good(W!Refused(w))
<1> DEFINE u == W!Refused(w)
           f == w.walkTask /\ w.eventWalk = 0
<1>1. w \in W!Walkers /\ f \in BOOLEAN
  BY DEF Ready
<1>2. u = [w EXCEPT !.forgotten = f]
  BY DEF W!Refused
<1> HIDE DEF u, f
<1>3. /\ u \in W!Walkers /\ u.forgotten = f /\ u.queue = w.queue /\ u.timed = w.timed
      /\ u.stray = w.stray /\ u.eventWalk = w.eventWalk /\ u.missed = w.missed
      /\ u.steps = w.steps /\ u.held = w.held /\ u.walkTask = w.walkTask
  BY <1>1, <1>2 DEF W!Walkers
<1>4. Ready(u) /\ StepsGo(u)
  BY <1>3, SameReady DEF StepsGo
<1>5. ActionGoes(u)
  <2> SUFFICES ASSUME u.walkTask, u.eventWalk = 0 PROVE u.forgotten
    BY DEF ActionGoes
  <2>1. f
    BY <1>3 DEF f
  <2>2. QED BY <1>3, <2>1
<1>6. QED BY <1>4, <1>5 DEF Ready, Good, u

LEMMA StartIs ==
    ASSUME WalkBounds, NEW w, Ready(w), StepsGo(w), NEW n \in 0..MaxSteps, NEW u \in W!startAutoWalk(w, n)
    PROVE  Good(u)
<1>1. CASE w.noMove
  BY <1>1, RefusedIs DEF W!startAutoWalk
<1>2. CASE ~w.noMove
  <2> DEFINE x == [w EXCEPT !.steps = n]
  <2>1. u \in W!addEventWalk(x, n = 1)
    BY <1>2 DEF W!startAutoWalk
  <2>2. /\ x \in W!Walkers /\ x.queue = w.queue /\ x.timed = w.timed
        /\ x.eventWalk = w.eventWalk /\ x.missed = w.missed /\ x.stray = w.stray
    BY DEF Ready, W!Walkers
  <2> HIDE DEF x
  <2>3. Ready(x)
    BY <2>2, SameReady
  <2>4. (n = 1) \in BOOLEAN
    OBVIOUS
  <2>5. QED BY <2>1, <2>3, <2>4, AddEventIs
<1>3. w.noMove \in BOOLEAN
  BY DEF Ready, W!Walkers
<1>4. QED BY <1>1, <1>2, <1>3

LEMMA FollowIs ==
    ASSUME WalkBounds, NEW w, Ready(w), StepsGo(w), NEW n \in 0..MaxSteps, NEW u \in W!Follow(w, n)
    PROVE  Good(u)
<1>1. CASE w.noMove
  <2> DEFINE h == w.eventWalk = 0
             x == [w EXCEPT !.steps = n, !.held = h]
  <2>1. u = W!Refused(x)
    BY <1>1 DEF W!Follow
  <2>2. h \in BOOLEAN
    OBVIOUS
  <2> HIDE DEF h
  <2>3. /\ x \in W!Walkers /\ x.queue = w.queue /\ x.timed = w.timed /\ x.held = h
        /\ x.eventWalk = w.eventWalk /\ x.missed = w.missed /\ x.stray = w.stray
    BY <2>2 DEF Ready, W!Walkers
  <2> HIDE DEF x
  <2>4. Ready(x)
    BY <2>3, SameReady
  <2>5. StepsGo(x)
    <3>1. CASE h
      BY <2>3, <3>1 DEF StepsGo
    <3>2. CASE ~h
      BY <2>3, <3>2 DEF StepsGo, h
    <3>3. QED BY <3>1, <3>2
  <2>6. QED BY <2>1, <2>4, <2>5, RefusedIs
<1>2. CASE ~w.noMove
  BY <1>2, StartIs DEF W!Follow
<1>3. QED BY <1>1, <1>2

\* An action that will wait: the walk it waits for is a task.
LEMMA RequestIs ==
    ASSUME WalkBounds, NEW w, Good(w)
    PROVE  Good(W!Request(w))
<1> DEFINE q == Append(w.queue, "go")
           u == W!Request(w)
<1>1. w \in W!Walkers /\ w.queue \in Seq(W!Tasks) /\ "go" \in W!Tasks
  BY DEF Good, W!Walkers, W!Tasks
<1>2. q \in Seq(W!Tasks)
  BY <1>1
<1>3. u = [[w EXCEPT !.queue = q] EXCEPT !.acting = FALSE, !.walkTask = TRUE, !.forgotten = FALSE]
  BY DEF W!Request, W!SetAction, W!Enqueue
<1> HIDE DEF q, u
<1>4. /\ u \in W!Walkers /\ u.queue = q /\ u.timed = w.timed /\ u.stray = w.stray
      /\ u.eventWalk = w.eventWalk /\ u.missed = w.missed
      /\ u.steps = w.steps /\ u.held = w.held
  BY <1>1, <1>2, <1>3 DEF W!Walkers
<1>5. W!Queued(u, "walk") = W!Queued(w, "walk") /\ W!Queued(u, "go") = W!Queued(w, "go") + 1
  <2>1. u.queue = Append(w.queue, "go")
    BY <1>4 DEF q
  <2>2. \A k : W!Queued(u, k) = W!Queued(w, k) + (IF "go" = k THEN 1 ELSE 0)
    BY <1>1, <2>1, QueuedAppend
  <2>3. W!Queued(w, "walk") \in Nat
    BY <1>1, QueuedIs
  <2>4. QED BY <2>2, <2>3
<1>6. W!Queued(w, "go") \in Nat
  BY <1>1, QueuedIs
<1>7. Number(u) = Number(w) /\ Live(u) = Live(w)
  BY <1>4, <1>5 DEF Number, Live
<1>8. Coming(u) /\ StepsGo(u)
  BY <1>4, <1>5 DEF Good, Coming, StepsGo
<1>9. ActionGoes(u)
  BY <1>5, <1>6 DEF ActionGoes
<1>10. QED BY <1>4, <1>7, <1>8, <1>9 DEF Good, u

\* What touches neither events nor the path nor what waits.
LEMMA SameGood ==
    ASSUME NEW w, Good(w), NEW x \in W!Walkers, x.queue = w.queue, x.timed = w.timed,
           x.eventWalk = w.eventWalk, x.missed = w.missed, x.stray = w.stray,
           x.steps = w.steps, x.held = w.held, x.walkTask = w.walkTask, x.forgotten = w.forgotten
    PROVE  Good(x)
<1>1. Number(x) = Number(w) /\ \A k : W!Queued(x, k) = W!Queued(w, k)
  BY SameEvents
<1>2. Live(x) = Live(w)
  BY DEF Live
<1>3. Coming(x) /\ StepsGo(x) /\ ActionGoes(x)
  BY <1>1 DEF Good, Coming, StepsGo, ActionGoes
<1>4. QED BY <1>1, <1>2, <1>3 DEF Good


\* A task is taken from the queue.
LEMMA TaskTaken ==
    ASSUME WalkBounds, NEW w, Good(w), w.stray <= MaxStray, w.queue # <<>>,
           NEW x, x = [w EXCEPT !.queue = Tail(@)]
    PROVE  /\ x \in W!Walkers /\ x.stray <= MaxStray /\ StepsGo(x)
           /\ Head(w.queue) = "walk" => Number(x) + 1 <= Live(x) + x.stray
           /\ Head(w.queue) # "walk" => Ready(x)
           /\ Head(w.queue) # "go" => ActionGoes(x)
<1> DEFINE q == Tail(w.queue)
<1>1. w \in W!Walkers /\ w.queue \in Seq(W!Tasks) /\ q \in Seq(W!Tasks)
  BY DEF Good, W!Walkers
<1> HIDE DEF q
<1>2. /\ x \in W!Walkers /\ x.queue = q /\ x.timed = w.timed
      /\ x.eventWalk = w.eventWalk /\ x.missed = w.missed /\ x.stray = w.stray
      /\ x.steps = w.steps /\ x.held = w.held /\ x.walkTask = w.walkTask /\ x.forgotten = w.forgotten
  BY <1>1 DEF W!Walkers, q
<1>3. \A k : W!Queued(w, k) = W!Queued(x, k) + (IF Head(w.queue) = k THEN 1 ELSE 0)
  BY <1>1, <1>2, QueuedTail DEF q
<1>4. /\ W!Queued(x, "walk") \in Nat /\ W!Queued(x, "go") \in Nat /\ Cardinality(x.timed) \in Nat
      /\ x.stray \in Nat /\ Live(x) \in {0, 1}
  BY <1>2, WalkerIs DEF Live
<1>5. Live(x) = Live(w) /\ StepsGo(x)
  BY <1>2 DEF Live, Good, StepsGo
<1>6. Cardinality(x.timed) + W!Queued(w, "walk") <= Live(x) + x.stray
  BY <1>2, <1>5 DEF Good, Number
<1>7. ASSUME Head(w.queue) = "walk" PROVE Number(x) + 1 <= Live(x) + x.stray
  <2>1. W!Queued(w, "walk") = W!Queued(x, "walk") + 1
    BY <1>3, <1>7
  <2>2. QED BY <1>4, <1>6, <2>1 DEF Number
<1>8. ASSUME Head(w.queue) # "walk" PROVE Ready(x)
  <2>1. W!Queued(w, "walk") = W!Queued(x, "walk")
    BY <1>3, <1>4, <1>8
  <2>2. Coming(x)
    BY <1>2, <2>1 DEF Good, Coming
  <2>3. QED BY <1>2, <1>6, <2>1, <2>2 DEF Ready, Number
<1>9. ASSUME Head(w.queue) # "go" PROVE ActionGoes(x)
  <2>1. W!Queued(w, "go") = W!Queued(x, "go")
    BY <1>3, <1>4, <1>9
  <2>2. QED BY <1>2, <2>1 DEF Good, ActionGoes
<1>10. QED BY <1>2, <1>5, <1>7, <1>8, <1>9

LEMMA RunStep ==
    ASSUME WalkBounds, WalkInv, W!Run
    PROVE  Good(walker')
<1> DEFINE w == [walker EXCEPT !.queue = Tail(@)]
           task == Head(walker.queue)
<1>1. /\ Good(walker) /\ walker.stray <= MaxStray /\ walker.queue # <<>>
      /\ \/ task = "walk" /\ walker' \in W!checkCreatureWalk(w)
         \/ task = "go" /\ \E n \in W!Paths : walker' \in W!startAutoWalk(w, n)
         \/ task = "act" /\ walker' \in {w, W!Request(w)}
  BY DEF WalkInv, W!TypeOK, W!Run
<1>2. /\ w \in W!Walkers /\ w.stray <= MaxStray /\ StepsGo(w)
      /\ task = "walk" => Number(w) + 1 <= Live(w) + w.stray
      /\ task # "walk" => Ready(w)
      /\ task # "go" => ActionGoes(w)
  BY <1>1, TaskTaken
<1> HIDE DEF w, task
<1>3. CASE task = "walk" /\ walker' \in W!checkCreatureWalk(w)
  BY <1>2, <1>3, OnWalkIs
<1>4. CASE task = "go" /\ \E n \in W!Paths : walker' \in W!startAutoWalk(w, n)
  <2>1. PICK n \in W!Paths : walker' \in W!startAutoWalk(w, n)
    BY <1>4
  <2>2. n \in 0..MaxSteps
    BY DEF W!Paths, WalkBounds
  <2>3. QED BY <1>2, <1>4, <2>1, <2>2, StartIs
<1>5. CASE task = "act" /\ walker' \in {w, W!Request(w)}
  <2>1. Good(w)
    BY <1>2, <1>5 DEF Ready, Good
  <2>2. QED BY <1>5, <2>1, RequestIs
<1>6. QED BY <1>1, <1>3, <1>4, <1>5

LEMMA FireStep ==
    ASSUME WalkBounds, WalkInv, W!Fire
    PROVE  Good(walker')
<1>1. Good(walker) /\ walker \in W!Walkers /\ walker.queue \in Seq(W!Tasks) /\ walker.timed \subseteq W!Ids
  BY DEF WalkInv, W!TypeOK, W!Walkers
<1>2. ASSUME NEW id \in walker.timed, walker' = W!Enqueue([walker EXCEPT !.timed = @ \ {id}], "walk")
      PROVE  Good(walker')
  <2> DEFINE q == Append(walker.queue, "walk")
             T == walker.timed \ {id}
  <2>1. q \in Seq(W!Tasks) /\ T \subseteq W!Ids
    BY <1>1 DEF W!Tasks
  <2>2. walker' = [[walker EXCEPT !.timed = T] EXCEPT !.queue = q]
    BY <1>2 DEF W!Enqueue, W!Walkers
  <2> HIDE DEF q, T
  <2>3. /\ walker' \in W!Walkers /\ walker'.queue = q /\ walker'.timed = T
        /\ walker'.eventWalk = walker.eventWalk /\ walker'.missed = walker.missed
        /\ walker'.stray = walker.stray /\ walker'.steps = walker.steps /\ walker'.held = walker.held
        /\ walker'.walkTask = walker.walkTask /\ walker'.forgotten = walker.forgotten
    BY <1>1, <2>1, <2>2 DEF W!Walkers
  <2> DEFINE u == walker'
  <2>4. u = walker'
    OBVIOUS
  <2> HIDE DEF u
  <2>5. W!Queued(u, "walk") = W!Queued(walker, "walk") + 1 /\ W!Queued(u, "go") = W!Queued(walker, "go")
    <3>1. u.queue = Append(walker.queue, "walk")
      BY <2>3, <2>4 DEF q
    <3>2. \A k : W!Queued(u, k) = W!Queued(walker, k) + (IF "walk" = k THEN 1 ELSE 0)
      BY <1>1, <3>1, QueuedAppend DEF W!Tasks
    <3>3. W!Queued(walker, "go") \in Nat
      BY <1>1, QueuedIs
    <3>4. QED BY <3>2, <3>3
  <2>6. W!Queued(walker, "walk") \in Nat /\ Cardinality(walker.timed) \in Nat
    BY <1>1, WalkerIs
  <2>7. Cardinality(u.timed) = Cardinality(walker.timed) - 1
    BY <1>1, <2>3, <2>4, TimedFinite DEF T
  <2>8. Number(u) = Number(walker)
    BY <2>5, <2>6, <2>7 DEF Number
  <2>9. Live(u) = Live(walker) /\ u.stray = walker.stray
    BY <2>3, <2>4 DEF Live
  <2>10. Coming(u) /\ StepsGo(u) /\ ActionGoes(u)
    BY <1>1, <2>3, <2>4, <2>5, <2>6 DEF Good, Coming, StepsGo, ActionGoes
  <2>11. Good(u)
    BY <1>1, <2>3, <2>4, <2>8, <2>9, <2>10 DEF Good
  <2>12. QED BY <2>4, <2>11
<1>3. ASSUME walker' = W!Enqueue([walker EXCEPT !.acting = FALSE], "act")
      PROVE  Good(walker')
  <2> DEFINE q == Append(walker.queue, "act")
  <2>1. q \in Seq(W!Tasks)
    BY <1>1 DEF W!Tasks
  <2>2. walker' = [[walker EXCEPT !.acting = FALSE] EXCEPT !.queue = q]
    BY <1>3 DEF W!Enqueue, W!Walkers
  <2> HIDE DEF q
  <2>3. /\ walker' \in W!Walkers /\ walker'.queue = q /\ walker'.timed = walker.timed
        /\ walker'.eventWalk = walker.eventWalk /\ walker'.missed = walker.missed
        /\ walker'.stray = walker.stray /\ walker'.steps = walker.steps /\ walker'.held = walker.held
        /\ walker'.walkTask = walker.walkTask /\ walker'.forgotten = walker.forgotten
    BY <1>1, <2>1, <2>2 DEF W!Walkers
  <2> DEFINE u == walker'
  <2>4. u = walker'
    OBVIOUS
  <2> HIDE DEF u
  <2>5. W!Queued(u, "walk") = W!Queued(walker, "walk") /\ W!Queued(u, "go") = W!Queued(walker, "go")
    <3>1. u.queue = Append(walker.queue, "act")
      BY <2>3, <2>4 DEF q
    <3>2. \A k : W!Queued(u, k) = W!Queued(walker, k) + (IF "act" = k THEN 1 ELSE 0)
      BY <1>1, <3>1, QueuedAppend DEF W!Tasks
    <3>3. W!Queued(walker, "go") \in Nat /\ W!Queued(walker, "walk") \in Nat
      BY <1>1, QueuedIs
    <3>4. QED BY <3>2, <3>3
  <2>6. Number(u) = Number(walker) /\ Live(u) = Live(walker)
    BY <2>3, <2>4, <2>5 DEF Number, Live
  <2>7. Coming(u) /\ StepsGo(u) /\ ActionGoes(u)
    BY <1>1, <2>3, <2>4, <2>5 DEF Good, Coming, StepsGo, ActionGoes
  <2>8. Good(u)
    BY <1>1, <2>3, <2>4, <2>6, <2>7 DEF Good
  <2>9. QED BY <2>4, <2>8
<1>4. QED BY <1>2, <1>3 DEF W!Fire

\* What players and scripts do with a walk.
LEMMA HandlerStep ==
    ASSUME WalkBounds, WalkInv,
           \/ W!Go \/ W!Ask \/ W!Stop \/ W!Chase \/ W!ChaseOther \/ W!Teleport \/ W!ChangeSpeed \/ W!SetNoMove \/ W!Health
    PROVE  Good(walker')
<1>1. Good(walker) /\ walker \in W!Walkers /\ Ready(walker) /\ StepsGo(walker)
  BY GoodIsReady DEF WalkInv, W!TypeOK, Good
<1>2. ASSUME W!Go PROVE Good(walker')
  <2>1. PICK n \in W!Paths : walker' \in W!startAutoWalk(walker, n)
    BY <1>2 DEF W!Go
  <2>2. n \in 0..MaxSteps
    BY DEF W!Paths, WalkBounds
  <2>3. QED BY <1>1, <2>1, <2>2, StartIs
<1>3. ASSUME W!Ask PROVE Good(walker')
  BY <1>1, <1>3, RequestIs DEF W!Ask
<1>4. ASSUME W!Chase PROVE Good(walker')
  BY <1>1, <1>4, FollowIs DEF W!Chase
<1>5. ASSUME W!ChaseOther PROVE Good(walker')
  <2> DEFINE u == W!Aborted(walker)
  <2>1. /\ u \in W!Walkers /\ u.steps = 0 /\ u.walkTask = FALSE /\ u.stray = walker.stray
        /\ u.eventWalk = walker.eventWalk /\ u.missed = walker.missed /\ u.timed = walker.timed
        /\ u.queue = walker.queue
    BY <1>1, AbortedIs
  <2>2. walker' = u
    BY <1>5 DEF W!ChaseOther
  <2> HIDE DEF u
  <2>3. Ready(u) /\ StepsGo(u) /\ ActionGoes(u)
    BY <1>1, <2>1, SameReady DEF StepsGo, ActionGoes
  <2>4. QED BY <2>2, <2>3 DEF Ready, Good
<1>6. ASSUME W!Teleport PROVE Good(walker')
  BY <1>1, <1>6, StoppedIs DEF W!Teleport
<1>7. ASSUME walker' = W!Slowed(walker) PROVE Good(walker')
  <2> DEFINE s == W!stopEventWalk(walker)
             u == W!Slowed(walker)
  <2>1. Good(s)
    BY <1>1, StoppedIs
  <2>2. u = [s EXCEPT !.slow = TRUE, !.cancelNextWalk = TRUE]
    BY DEF W!Slowed
  <2> HIDE DEF s, u
  <2>3. s \in W!Walkers
    BY <2>1 DEF Good
  <2>4. /\ u \in W!Walkers /\ u.queue = s.queue /\ u.timed = s.timed
        /\ u.eventWalk = s.eventWalk /\ u.missed = s.missed /\ u.stray = s.stray
        /\ u.steps = s.steps /\ u.held = s.held /\ u.walkTask = s.walkTask /\ u.forgotten = s.forgotten
    BY <2>2, <2>3 DEF W!Walkers
  <2>5. QED BY <1>7, <2>1, <2>4, SameGood DEF u
<1>8. ASSUME walker' \in W!Speeded(walker) PROVE Good(walker')
  <2> DEFINE u == [walker EXCEPT !.slow = FALSE]
  <2>1. walker' = u \/ walker' \in W!addEventWalk(u, FALSE)
    BY <1>8 DEF W!Speeded
  <2>2. /\ u \in W!Walkers /\ u.queue = walker.queue /\ u.timed = walker.timed
        /\ u.eventWalk = walker.eventWalk /\ u.missed = walker.missed /\ u.stray = walker.stray
        /\ u.steps = walker.steps /\ u.held = walker.held /\ u.walkTask = walker.walkTask
        /\ u.forgotten = walker.forgotten
    BY <1>1 DEF W!Walkers
  <2> HIDE DEF u
  <2>3. Good(u) /\ Ready(u)
    BY <1>1, <2>2, SameGood, SameReady
  <2>4. QED BY <2>1, <2>3, AddEventIs
<1>9. ASSUME W!Stop \/ W!SetNoMove \/ W!Health PROVE Good(walker')
  <2>1. walker.noMove \in BOOLEAN /\ walker.alive \in BOOLEAN
    BY <1>1 DEF W!Walkers
  <2> DEFINE u == walker'
  <2>2. /\ u \in W!Walkers /\ u.queue = walker.queue /\ u.timed = walker.timed
        /\ u.eventWalk = walker.eventWalk /\ u.missed = walker.missed /\ u.stray = walker.stray
        /\ u.steps = walker.steps /\ u.held = walker.held /\ u.walkTask = walker.walkTask
        /\ u.forgotten = walker.forgotten
    BY <1>1, <1>9, <2>1 DEF W!Walkers, W!Stop, W!SetNoMove, W!Health
  <2>3. u = walker'
    OBVIOUS
  <2> HIDE DEF u
  <2>4. Good(u)
    BY <1>1, <2>2, SameGood
  <2>5. QED BY <2>3, <2>4
<1>10. QED BY <1>2, <1>3, <1>4, <1>5, <1>6, <1>7, <1>8, <1>9 DEF W!ChangeSpeed

LEMMA WalkInvInit == ASSUME WalkBounds, W!Init PROVE WalkInv
<1>1. 0 \in 0..MaxSteps /\ <<>> \in Seq(W!Tasks) /\ 0 \in Nat /\ 0 <= MaxStray
  BY DEF WalkBounds
<1>2. walker \in W!Walkers
  BY <1>1 DEF W!Init, W!Walkers
<1>3. walker.stray = 0 /\ walker.timed = {} /\ walker.queue = <<>> /\ walker.eventWalk = 0 /\ walker.steps = 0
      /\ walker.walkTask = FALSE
  BY DEF W!Init
<1>4. Cardinality(walker.timed) = 0
  BY <1>3, FS_EmptySet
<1>5. W!Queued(walker, "walk") = 0
  <2>1. {i \in DOMAIN walker.queue : walker.queue[i] = "walk"} = {}
    BY <1>3
  <2>2. QED BY <2>1, FS_EmptySet, QueuedSays
<1>6. Number(walker) <= Live(walker) + walker.stray
  BY <1>3, <1>4, <1>5 DEF Number, Live
<1>7. QED BY <1>1, <1>2, <1>3, <1>6 DEF WalkInv, W!TypeOK, Good, Coming, StepsGo, ActionGoes

LEMMA WalkInvNext == ASSUME WalkBounds, WalkInv, [W!Next]_walker PROVE WalkInv'
<1>1. CASE UNCHANGED walker
  <2>1. walker' = walker
    BY <1>1
  <2>2. QED BY <2>1 DEF WalkInv, W!TypeOK
<1>2. CASE W!Next
  <2>1. walker'.stray <= MaxStray /\ Good(walker')
    BY <1>2, FireStep, RunStep, HandlerStep DEF W!Next
  <2>2. walker' \in W!Walkers
    BY <2>1 DEF Good
  <2>3. QED BY <2>1, <2>2 DEF WalkInv, W!TypeOK
<1>3. QED BY <1>1, <1>2

LEMMA WalkInvImplies == ASSUME WalkBounds, WalkInv PROVE W!WalksGoOn
<1>1. Good(walker) /\ walker \in W!Walkers
  BY DEF WalkInv, Good
<1>2. walker.stray \in Nat /\ W!Queued(walker, "walk") \in Nat /\ Cardinality(walker.timed) \in Nat
  BY <1>1, WalkerIs
<1>3. Live(walker) <= 1 /\ Live(walker) \in Nat
  BY DEF Live
<1>4. Cardinality(walker.timed) + W!Queued(walker, "walk") <= 1 + walker.stray
  BY <1>1, <1>2, <1>3 DEF Good, Number
<1>5. QED BY <1>1, <1>4 DEF W!WalksGoOn, W!Cardinality, Cardinality, Good, Coming, StepsGo, ActionGoes

-----------------------------------------------------------------------------
(* Creatures that think: who is reached                                    *)

\* The sets of Reached are those of its equation, and each has those of kin whose
\* master is in the one before, to the last.
LEMMA ReachedIs ==
    ASSUME C!CreaturesAssumption, NEW some, NEW kin, some \subseteq Creatures, kin \subseteq Creatures
    PROVE  /\ some \subseteq C!Reached(some, kin) /\ C!Reached(some, kin) \subseteq some \cup kin
           /\ \A s \in C!Reached(some, kin) : s \in some \/ master[s] \in C!Reached(some, kin)
           /\ \A s \in kin : master[s] \in C!Reached(some, kin) => s \in C!Reached(some, kin)
<1> DEFINE N == Cardinality(Creatures)
           led(group) == group \cup {s \in kin : master[s] \in group}
           upTo[n \in 0..N] == IF n = 0 THEN some ELSE upTo[n - 1] \cup {s \in kin : master[s] \in upTo[n - 1]}
           Is(f, m) == f = [n \in 0..m |-> IF n = 0 THEN some ELSE led(f[n - 1])]
           T == {m \in Nat : \E f : Is(f, m)}
<1>1. N \in Nat /\ IsFiniteSet(Creatures)
  BY FS_CardinalityType DEF C!CreaturesAssumption, C!IsFiniteSet, IsFiniteSet
<1>2. 0 \in T
  <2> DEFINE f == [n \in 0..0 |-> some]
  <2>1. Is(f, 0)
    OBVIOUS
  <2>2. QED BY <2>1
<1>3. ASSUME NEW m \in Nat, m \in T PROVE m + 1 \in T
  <2>1. PICK f : Is(f, m)
    BY <1>3
  <2> DEFINE g == [n \in 0..m+1 |-> IF n = m + 1 THEN led(f[m]) ELSE f[n]]
  <2>2. ASSUME NEW n \in 0..m+1 PROVE g[n] = IF n = 0 THEN some ELSE led(g[n - 1])
    <3>1. CASE n = 0
      BY <2>1, <3>1
    <3>2. CASE n = m + 1
      <4>1. m \in 0..m+1 /\ m # m + 1 /\ n - 1 = m /\ n # 0
        BY <3>2
      <4>2. g[m] = f[m]
        BY <4>1
      <4>3. QED BY <3>2, <4>1, <4>2
    <3>3. CASE n # 0 /\ n # m + 1
      <4>1. n \in 0..m /\ n - 1 \in 0..m /\ n - 1 \in 0..m+1 /\ n - 1 # m + 1
        BY <3>3
      <4>2. g[n - 1] = f[n - 1] /\ g[n] = f[n]
        BY <3>3, <4>1
      <4>3. f[n] = led(f[n - 1])
        BY <2>1, <3>3, <4>1
      <4>4. QED BY <3>3, <4>2, <4>3
    <3>4. QED BY <3>1, <3>2, <3>3
  <2>3. Is(g, m + 1)
    BY <2>2
  <2>4. m + 1 \in Nat
    OBVIOUS
  <2> HIDE DEF g, Is
  <2>5. QED BY <2>3, <2>4
<1>4. PICK f0 : Is(f0, N)
  <2> HIDE DEF T
  <2>1. \A m \in Nat : m \in T
    BY <1>2, <1>3, SetOfNaturals
  <2>2. N \in T
    BY <1>1, <2>1
  <2>3. QED BY <2>2 DEF T
<1>5. Is(upTo, N)
  <2>1. upTo = CHOOSE f : Is(f, N)
    OBVIOUS
  <2>2. QED BY <1>4, <2>1
<1>6. C!Reached(some, kin) = upTo[N]
  BY DEF C!Reached, C!Cardinality, Cardinality

<1> HIDE DEF upTo
<1>7. upTo[0] = some /\ \A n \in 0..N-1 : upTo[n + 1] = led(upTo[n])
  <2>1. upTo[0] = some
    <3>1. 0 \in 0..N
      BY <1>1
    <3>2. QED BY <1>5, <3>1
  <2>2. ASSUME NEW n \in 0..N-1 PROVE upTo[n + 1] = led(upTo[n])
    <3>1. n + 1 \in 0..N /\ n + 1 # 0 /\ (n + 1) - 1 = n
      BY <1>1
    <3>2. QED BY <1>5, <3>1
  <2>3. QED BY <2>1, <2>2
<1> HIDE DEF N
<1> DEFINE Kin(group) == /\ some \subseteq group /\ group \subseteq some \cup kin
                     /\ \A s \in group : s \in some \/ master[s] \in group
           Closed(group) == \A s \in kin : master[s] \in group => s \in group
<1>8. \A n \in 0..N : Kin(upTo[n])
  <2> DEFINE U == {n \in Nat : n \in 0..N => Kin(upTo[n])}
  <2>1. 0 \in U
    BY <1>7
  <2>2. ASSUME NEW n \in Nat, n \in U PROVE n + 1 \in U
    <3>1. CASE n + 1 \notin 0..N
      BY <3>1
    <3>2. CASE n + 1 \in 0..N
      <4>1. n \in 0..N /\ n \in 0..N-1
        BY <1>1, <3>2
      <4>2. Kin(upTo[n]) /\ upTo[n + 1] = led(upTo[n])
        BY <1>7, <2>2, <4>1
      <4>3. Kin(upTo[n + 1])
        BY <4>2
      <4>4. QED BY <4>3
    <3>3. QED BY <3>1, <3>2
  <2> HIDE DEF U
  <2>3. \A n \in Nat : n \in U
    BY <2>1, <2>2, SetOfNaturals
  <2>4. QED BY <1>1, <2>3 DEF U
<1>9. \A n \in 0..N : Closed(upTo[n]) \/ Cardinality(upTo[n]) >= n
  <2> DEFINE U == {n \in Nat : n \in 0..N => Closed(upTo[n]) \/ Cardinality(upTo[n]) >= n}
  <2>1. \A n \in 0..N : IsFiniteSet(upTo[n]) /\ Cardinality(upTo[n]) \in Nat
    <3>1. \A n \in 0..N : upTo[n] \subseteq Creatures
      BY <1>8
    <3>2. QED BY <1>1, <3>1, FS_Subset, FS_CardinalityType
  <2>2. 0 \in U
    <3>1. 0 \in 0..N
      BY <1>1
    <3>2. QED BY <2>1, <3>1
  <2>3. ASSUME NEW n \in Nat, n \in U PROVE n + 1 \in U
    <3>1. CASE n + 1 \notin 0..N
      BY <3>1
    <3>2. CASE n + 1 \in 0..N
      <4>1. n \in 0..N /\ n \in 0..N-1
        BY <1>1, <3>2
      <4> DEFINE group == upTo[n]
      <4>2. (Closed(group) \/ Cardinality(group) >= n) /\ upTo[n + 1] = led(group)
        BY <1>7, <2>3, <4>1
      <4>3. CASE Closed(group)
        <5>1. upTo[n + 1] = group
          BY <4>2, <4>3
        <5>2. QED BY <4>3, <5>1
      <4>4. CASE ~Closed(group)
        <5>1. PICK s \in kin : master[s] \in group /\ s \notin group
          BY <4>4
        <5>2. group \cup {s} \subseteq upTo[n + 1]
          BY <4>2, <5>1
        <5>3. IsFiniteSet(group) /\ Cardinality(group) \in Nat /\ Cardinality(group \cup {s}) = Cardinality(group) + 1
          BY <2>1, <4>1, <5>1, FS_AddElement
        <5>4. IsFiniteSet(upTo[n + 1]) /\ Cardinality(upTo[n + 1]) \in Nat
          BY <2>1, <3>2
        <5>5. Cardinality(group \cup {s}) <= Cardinality(upTo[n + 1])
          BY <5>2, <5>4, FS_Subset
        <5>6. Cardinality(group) >= n
          BY <4>2, <4>4
        <5> HIDE DEF group
        <5>7. Cardinality(upTo[n + 1]) >= n + 1
          BY <5>3, <5>4, <5>5, <5>6
        <5>8. QED BY <5>7
      <4>5. QED BY <4>3, <4>4
    <3>3. QED BY <3>1, <3>2
  <2> HIDE DEF U
  <2>4. \A n \in Nat : n \in U
    BY <2>2, <2>3, SetOfNaturals
  <2>5. QED BY <1>1, <2>4 DEF U
<1>10. Kin(upTo[N]) /\ Closed(upTo[N])
  <2>1. N \in 0..N
    BY <1>1
  <2>2. Kin(upTo[N]) /\ upTo[N] \subseteq Creatures
    BY <1>8, <2>1
  <2>3. CASE Cardinality(upTo[N]) >= N
    <3>1. Cardinality(upTo[N]) <= N /\ Cardinality(upTo[N]) \in Nat
      BY <1>1, <2>2, FS_Subset, FS_CardinalityType DEF N
    <3>2. Cardinality(upTo[N]) = N
      BY <1>1, <2>3, <3>1
    <3>3. upTo[N] = Creatures
      BY <1>1, <2>2, <3>2, FS_Subset DEF N
    <3>4. QED BY <2>2, <3>3
  <2>4. QED BY <1>9, <2>1, <2>2, <2>3
<1>11. QED BY <1>6, <1>10


-----------------------------------------------------------------------------
(* Marks, calls and references                                             *)

Flag(b) == IF b THEN 1 ELSE 0

\* The lists that hold a creature are those its mark tells of; only the placed that
\* have a mark are checked, and all of those who are awake or dead.
Marked(c) ==
    /\ checkVector[c] = -1 => c \notin toAdd /\ C!Listings(c) = {}
    /\ checkVector[c] # -1 => \/ c \in toAdd /\ C!Listings(c) = {}
                              \/ c \notin toAdd /\ C!Listings(c) = {checkVector[c]}

Called(c) ==
    /\ c \in checked => stage[c] = "placed" /\ checkVector[c] # -1
    /\ stage[c] = "placed" /\ c \notin isIdle \ dying => c \in checked

\* References: for the world, the lists, the master and releaseThings.
Listed(c) == Flag(c \in toAdd) + Flag(C!Listings(c) # {})
Counted(c) ==
    /\ refs[c] = Flag(stage[c] = "placed") + Listed(c) + Flag(master[c] # Nobody) + released[c]
    /\ stage[c] \in {"new", "deleted"} <=> refs[c] = 0

\* A master is another one, who has been in the world; one that is there has its
\* summons there.
Served(c) ==
    master[c] # Nobody =>
        /\ c \in Monsters /\ master[c] # c
        /\ stage[master[c]] \in {"placed", "removed"}
        /\ stage[master[c]] = "placed" => stage[c] = "placed"

CheckInv ==
    /\ C!TypeOK
    /\ \A c \in Creatures : Marked(c)
    /\ \A c \in Creatures : Called(c)
    /\ \A c \in Creatures : Counted(c)
    /\ \A c \in Creatures : Served(c)
    /\ looping => \A c \in toVisit : c \in vectors[last]

\* What a step does to the references besides those of its lists.
Balanced(counts) ==
    \A c \in Creatures :
        /\ counts[c] = Flag(stage'[c] = "placed") + Listed(c) + Flag(master'[c] # Nobody) + released'[c]
        /\ (stage[c] = stage'[c] /\ counts[c] = refs[c]) \/ (stage'[c] \in {"placed", "removed"} /\ counts[c] > 0)

LEMMA ListedIs == ASSUME NEW c PROVE Listed(c) \in Nat /\ Listed(c)' \in Nat
BY DEF Listed, Flag

\* Checks: lists and marks agree again, and so do the references.
LEMMA CheckingIs ==
    ASSUME C!TypeOK, \A c \in Creatures : Marked(c),
           NEW on, on \subseteq Creatures, NEW off, NEW counts, counts \in [Creatures -> Int],
           C!Check(on, off, counts), vectors' = vectors
    PROVE  /\ checkVector' \in [Creatures -> C!Indices \cup {-1}] /\ checked' \subseteq checked \cup on
           /\ toAdd' \subseteq Creatures
           /\ \A c \in Creatures :
                /\ Marked(c)'
                /\ c \in on \cup checked /\ c \notin off => c \in checked'
                /\ c \in off \cap checked' => checkVector'[c] = -1
                /\ c \in on \/ checkVector[c] # -1 => checkVector'[c] # -1
                /\ refs'[c] = counts[c] + Listed(c)' - Listed(c)
                /\ Listed(c)' >= Listed(c)
                /\ c \notin on => Listed(c)' = Listed(c)
<1> DEFINE fresh == {c \in on : checkVector[c] = -1}
<1>1. PICK pick \in [fresh -> C!Indices] :
          checkVector' = [c \in Creatures |-> IF c \in fresh THEN pick[c] ELSE checkVector[c]]
  BY DEF C!Check
<1>2. /\ checked' = (checked \cup on) \ {c \in off : checkVector'[c] # -1}
      /\ toAdd' = toAdd \cup fresh /\ refs' = C!Plus(counts, fresh)
  BY DEF C!Check
<1>3. fresh \subseteq Creatures /\ -1 \notin C!Indices
  BY DEF C!Indices
<1>4. \A c \in Creatures : c \in fresh <=> c \in on /\ checkVector[c] = -1
  OBVIOUS
<1> HIDE DEF fresh
<1>5. \A c \in Creatures : checkVector'[c] = IF c \in fresh THEN pick[c] ELSE checkVector[c]
  BY <1>1
<1>6. \A c \in Creatures : c \in fresh => pick[c] \in C!Indices
  BY <1>1
<1>7. checkVector' \in [Creatures -> C!Indices \cup {-1}]
  BY <1>1, <1>6 DEF C!TypeOK
<1>8. ASSUME NEW c \in Creatures
      PROVE  /\ Marked(c)'
             /\ refs'[c] = counts[c] + Listed(c)' - Listed(c) /\ Listed(c)' >= Listed(c)
             /\ c \notin on => Listed(c)' = Listed(c)
  <2>1. C!Listings(c)' = C!Listings(c)
    BY DEF C!Listings
  <2>2. refs'[c] = IF c \in fresh THEN counts[c] + 1 ELSE counts[c]
    BY <1>2 DEF C!Plus
  <2>3. counts[c] \in Int
    OBVIOUS
  <2>4. CASE c \in fresh
    <3>1. checkVector[c] = -1 /\ c \notin toAdd /\ C!Listings(c) = {}
      BY <1>4, <2>4 DEF Marked
    <3>2. checkVector'[c] # -1 /\ c \in toAdd' /\ C!Listings(c)' = {} /\ c \in on
      BY <1>2, <1>3, <1>4, <1>5, <1>6, <2>1, <2>4, <3>1
    <3>3. Listed(c) = 0 /\ Listed(c)' = 1
      BY <3>1, <3>2 DEF Listed, Flag
    <3>4. QED BY <2>2, <2>3, <2>4, <3>2, <3>3 DEF Marked
  <2>5. CASE c \notin fresh
    <3>1. checkVector'[c] = checkVector[c] /\ (c \in toAdd' <=> c \in toAdd)
      BY <1>2, <1>5, <2>5
    <3>2. Listed(c)' = Listed(c) /\ Listed(c) \in Nat
      BY <2>1, <3>1 DEF Listed, Flag
    <3>3. Marked(c)'
      BY <2>1, <3>1 DEF Marked
    <3>4. QED BY <2>2, <2>3, <2>5, <3>2, <3>3
  <2>6. QED BY <2>4, <2>5
<1>9. ASSUME NEW c \in Creatures
      PROVE  /\ c \in on \cup checked /\ c \notin off => c \in checked'
             /\ c \in off \cap checked' => checkVector'[c] = -1
             /\ c \in on \/ checkVector[c] # -1 => checkVector'[c] # -1
  BY <1>2, <1>3, <1>4, <1>5, <1>6
<1>10. toAdd' \subseteq Creatures /\ checked' \subseteq checked \cup on
  BY <1>2, <1>3 DEF C!TypeOK
<1>11. QED BY <1>7, <1>8, <1>9, <1>10

\* A step that checks some and others no more, and besides keeps its references in
\* balance and keeps to who is in the world and who serves.
Orderly(on, off, counts) ==
    /\ on \subseteq Creatures /\ counts \in [Creatures -> Int]
    /\ C!Check(on, off, counts) /\ Balanced(counts)
    /\ stage' \in [Creatures -> {"new", "placed", "removed", "deleted"}]
    /\ dying' \subseteq Creatures /\ isIdle' \subseteq Monsters
    /\ master' \in [Creatures -> Creatures \cup {Nobody}]
    /\ released' \in [Creatures -> Nat]
    /\ \A c \in on : stage'[c] = "placed"
    /\ \A c \in checked : stage'[c] = "placed" \/ c \in off
    /\ \A c \in Creatures : stage'[c] = "placed" /\ c \notin isIdle' \ dying' =>
                            c \in on \cup checked /\ c \notin off
    /\ \A c \in Creatures : Served(c)'
    /\ vectors' = vectors /\ last' = last /\ looping' = looping /\ toVisit' \subseteq toVisit

LEMMA CheckedStep ==
    ASSUME CheckInv, NEW on, NEW off, NEW counts, Orderly(on, off, counts)
    PROVE  CheckInv'
<1> USE DEF Orderly
<1>1. /\ checkVector' \in [Creatures -> C!Indices \cup {-1}] /\ checked' \subseteq checked \cup on
      /\ toAdd' \subseteq Creatures
      /\ \A c \in Creatures :
           /\ Marked(c)'
           /\ c \in on \cup checked /\ c \notin off => c \in checked'
           /\ c \in off \cap checked' => checkVector'[c] = -1
           /\ c \in on \/ checkVector[c] # -1 => checkVector'[c] # -1
           /\ refs'[c] = counts[c] + Listed(c)' - Listed(c)
           /\ Listed(c)' >= Listed(c)
           /\ c \notin on => Listed(c)' = Listed(c)
  <2>1. /\ C!TypeOK /\ \A c \in Creatures : Marked(c)
        /\ on \subseteq Creatures /\ counts \in [Creatures -> Int] /\ C!Check(on, off, counts) /\ vectors' = vectors
    BY DEF CheckInv
  <2> HIDE DEF Orderly
  <2>2. QED BY <2>1, CheckingIs, Zenon
<1>2. ASSUME NEW c \in Creatures PROVE Called(c)'
  <2>1. c \in checked => stage[c] = "placed" /\ checkVector[c] # -1
    BY DEF CheckInv, Called
  <2>2. c \in checked' => checkVector'[c] # -1 /\ c \notin off
    BY <1>1, <2>1
  <2>3. QED BY <1>1, <2>1, <2>2 DEF Called
<1>3. ASSUME NEW c \in Creatures PROVE Counted(c)' /\ refs'[c] \in Nat
  <2>1. /\ counts[c] = Flag(stage'[c] = "placed") + Listed(c) + Flag(master'[c] # Nobody) + released'[c]
        /\ (stage[c] = stage'[c] /\ counts[c] = refs[c]) \/ (stage'[c] \in {"placed", "removed"} /\ counts[c] > 0)
    BY DEF Balanced
  <2>2. Listed(c) \in Nat /\ Listed(c)' \in Nat
    BY ListedIs
  <2>3. released'[c] \in Nat /\ counts[c] \in Int
    OBVIOUS
  <2>4. Flag(stage'[c] = "placed") \in {0, 1} /\ Flag(master'[c] # Nobody) \in {0, 1}
    BY DEF Flag
  <2>5. refs'[c] = Flag(stage'[c] = "placed") + Listed(c)' + Flag(master'[c] # Nobody) + released'[c]
    BY <1>1, <2>1, <2>2, <2>3, <2>4
  <2>6. refs'[c] \in Nat /\ refs'[c] >= counts[c]
    BY <1>1, <2>2, <2>3, <2>4, <2>5
  <2>7. stage'[c] \in {"new", "deleted"} <=> refs'[c] = 0
    <3>1. CASE stage'[c] \in {"placed", "removed"} /\ counts[c] > 0
      BY <2>3, <2>6, <3>1
    <3>2. CASE stage[c] = stage'[c] /\ counts[c] = refs[c]
      <4>1. stage[c] \in {"new", "deleted"} <=> refs[c] = 0
        BY DEF CheckInv, Counted
      <4>2. CASE refs[c] = 0
        <5>1. c \notin on
          BY <3>2, <4>1, <4>2
        <5>2. refs'[c] = counts[c]
          BY <1>1, <2>2, <2>3, <5>1
        <5>3. QED BY <3>2, <4>1, <5>2
      <4>3. CASE refs[c] # 0
        <5>1. refs'[c] # 0
          BY <2>2, <2>3, <2>6, <3>2, <4>3, <2>1, <2>4
        <5>2. QED BY <3>2, <4>1, <4>3, <5>1
      <4>4. QED BY <4>2, <4>3
    <3>3. QED BY <2>1, <3>1, <3>2
  <2>8. QED BY <2>5, <2>6, <2>7 DEF Counted
<1>4. refs' \in [Creatures -> Nat]
  <2>1. refs' = C!Plus(counts, {c \in on : checkVector[c] = -1})
    BY DEF C!Check
  <2>2. QED BY <1>3, <2>1 DEF C!Plus
<1>5. C!TypeOK'
  <2>1. checked' \subseteq Creatures /\ toVisit' \subseteq Creatures
    BY <1>1 DEF CheckInv, C!TypeOK
  <2>2. QED BY <1>1, <1>4, <2>1 DEF CheckInv, C!TypeOK, C!Indices
<1>6. looping' => \A c \in toVisit' : c \in vectors'[last']
  BY DEF CheckInv
<1>7. QED BY <1>1, <1>2, <1>3, <1>5, <1>6 DEF CheckInv


-----------------------------------------------------------------------------
(* What other tasks and the calls of the loop do                           *)

LEMMA CreatureIs ==
    ASSUME CheckInv, NEW c \in Creatures
    PROVE  /\ refs[c] \in Nat /\ released[c] \in Nat /\ Listed(c) \in Nat
           /\ stage[c] \in {"new", "placed", "removed", "deleted"}
           /\ master[c] \in Creatures \cup {Nobody}
           /\ Marked(c) /\ Called(c) /\ Counted(c) /\ Served(c)
           /\ stage[c] \in {"new", "deleted"} =>
                 refs[c] = 0 /\ Listed(c) = 0 /\ master[c] = Nobody /\ released[c] = 0
                 /\ c \notin checked
           /\ stage[c] \in {"placed", "removed"} => refs[c] > 0
           /\ Flag(stage[c] = "placed") \in {0, 1} /\ Flag(master[c] # Nobody) \in {0, 1}
<1>1. /\ refs[c] \in Nat /\ released[c] \in Nat
      /\ stage[c] \in {"new", "placed", "removed", "deleted"}
      /\ master[c] \in Creatures \cup {Nobody}
  BY DEF CheckInv, C!TypeOK
<1>2. Marked(c) /\ Called(c) /\ Counted(c) /\ Served(c)
  BY DEF CheckInv
<1>3. Listed(c) \in Nat
  BY ListedIs
<1>4. Flag(stage[c] = "placed") \in {0, 1} /\ Flag(master[c] # Nobody) \in {0, 1}
  BY DEF Flag
<1>5. refs[c] = Flag(stage[c] = "placed") + Listed(c) + Flag(master[c] # Nobody) + released[c]
  BY <1>2 DEF Counted
<1>6. ASSUME stage[c] \in {"new", "deleted"}
      PROVE  refs[c] = 0 /\ Listed(c) = 0 /\ master[c] = Nobody /\ released[c] = 0 /\ c \notin checked
  <2>1. refs[c] = 0
    BY <1>2, <1>6 DEF Counted
  <2>2. Listed(c) = 0 /\ Flag(master[c] # Nobody) = 0 /\ released[c] = 0
    BY <1>1, <1>3, <1>4, <1>5, <2>1
  <2>3. QED BY <1>2, <1>6, <2>1, <2>2 DEF Flag, Called
<1>7. stage[c] \in {"placed", "removed"} => refs[c] > 0
  BY <1>1, <1>2 DEF Counted
<1>8. QED BY <1>1, <1>2, <1>3, <1>4, <1>6, <1>7

LEMMA SummonsAre ==
    ASSUME C!CreaturesAssumption, CheckInv, NEW c \in Creatures
    PROVE  /\ \A s \in C!Summons(c) : s \in Creatures /\ master[s] = c /\ master[s] # Nobody
                                    /\ s \in Monsters /\ s # c
           /\ stage[c] = "placed" => \A s \in C!Summons(c) : stage[s] = "placed"
           /\ stage[c] \in {"new", "deleted"} => C!Summons(c) = {}
<1>1. c # Nobody
  BY DEF C!CreaturesAssumption
<1>2. ASSUME NEW s \in C!Summons(c)
      PROVE  /\ s \in Creatures /\ master[s] = c /\ master[s] # Nobody /\ s \in Monsters /\ s # c
             /\ stage[c] \in {"placed", "removed"} /\ (stage[c] = "placed" => stage[s] = "placed")
  <2>1. s \in Creatures /\ master[s] = c
    BY DEF C!Summons
  <2>2. QED BY <1>1, <2>1, CreatureIs DEF Served
<1>3. QED BY <1>2

LEMMA EnterStep ==
    ASSUME C!CreaturesAssumption, CheckInv, NEW c \in Creatures, stage[c] = "new",
           NEW m \in C!Placed \cup {Nobody}, m # Nobody => c \in Monsters,
           NEW counts, counts = (IF m = Nobody THEN refs ELSE C!Plus(refs, {c})),
           C!Enter(c, counts), master' = IF m = Nobody THEN master ELSE C!Mastered({c}, m)
    PROVE  CheckInv'
<1> DEFINE all == C!Plus(counts, {c})
<1>1. /\ stage' = C!Staged({c}, "placed") /\ C!Check({c}, {}, all)
      /\ isIdle' \subseteq isIdle /\ dying' = dying /\ released' = released
      /\ vectors' = vectors /\ last' = last /\ looping' = looping /\ toVisit' = toVisit
  BY DEF C!Enter, C!visits
<1>2. \A s \in Creatures : stage'[s] = IF s = c THEN "placed" ELSE stage[s]
  BY <1>1 DEF C!Staged
<1>3. /\ refs[c] = 0 /\ Listed(c) = 0 /\ master[c] = Nobody /\ released[c] = 0
      /\ m \in Creatures \cup {Nobody} /\ (m # Nobody => m # c /\ stage[m] = "placed")
  BY CreatureIs DEF C!Placed
<1>4. \A s \in Creatures : master'[s] = IF s = c THEN m ELSE master[s]
  BY <1>3 DEF C!Mastered
<1>5. \A s \in Creatures : refs[s] \in Nat
  BY CreatureIs
<1>6. \A s \in Creatures : counts[s] = IF s = c /\ m # Nobody THEN refs[s] + 1 ELSE refs[s]
  BY DEF C!Plus
<1>7. \A s \in Creatures : all[s] = IF s = c THEN counts[s] + 1 ELSE counts[s]
  BY DEF C!Plus
<1>8. all \in [Creatures -> Int]
  <2>1. ASSUME NEW s \in Creatures PROVE counts[s] \in Int
    <3>1. refs[s] \in Nat
      BY <1>5
    <3>2. counts[s] = refs[s] \/ counts[s] = refs[s] + 1
      BY <1>6
    <3>3. QED BY <3>1, <3>2
  <2>2. QED BY <2>1 DEF C!Plus
<1> HIDE DEF all
<1>9. Balanced(all)
  <2> SUFFICES ASSUME NEW s \in Creatures
               PROVE  /\ all[s] = Flag(stage'[s] = "placed") + Listed(s) + Flag(master'[s] # Nobody) + released'[s]
                      /\ (stage[s] = stage'[s] /\ all[s] = refs[s]) \/ (stage'[s] \in {"placed", "removed"} /\ all[s] > 0)
    BY DEF Balanced
  <2>1. CASE s = c
    <3>1. stage'[c] = "placed" /\ master'[c] = m /\ released'[c] = 0 /\ Listed(c) = 0
      BY <1>1, <1>2, <1>3, <1>4
    <3>2. all[c] = Flag(m # Nobody) + 1
      BY <1>3, <1>6, <1>7 DEF Flag
    <3>3. Flag(stage'[c] = "placed") = 1 /\ Flag(m # Nobody) \in {0, 1}
      BY <3>1 DEF Flag
    <3>4. QED BY <2>1, <3>1, <3>2, <3>3
  <2>2. CASE s # c
    BY <1>1, <1>2, <1>4, <1>6, <1>7, <2>2, CreatureIs DEF Counted
  <2>3. QED BY <2>1, <2>2
<1>10. \A s \in Creatures : Served(s)'
  <2> SUFFICES ASSUME NEW s \in Creatures, master'[s] # Nobody
               PROVE  /\ s \in Monsters /\ master'[s] # s
                      /\ stage'[master'[s]] \in {"placed", "removed"}
                      /\ stage'[master'[s]] = "placed" => stage'[s] = "placed"
    BY DEF Served
  <2>1. CASE s = c
    BY <1>2, <1>3, <1>4, <2>1
  <2>2. CASE s # c
    <3>1. /\ master'[s] = master[s] /\ master[s] \in Creatures /\ Served(s) /\ stage'[s] = stage[s]
      BY <1>2, <1>4, <2>2, CreatureIs
    <3>2. master[s] # c
      BY <3>1 DEF Served
    <3>3. QED BY <1>2, <3>1, <3>2 DEF Served
  <2>3. QED BY <2>1, <2>2
<1>11. /\ stage' \in [Creatures -> {"new", "placed", "removed", "deleted"}]
       /\ master' \in [Creatures -> Creatures \cup {Nobody}]
       /\ dying' \subseteq Creatures /\ isIdle' \subseteq Monsters /\ released' \in [Creatures -> Nat]
  <2>1. stage' \in [Creatures -> {"new", "placed", "removed", "deleted"}]
    BY <1>1 DEF C!Staged, CheckInv, C!TypeOK
  <2>2. master' \in [Creatures -> Creatures \cup {Nobody}]
    BY <1>3 DEF C!Mastered, CheckInv, C!TypeOK
  <2>3. QED BY <1>1, <2>1, <2>2 DEF CheckInv, C!TypeOK
<1>12. \A s \in Creatures : stage'[s] = "placed" /\ s \notin isIdle' \ dying' => s \in {c} \cup checked /\ s \notin {}
  <2> SUFFICES ASSUME NEW s \in Creatures, s # c, stage'[s] = "placed", s \notin isIdle' \ dying' PROVE s \in checked
    OBVIOUS
  <2>1. stage[s] = "placed" /\ Called(s)
    BY <1>2, CreatureIs
  <2>2. CASE s \notin isIdle \ dying
    BY <2>1, <2>2 DEF Called
  <2>3. CASE s \in isIdle \ dying
    BY <1>1, <2>3 DEF C!Enter
  <2>4. QED BY <2>2, <2>3
<1>13. \A s \in checked : stage'[s] = "placed" \/ s \in {}
  BY <1>2, CreatureIs DEF Called, CheckInv, C!TypeOK
<1>14. (\A s \in {c} : stage'[s] = "placed") /\ {c} \subseteq Creatures
  BY <1>2
<1>15. toVisit' \subseteq toVisit
  BY <1>1
<1>16. Orderly({c}, {}, all)
  BY <1>1, <1>8, <1>9, <1>10, <1>11, <1>12, <1>13, <1>14, <1>15 DEF Orderly
<1>17. QED BY <1>16, CheckedStep


LEMMA PlaceStep ==
    ASSUME C!CreaturesAssumption, CheckInv, NEW c \in Creatures, NEW m \in Creatures, C!Place(c) \/ C!Summon(c, m)
    PROVE  CheckInv'
<1>0. Nobody \notin Creatures /\ m # Nobody
  BY DEF C!CreaturesAssumption
<1>1. CASE C!Place(c)
  <2>1. stage[c] = "new" /\ C!Enter(c, refs) /\ master' = master
    BY <1>1 DEF C!Place
  <2>2. Nobody \in C!Placed \cup {Nobody}
    OBVIOUS
  <2> DEFINE n == Nobody
             counts == IF n = Nobody THEN refs ELSE C!Plus(refs, {c})
  <2>3. counts = refs /\ n \in C!Placed \cup {Nobody} /\ (n # Nobody => c \in Monsters)
        /\ master' = IF n = Nobody THEN master ELSE C!Mastered({c}, n)
    BY <2>1
  <2>4. counts = IF n = Nobody THEN refs ELSE C!Plus(refs, {c})
    OBVIOUS
  <2>5. C!Enter(c, counts)
    BY <2>1, <2>3
  <2> HIDE DEF n, counts
  <2>6. QED BY <2>1, <2>3, <2>4, <2>5, EnterStep
<1>2. CASE C!Summon(c, m) /\ stage'[c] = "placed"
  <2> DEFINE counts == IF m = Nobody THEN refs ELSE C!Plus(refs, {c})
  <2>1. stage[c] = "new" /\ c \in Monsters /\ m \in C!Placed \cup {Nobody}
    BY <1>2 DEF C!Summon
  <2>2. counts = C!Plus(refs, {c})
    BY <1>0
  <2>3. C!Enter(c, counts) /\ master' = IF m = Nobody THEN master ELSE C!Mastered({c}, m)
    <3>1. stage' # C!Staged({c}, "deleted")
      BY <1>2 DEF C!Staged
    <3>2. C!Enter(c, C!Plus(refs, {c})) /\ master' = C!Mastered({c}, m)
      BY <1>2, <3>1 DEF C!Summon
    <3>3. QED BY <1>0, <2>2, <3>2
  <2>4. counts = IF m = Nobody THEN refs ELSE C!Plus(refs, {c})
    OBVIOUS
  <2> HIDE DEF counts
  <2>5. QED BY <2>1, <2>3, <2>4, EnterStep
<1>3. CASE C!Summon(c, m) /\ stage'[c] # "placed"
  <2>1. /\ stage[c] = "new" /\ stage' = C!Staged({c}, "deleted")
        /\ UNCHANGED <<dying, isIdle, C!checks, C!visits, master, released>>
    BY <1>3 DEF C!Summon, C!Enter, C!Staged
  <2>2. UNCHANGED <<dying, isIdle, refs, checked, checkVector, toAdd, vectors, last, looping, toVisit, master, released>>
    BY <2>1 DEF C!checks, C!visits
  <2>3. \A s \in Creatures : stage'[s] = IF s = c THEN "deleted" ELSE stage[s]
    BY <2>1 DEF C!Staged
  <2>4. /\ refs[c] = 0 /\ Listed(c) = 0 /\ master[c] = Nobody /\ released[c] = 0 /\ c \notin checked
        /\ C!Summons(c) = {}
    BY <2>1, CreatureIs, SummonsAre
  <2>5. C!TypeOK'
    BY <2>1, <2>2 DEF CheckInv, C!TypeOK, C!Staged, C!Indices
  <2>6. ASSUME NEW s \in Creatures PROVE Marked(s)' /\ Called(s)' /\ Counted(s)' /\ Served(s)'
    <3>1. Marked(s) /\ Called(s) /\ Counted(s) /\ Served(s) /\ master[s] # c
      BY <2>4, CreatureIs DEF C!Summons
    <3>2. Marked(s)' /\ Listed(s)' = Listed(s)
      BY <2>2, <3>1 DEF Marked, Listed, C!Listings, C!Indices
    <3>3. CASE s = c
      BY <2>2, <2>3, <2>4, <3>2, <3>3 DEF Called, Counted, Served, Flag
    <3>4. CASE s # c
      <4>1. stage'[s] = stage[s] /\ Called(s)' /\ Counted(s)'
        BY <2>2, <2>3, <3>1, <3>2, <3>4 DEF Called, Counted
      <4>2. Served(s)'
        <5>1. master[s] # Nobody => master[s] \in Creatures \ {c}
          BY <3>1, CreatureIs
        <5>2. QED BY <2>2, <2>3, <3>1, <3>4, <5>1 DEF Served
      <4>3. QED BY <3>2, <4>1, <4>2
    <3>5. QED BY <3>2, <3>3, <3>4
  <2>7. looping' => \A s \in toVisit' : s \in vectors'[last']
    BY <2>2 DEF CheckInv
  <2>8. QED BY <2>5, <2>6, <2>7 DEF CheckInv
<1>4. QED BY <1>1, <1>2, <1>3

\* Where nobody comes or goes and nobody changes masters, whose checks change are those
\* who idle or not.
LEMMA IdleStep ==
    ASSUME C!CreaturesAssumption, CheckInv, NEW on, on \subseteq C!Placed, NEW off, off \subseteq isIdle' \ dying',
           C!Check(on, off, refs), on \cap off = {},
           UNCHANGED <<stage, C!visits, master, released>>,
           dying' \subseteq Creatures, isIdle' \subseteq Monsters,
           \A c \in C!Placed : c \notin isIdle' \ dying' => c \in on \/ c \notin isIdle \ dying
    PROVE  CheckInv'
<1>1. UNCHANGED <<stage, vectors, last, looping, toVisit, master, released>>
  BY DEF C!visits
<1>2. Balanced(refs)
  BY <1>1, CreatureIs DEF Balanced, Counted
<1>3. \A c \in Creatures : Served(c)'
  BY <1>1, CreatureIs DEF Served
<1>4. \A c \in on : stage'[c] = "placed" /\ c \in Creatures
  BY <1>1 DEF C!Placed
<1>5. \A c \in checked : stage'[c] = "placed"
  BY <1>1, CreatureIs DEF Called, CheckInv, C!TypeOK
<1>6. \A c \in Creatures : stage'[c] = "placed" /\ c \notin isIdle' \ dying' => c \in on \cup checked /\ c \notin off
  BY <1>1, CreatureIs DEF Called, C!Placed
<1>7. refs \in [Creatures -> Int]
  BY DEF CheckInv, C!TypeOK
<1>8. Orderly(on, off, refs)
  BY <1>1, <1>2, <1>3, <1>4, <1>5, <1>6, <1>7 DEF Orderly, CheckInv, C!TypeOK
<1>9. QED BY <1>8, CheckedStep

LEMMA LookStep ==
    ASSUME C!CreaturesAssumption, CheckInv, NEW c \in Creatures, C!Look(c) \/ C!Kill(c)
    PROVE  CheckInv'
<1>0. dying \subseteq Creatures /\ isIdle \subseteq Monsters /\ C!Placed \subseteq Creatures /\ Monsters \subseteq Creatures
  BY DEF CheckInv, C!TypeOK, C!Placed, C!CreaturesAssumption
<1>1. CASE C!Look(c)
  <2>1. /\ c \in Monsters /\ c \in C!Placed /\ c \notin dying
        /\ dying' = dying /\ UNCHANGED <<stage, C!visits, master, released>>
        /\ \/ isIdle' = isIdle \cup {c} /\ C!Check({}, {c}, refs)
           \/ isIdle' = isIdle \ {c} /\ C!Check({c}, {}, refs)
    BY <1>1 DEF C!Look, C!visits
  <2>2. CASE isIdle' = isIdle \cup {c} /\ C!Check({}, {c}, refs)
    <3>1. {} \subseteq C!Placed /\ {c} \subseteq isIdle' \ dying' /\ {} \cap {c} = {}
      BY <2>1, <2>2
    <3>2. isIdle' \subseteq Monsters /\ \A s \in C!Placed : s \notin isIdle' \ dying' => s \in {} \/ s \notin isIdle \ dying
      BY <1>0, <2>1, <2>2
    <3>3. QED BY <1>0, <2>1, <2>2, <3>1, <3>2, IdleStep
  <2>3. CASE isIdle' = isIdle \ {c} /\ C!Check({c}, {}, refs)
    <3>1. {c} \subseteq C!Placed /\ {} \subseteq isIdle' \ dying' /\ {c} \cap {} = {}
      BY <2>1, <2>3
    <3>2. isIdle' \subseteq Monsters /\ \A s \in C!Placed : s \notin isIdle' \ dying' => s \in {c} \/ s \notin isIdle \ dying
      BY <1>0, <2>1, <2>3
    <3>3. QED BY <1>0, <2>1, <2>3, <3>1, <3>2, IdleStep
  <2>4. QED BY <2>1, <2>2, <2>3
<1>2. CASE C!Kill(c)
  <2> DEFINE on == C!Woken({c})
  <2>1. /\ c \in C!Placed /\ dying' = dying \cup {c} /\ isIdle' = isIdle \ on /\ C!Check(on, {}, refs)
        /\ UNCHANGED <<stage, C!visits, master, released>> /\ c \notin dying
    BY <1>2 DEF C!Kill, C!visits
  <2>2. on \subseteq C!Placed /\ (c \in Monsters => c \in on) /\ on \subseteq {c}
    BY <2>1 DEF C!Woken
  <2> HIDE DEF on
  <2>3. {} \subseteq isIdle' \ dying' /\ on \cap {} = {} /\ isIdle' \subseteq Monsters /\ dying' \subseteq Creatures
    BY <1>0, <2>1
  <2>4. \A s \in C!Placed : s \notin isIdle' \ dying' => s \in on \/ s \notin isIdle \ dying
    BY <1>0, <2>1, <2>2
  <2>5. QED BY <2>1, <2>2, <2>3, <2>4, IdleStep
<1>3. QED BY <1>1, <1>2


\* The summons of c are killed and serve nobody, and c serves n.
LEMMA FreedStep ==
    ASSUME C!CreaturesAssumption, CheckInv, NEW c \in C!Placed, NEW n,
           n = master[c] \/ (n \in C!Placed \ {c} /\ c \in Monsters),
           NEW counts, counts \in [Creatures -> Int],
           \A s \in C!Summons(c) : counts[s] = refs[s] - 1,
           \A s \in Creatures \ C!Summons(c) : s # c => counts[s] = refs[s],
           counts[c] = refs[c] - Flag(master[c] # Nobody) + Flag(n # Nobody),
           master' \in [Creatures -> Creatures \cup {Nobody}],
           \A s \in C!Summons(c) : master'[s] = Nobody,
           \A s \in Creatures \ C!Summons(c) : s # c => master'[s] = master[s],
           master'[c] = n,
           NEW on, NEW off, on \subseteq C!Placed, C!Woken(C!Summons(c)) \subseteq on, off \subseteq isIdle' \ dying',
           on \cap off = {}, isIdle' = (isIdle \ on) \cup off, isIdle' \subseteq Monsters,
           C!Check(on, off, counts), dying' = dying \cup C!Summons(c),
           UNCHANGED <<stage, C!visits, released>>
    PROVE  CheckInv'
<1> DEFINE summoned == C!Summons(c)
<1>1. UNCHANGED <<stage, vectors, last, looping, toVisit, released>>
  BY DEF C!visits
<1>2. c \in Creatures /\ stage[c] = "placed"
  BY DEF C!Placed
<1>3. \A s \in summoned : s \in Creatures /\ master[s] = c /\ master[s] # Nobody /\ s \in Monsters /\ s # c
                      /\ stage[s] = "placed"
  BY <1>2, SummonsAre
<1>4. n # Nobody => /\ n \in Creatures /\ n # c /\ c \in Monsters
                        /\ stage[n] \in {"placed", "removed"}
  BY <1>2, CreatureIs DEF C!Placed, Served, C!CreaturesAssumption
<1>5. Balanced(counts)
  <2> SUFFICES ASSUME NEW s \in Creatures
               PROVE  /\ counts[s] = Flag(stage'[s] = "placed") + Listed(s) + Flag(master'[s] # Nobody) + released'[s]
                      /\ (stage[s] = stage'[s] /\ counts[s] = refs[s]) \/ (stage'[s] \in {"placed", "removed"} /\ counts[s] > 0)
    BY DEF Balanced
  <2>1. /\ refs[s] = Flag(stage[s] = "placed") + Listed(s) + Flag(master[s] # Nobody) + released[s]
        /\ Listed(s) \in Nat /\ released[s] \in Nat /\ refs[s] \in Nat
    BY CreatureIs DEF Counted
  <2>2. CASE s \in summoned
    <3>1. Flag(stage[s] = "placed") = 1 /\ Flag(master[s] # Nobody) = 1 /\ Flag(master'[s] # Nobody) = 0
      BY <1>3, <2>2 DEF Flag
    <3>2. counts[s] = refs[s] - 1 /\ stage[s] = "placed"
      BY <1>3, <2>2
    <3>3. QED BY <1>1, <2>1, <3>1, <3>2
  <2>3. CASE s = c
    <3>1. Flag(stage[c] = "placed") = 1 /\ Flag(master[c] # Nobody) \in {0, 1} /\ Flag(n # Nobody) \in {0, 1}
      BY <1>2 DEF Flag
    <3>2. counts[c] = refs[c] - Flag(master[c] # Nobody) + Flag(n # Nobody) /\ master'[c] = n
      OBVIOUS
    <3>3. QED BY <1>1, <1>2, <2>1, <2>3, <3>1, <3>2
  <2>4. CASE s \notin summoned /\ s # c
    BY <1>1, <2>1, <2>4
  <2>5. QED BY <2>2, <2>3, <2>4
<1>6. ASSUME NEW s \in Creatures PROVE Served(s)'
  <2> SUFFICES ASSUME master'[s] # Nobody
               PROVE  /\ s \in Monsters /\ master'[s] # s
                      /\ stage'[master'[s]] \in {"placed", "removed"}
                      /\ stage'[master'[s]] = "placed" => stage'[s] = "placed"
    BY DEF Served
  <2>1. CASE s \in summoned
    BY <2>1
  <2>2. CASE s = c
    BY <1>1, <1>2, <1>4, <2>2
  <2>3. CASE s \notin summoned /\ s # c
    BY <1>1, <2>3, CreatureIs DEF Served
  <2>4. QED BY <2>1, <2>2, <2>3
<1>7. \A s \in on : stage'[s] = "placed" /\ s \in Creatures
  BY <1>1 DEF C!Placed
<1>8. \A s \in checked : stage'[s] = "placed"
  BY <1>1, CreatureIs DEF Called, CheckInv, C!TypeOK
<1>9. ASSUME NEW s \in Creatures, stage'[s] = "placed", s \notin isIdle' \ dying' PROVE s \in on \cup checked /\ s \notin off
  <2>1. Called(s) /\ stage[s] = "placed"
    BY <1>1, <1>9, CreatureIs
  <2>2. CASE s \in summoned
    <3>1. s \in dying \/ s \in on
      BY <1>3, <2>2 DEF C!Woken, C!Placed
    <3>2. QED BY <1>9, <2>1, <3>1 DEF Called
  <2>3. CASE s \notin summoned
    <3>1. s \in on \/ s \notin isIdle \ dying
      BY <1>9, <2>3
    <3>2. QED BY <1>9, <2>1, <3>1 DEF Called
  <2>4. QED BY <2>2, <2>3
<1>10. dying' \subseteq Creatures
  BY <1>3 DEF CheckInv, C!TypeOK
<1>11. Orderly(on, off, counts)
  BY <1>1, <1>5, <1>6, <1>7, <1>8, <1>9, <1>10 DEF Orderly, CheckInv, C!TypeOK
<1>12. QED BY <1>11, CheckedStep

LEMMA DestroyStep ==
    ASSUME C!CreaturesAssumption, CheckInv, NEW c \in Creatures, C!DestroySummons(c)
    PROVE  CheckInv'
<1> DEFINE summoned == C!Summons(c)
           counts == C!Minus(refs, summoned)
           on == C!Woken(summoned)
           n == master[c]
<1>1. /\ c \in C!Placed /\ dying' = dying \cup summoned /\ isIdle' = isIdle \ on
      /\ C!Check(on, {}, counts) /\ master' = C!Mastered(summoned, Nobody)
      /\ UNCHANGED <<stage, C!visits, released>>
  BY DEF C!DestroySummons
<1>2. /\ \A s \in summoned : counts[s] = refs[s] - 1 /\ s \in Creatures /\ s # c
      /\ \A s \in Creatures \ summoned : counts[s] = refs[s]
      /\ c \notin summoned
  BY <1>1, SummonsAre DEF C!Minus
<1>3. counts \in [Creatures -> Int]
  BY CreatureIs DEF C!Minus
<1>4. /\ \A s \in summoned : master'[s] = Nobody
      /\ \A s \in Creatures \ summoned : master'[s] = master[s]
      /\ master' \in [Creatures -> Creatures \cup {Nobody}]
  BY <1>1, <1>2 DEF C!Mastered, CheckInv, C!TypeOK
<1>5. on \subseteq C!Placed /\ {} \subseteq isIdle' \ dying' /\ on \cap {} = {} /\ isIdle' = (isIdle \ on) \cup {}
      /\ isIdle' \subseteq Monsters /\ C!Woken(summoned) \subseteq on
  BY <1>1 DEF C!Woken, CheckInv, C!TypeOK
<1>6. counts[c] = refs[c] - Flag(master[c] # Nobody) + Flag(n # Nobody) /\ master'[c] = n
  BY <1>2, <1>4, CreatureIs
<1>7. n = master[c]
  OBVIOUS
<1> HIDE DEF counts, on, n
<1>8. QED BY <1>1, <1>2, <1>3, <1>4, <1>5, <1>6, <1>7, FreedStep

LEMMA ConvinceStep ==
    ASSUME C!CreaturesAssumption, CheckInv, NEW c \in Creatures, NEW m \in Creatures, C!Convince(c, m)
    PROVE  CheckInv'
<1> DEFINE summoned == C!Summons(c)
           counts == C!Plus(C!Minus(C!Minus(refs, summoned), C!Bound({c})), {c})
<1>1. /\ c \in C!Placed /\ m \in C!Placed /\ c \in Monsters /\ m # c /\ dying' = dying \cup summoned
      /\ master' = [C!Mastered(summoned, Nobody) EXCEPT ![c] = m]
      /\ UNCHANGED <<stage, C!visits, released>>
      /\ \/ /\ isIdle' = (isIdle \ (C!Woken(summoned) \cup C!Woken({c}))) \cup {}
            /\ C!Check(C!Woken(summoned) \cup C!Woken({c}), {}, counts)
         \/ /\ c \notin dying /\ isIdle' = (isIdle \ C!Woken(summoned)) \cup {c}
            /\ C!Check(C!Woken(summoned), {c}, counts)
  BY DEF C!Convince
<1>2. (\A s \in summoned : s \in Creatures /\ s # c) /\ c \notin summoned
  BY SummonsAre
<1>3. \A s \in Creatures : /\ C!Minus(refs, summoned)[s] = (IF s \in summoned THEN refs[s] - 1 ELSE refs[s])
                           /\ refs[s] \in Nat
  BY CreatureIs DEF C!Minus
<1>4. C!Bound({c}) = IF master[c] # Nobody THEN {c} ELSE {}
  BY DEF C!Bound
<1>5. ASSUME NEW s \in Creatures
      PROVE  counts[s] = IF s = c THEN refs[c] - Flag(master[c] # Nobody) + 1
                         ELSE IF s \in summoned THEN refs[s] - 1 ELSE refs[s]
  <2>1. counts[s] = IF s = c THEN C!Minus(C!Minus(refs, summoned), C!Bound({c}))[c] + 1
                    ELSE C!Minus(C!Minus(refs, summoned), C!Bound({c}))[s]
    BY DEF C!Plus
  <2>2. C!Minus(C!Minus(refs, summoned), C!Bound({c}))[s] = IF s \in C!Bound({c}) THEN C!Minus(refs, summoned)[s] - 1 ELSE C!Minus(refs, summoned)[s]
    BY DEF C!Minus
  <2>3. CASE s = c
    <3>1. C!Minus(refs, summoned)[s] = refs[c]
      BY <1>2, <1>3, <2>3
    <3>2. C!Minus(C!Minus(refs, summoned), C!Bound({c}))[s] = refs[c] - Flag(master[c] # Nobody)
      BY <1>3, <1>4, <2>2, <2>3, <3>1 DEF Flag
    <3>3. QED BY <2>1, <2>3, <3>2
  <2>4. CASE s # c
    BY <1>3, <1>4, <2>1, <2>2, <2>4
  <2>5. QED BY <2>3, <2>4
<1>6. counts \in [Creatures -> Int]
  <2>1. ASSUME NEW s \in Creatures PROVE counts[s] \in Int
    <3>1. Flag(master[c] # Nobody) \in {0, 1} /\ refs[c] \in Nat /\ refs[s] \in Nat
      BY <1>3 DEF Flag
    <3>2. \/ counts[s] = refs[c] - Flag(master[c] # Nobody) + 1
          \/ counts[s] = refs[s] - 1
          \/ counts[s] = refs[s]
      BY <1>5
    <3>3. QED BY <3>1, <3>2
  <2>2. QED BY <2>1 DEF C!Plus
<1>7. m # Nobody /\ Flag(m # Nobody) = 1
  BY DEF C!CreaturesAssumption, Flag
<1>8. /\ \A s \in summoned : counts[s] = refs[s] - 1
      /\ \A s \in Creatures \ summoned : s # c => counts[s] = refs[s]
      /\ counts[c] = refs[c] - Flag(master[c] # Nobody) + Flag(m # Nobody)
  BY <1>2, <1>5, <1>7
<1>9. /\ master' \in [Creatures -> Creatures \cup {Nobody}]
      /\ \A s \in summoned : master'[s] = Nobody
      /\ \A s \in Creatures \ summoned : s # c => master'[s] = master[s]
      /\ master'[c] = m
  BY <1>1, <1>2 DEF C!Mastered, CheckInv, C!TypeOK
<1>10. m = master[c] \/ (m \in C!Placed \ {c} /\ c \in Monsters)
  BY <1>1
<1>11. isIdle \subseteq Monsters
  BY DEF CheckInv, C!TypeOK
<1> HIDE DEF counts
<1>12. CASE /\ isIdle' = (isIdle \ (C!Woken(summoned) \cup C!Woken({c}))) \cup {}
            /\ C!Check(C!Woken(summoned) \cup C!Woken({c}), {}, counts)
  <2> DEFINE on == C!Woken(summoned) \cup C!Woken({c})
  <2>1. /\ on \subseteq C!Placed /\ {} \subseteq isIdle' \ dying' /\ on \cap {} = {} /\ isIdle' = (isIdle \ on) \cup {}
        /\ isIdle' \subseteq Monsters /\ C!Woken(summoned) \subseteq on /\ C!Check(on, {}, counts)
    BY <1>11, <1>12 DEF C!Woken
  <2> HIDE DEF on
  <2>2. QED BY <1>1, <1>6, <1>8, <1>9, <1>10, <2>1, FreedStep
<1>13. CASE /\ c \notin dying /\ isIdle' = (isIdle \ C!Woken(summoned)) \cup {c}
            /\ C!Check(C!Woken(summoned), {c}, counts)
  <2> DEFINE on == C!Woken(summoned)
             off == {c}
  <2>1. /\ on \subseteq C!Placed /\ off \subseteq isIdle' \ dying' /\ on \cap off = {} /\ isIdle' = (isIdle \ on) \cup off
        /\ isIdle' \subseteq Monsters /\ C!Woken(summoned) \subseteq on /\ C!Check(on, off, counts)
    BY <1>1, <1>2, <1>11, <1>13 DEF C!Woken
  <2> HIDE DEF on, off
  <2>2. QED BY <1>1, <1>6, <1>8, <1>9, <1>10, <2>1, FreedStep
<1>14. QED BY <1>1, <1>12, <1>13


\* c leaves the world with all its retinue, of which only c may have a master who stays.
LEMMA LeaveStep ==
    ASSUME C!CreaturesAssumption, CheckInv, NEW c \in C!Placed, NEW dropped, dropped = {s \in {c} : master[s] \in C!Placed},
           NEW counts, counts \in [Creatures -> Int],
           \A s \in Creatures : counts[s] = IF s \in dropped THEN refs[s] - 1 ELSE refs[s],
           master' \in [Creatures -> Creatures \cup {Nobody}],
           \A s \in Creatures : master'[s] = IF s \in dropped THEN Nobody ELSE master[s],
           C!Left(C!Retinue(c), dying, isIdle), C!Check({}, C!Retinue(c), counts),
           released' = C!Plus(released, C!Retinue(c)),
           UNCHANGED <<vectors, last, looping>>, toVisit' \subseteq toVisit
    PROVE  CheckInv'
<1> DEFINE group == C!Retinue(c)
<1>1. C!Placed \subseteq Creatures /\ c \in Creatures /\ Nobody \notin Creatures
  BY DEF C!Placed, C!CreaturesAssumption
<1>2. c \in group /\ group \subseteq C!Placed /\ \A s \in group : s = c \/ master[s] \in group
  BY <1>1, ReachedIs DEF C!Retinue
<1>3. /\ stage' = C!Staged(group, "removed") /\ dying' = dying \ group /\ isIdle' = isIdle \cup (group \cap Monsters)
      /\ C!Check({}, group, counts) /\ released' = C!Plus(released, group)
  BY DEF C!Left
<1> HIDE DEF group
<1>4. \A s \in Creatures : /\ stage'[s] = (IF s \in group THEN "removed" ELSE stage[s])
                           /\ released'[s] = (IF s \in group THEN released[s] + 1 ELSE released[s])
  BY <1>3 DEF C!Staged, C!Plus
<1>5. \A s \in dropped : s \in group /\ master[s] # Nobody
  BY <1>1, <1>2
<1>6. ASSUME NEW s \in Creatures
      PROVE  /\ counts[s] = Flag(stage'[s] = "placed") + Listed(s) + Flag(master'[s] # Nobody) + released'[s]
             /\ (stage[s] = stage'[s] /\ counts[s] = refs[s]) \/ (stage'[s] \in {"placed", "removed"} /\ counts[s] > 0)
             /\ released'[s] \in Nat
  <2>1. /\ refs[s] = Flag(stage[s] = "placed") + Listed(s) + Flag(master[s] # Nobody) + released[s]
        /\ Listed(s) \in Nat /\ released[s] \in Nat /\ refs[s] \in Nat
    BY CreatureIs DEF Counted
  <2>2. CASE s \in group
    <3>1. Flag(stage[s] = "placed") = 1 /\ Flag(stage'[s] = "placed") = 0 /\ released'[s] = released[s] + 1
          /\ stage'[s] = "removed"
      BY <1>2, <1>4, <2>2 DEF Flag, C!Placed
    <3>2. Flag(master'[s] # Nobody) \in {0, 1} /\ Flag(master[s] # Nobody) \in {0, 1}
      BY DEF Flag
    <3>3. counts[s] = refs[s] - Flag(master[s] # Nobody) + Flag(master'[s] # Nobody)
      <4>1. CASE s \in dropped
        <5>1. Flag(master[s] # Nobody) = 1 /\ Flag(master'[s] # Nobody) = 0 /\ counts[s] = refs[s] - 1
          BY <1>5, <4>1 DEF Flag
        <5>2. QED BY <2>1, <5>1
      <4>2. CASE s \notin dropped
        <5>1. master'[s] = master[s] /\ counts[s] = refs[s]
          BY <4>2
        <5>2. QED BY <2>1, <3>2, <5>1
      <4>3. QED BY <4>1, <4>2
    <3>4. counts[s] = Listed(s) + Flag(master'[s] # Nobody) + released'[s]
      BY <2>1, <3>1, <3>2, <3>3
    <3>5. QED BY <2>1, <3>1, <3>2, <3>4
  <2>3. CASE s \notin group
    <3>1. s \notin dropped
      BY <1>5, <2>3
    <3>2. counts[s] = refs[s] /\ master'[s] = master[s] /\ stage'[s] = stage[s] /\ released'[s] = released[s]
      BY <1>4, <2>3, <3>1
    <3>3. QED BY <2>1, <3>2
  <2>4. QED BY <2>2, <2>3
<1>7. Balanced(counts)
  BY <1>6 DEF Balanced
<1>8. ASSUME NEW s \in Creatures PROVE Served(s)'
  <2> SUFFICES ASSUME master'[s] # Nobody
               PROVE  /\ s \in Monsters /\ master'[s] # s
                      /\ stage'[master'[s]] \in {"placed", "removed"}
                      /\ stage'[master'[s]] = "placed" => stage'[s] = "placed"
    BY DEF Served
  <2>1. s \notin dropped /\ master'[s] = master[s] /\ Served(s) /\ master[s] \in Creatures
    BY CreatureIs
  <2>2. /\ s \in Monsters /\ master[s] # s /\ stage[master[s]] \in {"placed", "removed"}
        /\ stage[master[s]] = "placed" => stage[s] = "placed"
    BY <2>1 DEF Served
  <2>3. CASE s \in group /\ s # c
    BY <1>2, <1>4, <2>1, <2>2, <2>3
  <2>4. CASE s = c
    <3>1. stage[master[s]] = "removed"
      BY <2>1, <2>2, <2>4 DEF C!Placed
    <3>2. QED BY <1>4, <2>1, <2>2, <3>1
  <2>5. CASE s \notin group
    BY <1>4, <2>1, <2>2, <2>5
  <2>6. QED BY <2>3, <2>4, <2>5
<1>9. ASSUME NEW s \in Creatures, stage'[s] = "placed", s \notin isIdle' \ dying' PROVE s \in {} \cup checked /\ s \notin group
  <2>1. s \notin group /\ stage[s] = "placed"
    BY <1>4, <1>9
  <2>2. s \notin isIdle \ dying
    BY <1>3, <1>9, <2>1
  <2>3. QED BY <2>1, <2>2, CreatureIs DEF Called
<1>10. \A s \in checked : stage'[s] = "placed" \/ s \in group
  <2>1. \A s \in checked : s \in Creatures /\ stage[s] = "placed"
    BY CreatureIs DEF Called, CheckInv, C!TypeOK
  <2>2. QED BY <1>4, <2>1
<1>11. /\ stage' \in [Creatures -> {"new", "placed", "removed", "deleted"}]
       /\ released' \in [Creatures -> Nat] /\ dying' \subseteq Creatures /\ isIdle' \subseteq Monsters
  <2>1. stage' \in [Creatures -> {"new", "placed", "removed", "deleted"}]
    BY <1>3 DEF C!Staged, CheckInv, C!TypeOK
  <2>2. released' \in [Creatures -> Nat]
    BY <1>3, <1>6 DEF C!Plus
  <2>3. QED BY <1>3, <2>1, <2>2 DEF CheckInv, C!TypeOK
<1>12. Orderly({}, group, counts)
  BY <1>3, <1>7, <1>8, <1>9, <1>10, <1>11 DEF Orderly
<1>13. QED BY <1>12, CheckedStep

LEMMA RemoveStep ==
    ASSUME C!CreaturesAssumption, CheckInv, NEW c \in Creatures, C!Remove(c)
    PROVE  CheckInv'
<1> DEFINE dropped == {s \in {c} : master[s] \in C!Placed}
           counts == C!Minus(refs, dropped)
<1>1. /\ c \in C!Placed /\ C!Left(C!Retinue(c), dying, isIdle) /\ C!Check({}, C!Retinue(c), counts)
      /\ master' = C!Mastered(dropped, Nobody) /\ released' = C!Plus(released, C!Retinue(c))
      /\ UNCHANGED <<vectors, last, looping>> /\ toVisit' \subseteq toVisit
  BY DEF C!Remove, C!visits
<1>2. dropped = {s \in {c} : master[s] \in C!Placed}
  OBVIOUS
<1> HIDE DEF dropped
<1>3. counts \in [Creatures -> Int] /\ \A s \in Creatures : counts[s] = IF s \in dropped THEN refs[s] - 1 ELSE refs[s]
  BY CreatureIs DEF C!Minus
<1>4. /\ \A s \in Creatures : master'[s] = IF s \in dropped THEN Nobody ELSE master[s]
      /\ master' \in [Creatures -> Creatures \cup {Nobody}]
  BY <1>1 DEF C!Mastered, CheckInv, C!TypeOK
<1> HIDE DEF counts
<1>5. QED BY <1>1, <1>2, <1>3, <1>4, LeaveStep

-----------------------------------------------------------------------------
(* The loop of checkCreatures                                              *)

LEMMA PlayerDiesStep ==
    ASSUME C!CreaturesAssumption, CheckInv, NEW c \in Creatures, C!PlayerDies(c)
    PROVE  CheckInv'
<1> DEFINE dropped == {s \in {c} : master[s] \in C!Placed}
<1>1. /\ c \in checked /\ c \notin Monsters
      /\ C!Left(C!Retinue(c), dying, isIdle) /\ C!Check({}, C!Retinue(c), refs)
      /\ released' = C!Plus(released, C!Retinue(c)) /\ master' = master
      /\ UNCHANGED <<vectors, last, looping>> /\ toVisit' \subseteq toVisit
  BY DEF C!PlayerDies, C!Passed
<1>2. c \in C!Placed /\ master[c] = Nobody
  BY <1>1, CreatureIs DEF Called, Served, C!Placed
<1>3. dropped = {}
  BY <1>2 DEF C!Placed, C!CreaturesAssumption
<1>4. dropped = {s \in {c} : master[s] \in C!Placed}
  OBVIOUS
<1> HIDE DEF dropped
<1> DEFINE counts == refs
<1>5. counts \in [Creatures -> Int] /\ \A s \in Creatures : counts[s] = IF s \in dropped THEN refs[s] - 1 ELSE refs[s]
  BY <1>3 DEF CheckInv, C!TypeOK
<1>6. C!Check({}, C!Retinue(c), counts)
  BY <1>1
<1> HIDE DEF counts
<1>7. /\ \A s \in Creatures : master'[s] = IF s \in dropped THEN Nobody ELSE master[s]
      /\ master' \in [Creatures -> Creatures \cup {Nobody}]
  BY <1>1, <1>3 DEF CheckInv, C!TypeOK
<1>8. QED BY <1>1, <1>2, <1>4, <1>5, <1>6, <1>7, LeaveStep


LEMMA MonsterDiesStep ==
    ASSUME C!CreaturesAssumption, CheckInv, NEW c \in Creatures, C!MonsterDies(c)
    PROVE  CheckInv'
<1> DEFINE summoned == C!Summons(c)
           counts == C!Minus(refs, summoned \cup C!Bound({c}))
           on == C!Woken(summoned)
<1>1. /\ c \in checked /\ c \in Monsters
      /\ stage' = C!Staged({c}, "removed") /\ dying' = (dying \cup summoned) \ {c}
      /\ isIdle' = (isIdle \ on) \cup {c}
      /\ C!Check(on, {c}, counts) /\ master' = C!Mastered(summoned \cup {c}, Nobody)
      /\ released' = C!Plus(released, {c})
      /\ UNCHANGED <<vectors, last, looping>> /\ toVisit' \subseteq toVisit
  BY DEF C!MonsterDies, C!Passed, C!Left
<1>2. stage[c] = "placed"
  BY <1>1, CreatureIs DEF Called
<1>3. /\ \A s \in summoned : s \in Creatures /\ master[s] = c /\ master[s] # Nobody /\ s \in Monsters /\ s # c
                      /\ stage[s] = "placed"
      /\ c \notin summoned
  BY <1>2, SummonsAre
<1>4. on \subseteq summoned /\ on \cap {c} = {} /\ \A s \in summoned : s \in on \/ s \in dying
  BY <1>3 DEF C!Woken, C!Placed
<1>5. \A s \in Creatures :
         /\ stage'[s] = (IF s = c THEN "removed" ELSE stage[s])
         /\ released'[s] = (IF s = c THEN released[s] + 1 ELSE released[s])
         /\ master'[s] = (IF s \in summoned \/ s = c THEN Nobody ELSE master[s])
  BY <1>1 DEF C!Staged, C!Plus, C!Mastered
<1>6. ASSUME NEW s \in Creatures
      PROVE  /\ counts[s] = refs[s] - Flag(master[s] # Nobody) + Flag(master'[s] # Nobody)
             /\ counts[s] \in Int
  <2>1. counts[s] = IF s \in summoned \/ (s = c /\ master[c] # Nobody) THEN refs[s] - 1 ELSE refs[s]
    BY DEF C!Minus, C!Bound
  <2>2. refs[s] \in Nat /\ Flag(master[s] # Nobody) \in {0, 1}
    BY CreatureIs
  <2>3. CASE s \in summoned
    <3>1. Flag(master[s] # Nobody) = 1 /\ Flag(master'[s] # Nobody) = 0
      BY <1>3, <1>5, <2>3 DEF Flag
    <3>2. QED BY <2>1, <2>2, <2>3, <3>1
  <2>4. CASE s = c
    <3>1. Flag(master'[s] # Nobody) = 0
      BY <1>5, <2>4 DEF Flag
    <3>2. CASE master[c] = Nobody
      <4>1. Flag(master[s] # Nobody) = 0 /\ counts[s] = refs[s]
        BY <1>3, <2>1, <2>4, <3>2 DEF Flag
      <4>2. QED BY <2>2, <3>1, <4>1
    <3>3. CASE master[c] # Nobody
      <4>1. Flag(master[s] # Nobody) = 1 /\ counts[s] = refs[s] - 1
        BY <2>1, <2>4, <3>3 DEF Flag
      <4>2. QED BY <2>2, <3>1, <4>1
    <3>4. QED BY <3>2, <3>3
  <2>5. CASE s \notin summoned /\ s # c
    BY <1>5, <2>1, <2>2, <2>5
  <2>6. QED BY <2>3, <2>4, <2>5
<1>7. counts \in [Creatures -> Int]
  <2>1. \A s \in Creatures : counts[s] \in Int
    BY <1>6
  <2>2. QED BY <2>1 DEF C!Minus
<1> HIDE DEF counts, on
<1>8. ASSUME NEW s \in Creatures
      PROVE  /\ counts[s] = Flag(stage'[s] = "placed") + Listed(s) + Flag(master'[s] # Nobody) + released'[s]
             /\ (stage[s] = stage'[s] /\ counts[s] = refs[s]) \/ (stage'[s] \in {"placed", "removed"} /\ counts[s] > 0)
             /\ released'[s] \in Nat
  <2>1. /\ refs[s] = Flag(stage[s] = "placed") + Listed(s) + Flag(master[s] # Nobody) + released[s]
        /\ Listed(s) \in Nat /\ released[s] \in Nat /\ refs[s] \in Nat /\ Flag(master[s] # Nobody) \in {0, 1}
    BY CreatureIs DEF Counted
  <2>2. /\ counts[s] = refs[s] - Flag(master[s] # Nobody) + Flag(master'[s] # Nobody)
        /\ Flag(master'[s] # Nobody) \in {0, 1}
    BY <1>6 DEF Flag
  <2>3. CASE s = c
    <3>1. Flag(stage[s] = "placed") = 1 /\ Flag(stage'[s] = "placed") = 0 /\ released'[s] = released[s] + 1
          /\ stage'[s] = "removed"
      BY <1>2, <1>5, <2>3 DEF Flag
    <3>2. QED BY <2>1, <2>2, <3>1
  <2>4. CASE s \in summoned
    <3>1. Flag(stage[s] = "placed") = 1 /\ Flag(stage'[s] = "placed") = 1 /\ released'[s] = released[s]
          /\ stage'[s] = "placed"
      BY <1>3, <1>5, <2>4 DEF Flag
    <3>2. QED BY <2>1, <2>2, <3>1
  <2>5. CASE s # c /\ s \notin summoned
    <3>1. stage'[s] = stage[s] /\ released'[s] = released[s] /\ master'[s] = master[s]
      BY <1>5, <2>5
    <3>2. counts[s] = refs[s]
      BY <2>1, <2>2, <3>1
    <3>3. QED BY <2>1, <3>1, <3>2
  <2>6. QED BY <2>3, <2>4, <2>5
<1>9. Balanced(counts)
  BY <1>8 DEF Balanced
<1>10. ASSUME NEW s \in Creatures PROVE Served(s)'
  <2> SUFFICES ASSUME master'[s] # Nobody
               PROVE  /\ s \in Monsters /\ master'[s] # s
                      /\ stage'[master'[s]] \in {"placed", "removed"}
                      /\ stage'[master'[s]] = "placed" => stage'[s] = "placed"
    BY DEF Served
  <2>1. s \notin summoned /\ s # c /\ master'[s] = master[s] /\ Served(s) /\ master[s] \in Creatures
    BY <1>5, CreatureIs
  <2>2. master[s] # c
    BY <2>1 DEF C!Summons
  <2>3. QED BY <1>5, <2>1, <2>2 DEF Served
<1>11. ASSUME NEW s \in Creatures, stage'[s] = "placed", s \notin isIdle' \ dying' PROVE s \in on \cup checked /\ s \notin {c}
  <2>1. s # c /\ stage[s] = "placed" /\ Called(s)
    BY <1>5, <1>11, CreatureIs
  <2>2. CASE s \in summoned
    BY <1>4, <2>1, <2>2 DEF Called
  <2>3. CASE s \notin summoned
    <3>1. s \in on \/ s \notin isIdle \ dying
      BY <1>1, <1>11, <2>1, <2>3
    <3>2. QED BY <2>1, <3>1 DEF Called
  <2>4. QED BY <2>2, <2>3
<1>12. \A s \in checked : stage'[s] = "placed" \/ s \in {c}
  <2>1. \A s \in checked : s \in Creatures /\ stage[s] = "placed"
    BY CreatureIs DEF Called, CheckInv, C!TypeOK
  <2>2. QED BY <1>5, <2>1
<1>13. \A s \in on : s \in Creatures /\ stage'[s] = "placed"
  BY <1>3, <1>4, <1>5
<1>14. /\ stage' \in [Creatures -> {"new", "placed", "removed", "deleted"}]
       /\ released' \in [Creatures -> Nat] /\ dying' \subseteq Creatures /\ isIdle' \subseteq Monsters
       /\ master' \in [Creatures -> Creatures \cup {Nobody}]
  <2>1. stage' \in [Creatures -> {"new", "placed", "removed", "deleted"}]
    BY <1>1 DEF C!Staged, CheckInv, C!TypeOK
  <2>2. released' \in [Creatures -> Nat]
    BY <1>1, <1>8 DEF C!Plus
  <2>3. master' \in [Creatures -> Creatures \cup {Nobody}]
    BY <1>1 DEF C!Mastered, CheckInv, C!TypeOK
  <2>4. dying' \subseteq Creatures
    BY <1>1, <1>3 DEF CheckInv, C!TypeOK
  <2>5. QED BY <1>1, <2>1, <2>2, <2>3, <2>4 DEF CheckInv, C!TypeOK
<1>15. Orderly(on, {c}, counts)
  BY <1>1, <1>7, <1>9, <1>10, <1>11, <1>12, <1>13, <1>14 DEF Orderly
<1>16. QED BY <1>15, CheckedStep

\* A creature leaves its vector: the reference of the vector is now for releaseThings.
LEMMA LeaveListStep ==
    ASSUME CheckInv, NEW c \in Creatures, C!Leave(c)
    PROVE  CheckInv'
<1>1. /\ looping /\ c \in toVisit /\ toVisit' = toVisit \ {c} /\ last' = last /\ looping' = looping
      /\ c \notin checked /\ checkVector' = [checkVector EXCEPT ![c] = -1]
      /\ vectors' = [vectors EXCEPT ![last] = @ \ {c}]
      /\ released' = C!Plus(released, {c})
      /\ UNCHANGED <<stage, dying, isIdle, refs, checked, toAdd, master>>
  BY DEF C!Leave, C!Passed, C!bodies
<1>2. last \in C!Indices /\ c \in vectors[last] /\ vectors \in [C!Indices -> SUBSET Creatures] /\ -1 \notin C!Indices
  BY <1>1 DEF CheckInv, C!TypeOK, C!Indices
<1>3. last \in C!Listings(c)
  BY <1>2 DEF C!Listings
<1>4. c \notin toAdd /\ C!Listings(c) = {last}
  BY <1>3, CreatureIs DEF Marked
<1>5. \A i \in C!Indices : vectors'[i] = IF i = last THEN vectors[i] \ {c} ELSE vectors[i]
  BY <1>1, <1>2
<1>6. C!Listings(c)' = {} /\ \A s \in Creatures : s # c => C!Listings(s)' = C!Listings(s)
  <2>1. C!Listings(c)' = {i \in C!Indices : c \in vectors'[i]} /\ C!Listings(c) = {i \in C!Indices : c \in vectors[i]}
    BY DEF C!Listings, C!Indices
  <2>2. C!Listings(c)' = {}
    BY <1>4, <1>5, <2>1
  <2>3. ASSUME NEW s \in Creatures, s # c PROVE C!Listings(s)' = C!Listings(s)
    <3>1. C!Listings(s)' = {i \in C!Indices : s \in vectors'[i]} /\ C!Listings(s) = {i \in C!Indices : s \in vectors[i]}
      BY DEF C!Listings, C!Indices
    <3>2. QED BY <1>5, <2>3, <3>1
  <2>4. QED BY <2>2, <2>3
<1>7. checkVector'[c] = -1 /\ \A s \in Creatures : s # c => checkVector'[s] = checkVector[s]
  BY <1>1 DEF CheckInv, C!TypeOK
<1>8. \A s \in Creatures : released'[s] = IF s = c THEN released[s] + 1 ELSE released[s]
  BY <1>1 DEF C!Plus
<1>9. ASSUME NEW s \in Creatures PROVE Marked(s)' /\ Called(s)' /\ Counted(s)' /\ Served(s)' /\ released'[s] \in Nat
  <2>1. Marked(s) /\ Called(s) /\ Counted(s) /\ Served(s) /\ released[s] \in Nat
    BY CreatureIs
  <2>2. Served(s)'
    BY <1>1, <2>1 DEF Served
  <2>3. CASE s = c
    <3>1. Listed(c) = 1 /\ Listed(c)' = 0
      BY <1>1, <1>4, <1>6 DEF Listed, Flag
    <3>2. Counted(c)' /\ released'[c] \in Nat
      <4>1. released'[c] = released[c] + 1
        BY <1>8
      <4>2. Flag(stage[c] = "placed") \in {0, 1} /\ Flag(master[c] # Nobody) \in {0, 1}
        BY DEF Flag
      <4>3. refs[c] = Flag(stage[c] = "placed") + 0 + Flag(master[c] # Nobody) + released'[c]
        BY <2>1, <2>3, <3>1, <4>1, <4>2 DEF Counted
      <4>4. QED BY <1>1, <2>1, <2>3, <3>1, <4>1, <4>3 DEF Counted
    <3>3. Marked(c)'
      BY <1>1, <1>4, <1>6, <1>7 DEF Marked
    <3>4. Called(c)'
      BY <1>1, <2>1, <2>3 DEF Called
    <3>5. QED BY <2>2, <2>3, <3>2, <3>3, <3>4
  <2>4. CASE s # c
    <3>1. Listed(s)' = Listed(s)
      BY <1>1, <1>6, <2>4 DEF Listed, Flag
    <3>2. Counted(s)' /\ released'[s] \in Nat
      BY <1>1, <1>8, <2>1, <2>4, <3>1 DEF Counted
    <3>3. Marked(s)'
      BY <1>1, <1>6, <1>7, <2>1, <2>4 DEF Marked
    <3>4. Called(s)'
      BY <1>1, <1>7, <2>1, <2>4 DEF Called
    <3>5. QED BY <2>2, <3>2, <3>3, <3>4
  <2>5. QED BY <2>3, <2>4
<1>10. C!TypeOK'
  <2>1. released' \in [Creatures -> Nat]
    BY <1>1, <1>9 DEF C!Plus
  <2>2. vectors' \in [C!Indices -> SUBSET Creatures] /\ checkVector' \in [Creatures -> C!Indices \cup {-1}]
    BY <1>1, <1>2 DEF CheckInv, C!TypeOK
  <2>3. toVisit' \subseteq Creatures
    BY <1>1 DEF CheckInv, C!TypeOK
  <2>4. QED BY <1>1, <2>1, <2>2, <2>3 DEF CheckInv, C!TypeOK, C!Indices
<1>11. \A s \in toVisit' : s \in vectors'[last']
  BY <1>1, <1>2, <1>5 DEF CheckInv
<1>12. QED BY <1>9, <1>10, <1>11 DEF CheckInv

LEMMA ThinkStep ==
    ASSUME CheckInv, NEW c \in Creatures, C!Think(c)
    PROVE  CheckInv'
<1>1. /\ looping /\ toVisit' = toVisit \ {c} /\ last' = last /\ looping' = looping
      /\ c \in checked /\ dying' \in {dying, dying \ {c}}
      /\ UNCHANGED <<stage, isIdle, refs, checked, checkVector, toAdd, vectors, master, released>>
  BY DEF C!Think, C!Passed, C!checks
<1>2. C!TypeOK'
  BY <1>1 DEF CheckInv, C!TypeOK
<1>3. ASSUME NEW s \in Creatures PROVE Marked(s)' /\ Called(s)' /\ Counted(s)' /\ Served(s)'
  <2>1. Marked(s) /\ Called(s) /\ Counted(s) /\ Served(s)
    BY CreatureIs
  <2>2. C!Listings(s)' = C!Listings(s)
    BY <1>1 DEF C!Listings
  <2>3. Listed(s)' = Listed(s)
    BY <1>1, <2>2 DEF Listed
  <2>4. Marked(s)'
    BY <1>1, <2>1, <2>2 DEF Marked
  <2>5. Called(s)'
    BY <1>1, <2>1 DEF Called
  <2>6. Counted(s)'
    BY <1>1, <2>1, <2>3 DEF Counted
  <2>7. Served(s)'
    BY <1>1, <2>1 DEF Served
  <2>8. QED BY <2>4, <2>5, <2>6, <2>7
<1>4. \A s \in toVisit' : s \in vectors'[last']
  BY <1>1 DEF CheckInv
<1>5. QED BY <1>2, <1>3, <1>4 DEF CheckInv

\* Those on their way into a vector come into the one that their mark names.
LEMMA BeginCheckStep ==
    ASSUME C!CreaturesAssumption, CheckInv, C!BeginCheck
    PROVE  CheckInv'
<1> DEFINE b == (last + 1) % CheckBuckets
           filled == [i \in C!Indices |-> vectors[i] \cup {c \in toAdd : checkVector[c] = i}]
<1>1. /\ looping' = TRUE /\ last' = b /\ vectors' = filled /\ toAdd' = {} /\ toVisit' = filled[b]
      /\ UNCHANGED <<stage, dying, isIdle, refs, checked, checkVector, master, released>>
  BY DEF C!BeginCheck, C!bodies
<1>2. b \in C!Indices
  <2>1. last + 1 \in Int /\ CheckBuckets \in Nat \ {0}
    BY DEF C!CreaturesAssumption, CheckInv, C!TypeOK, C!Indices
  <2>2. QED BY <2>1 DEF C!Indices
<1>3. \A i \in C!Indices : filled[i] = vectors[i] \cup {c \in toAdd : checkVector[c] = i}
  OBVIOUS
<1>4. filled \in [C!Indices -> SUBSET Creatures]
  <2>1. \A i \in C!Indices : vectors[i] \cup {c \in toAdd : checkVector[c] = i} \in SUBSET Creatures
    BY DEF CheckInv, C!TypeOK
  <2>2. QED BY <2>1
<1> HIDE DEF b, filled
<1>5. C!TypeOK'
  <2>1. toVisit' \subseteq Creatures
    BY <1>1, <1>2, <1>4
  <2>2. QED BY <1>1, <1>2, <1>4, <2>1 DEF CheckInv, C!TypeOK, C!Indices
<1>6. ASSUME NEW s \in Creatures PROVE Marked(s)' /\ Called(s)' /\ Counted(s)' /\ Served(s)'
  <2>1. Marked(s) /\ Called(s) /\ Counted(s) /\ Served(s)
    BY CreatureIs
  <2>2. C!Listings(s)' = {i \in C!Indices : s \in filled[i]} /\ C!Listings(s) = {i \in C!Indices : s \in vectors[i]}
    BY <1>1 DEF C!Listings, C!Indices
  <2>3. \A i \in C!Indices : s \in filled[i] <=> s \in vectors[i] \/ (s \in toAdd /\ checkVector[s] = i)
    BY <1>3
  <2>4. s \in toAdd => C!Listings(s)' = {checkVector[s]} /\ checkVector[s] # -1 /\ C!Listings(s) = {}
    <3>1. ASSUME s \in toAdd PROVE C!Listings(s) = {} /\ checkVector[s] \in C!Indices
      BY <2>1, <3>1 DEF Marked, CheckInv, C!TypeOK
    <3>2. -1 \notin C!Indices
      BY DEF C!Indices
    <3>3. QED BY <2>2, <2>3, <3>1, <3>2
  <2>5. s \notin toAdd => C!Listings(s)' = C!Listings(s)
    BY <2>2, <2>3
  <2>6. s \notin toAdd'
    BY <1>1
  <2>7. Listed(s)' = Listed(s)
    <3>1. CASE s \in toAdd
      <4>1. C!Listings(s)' # {} /\ C!Listings(s) = {}
        BY <2>4, <3>1
      <4>2. QED BY <2>6, <3>1, <4>1 DEF Listed, Flag
    <3>2. CASE s \notin toAdd
      BY <2>5, <2>6, <3>2 DEF Listed, Flag
    <3>3. QED BY <3>1, <3>2
  <2>8. Marked(s)'
    <3>1. CASE s \in toAdd
      BY <1>1, <2>4, <2>6, <3>1 DEF Marked
    <3>2. CASE s \notin toAdd
      BY <1>1, <2>1, <2>5, <2>6, <3>2 DEF Marked
    <3>3. QED BY <3>1, <3>2
  <2>9. Called(s)'
    BY <1>1, <2>1 DEF Called
  <2>10. Counted(s)'
    BY <1>1, <2>1, <2>7 DEF Counted
  <2>11. Served(s)'
    BY <1>1, <2>1 DEF Served
  <2>12. QED BY <2>8, <2>9, <2>10, <2>11
<1>7. \A s \in toVisit' : s \in vectors'[last']
  BY <1>1
<1>8. QED BY <1>5, <1>6, <1>7 DEF CheckInv

\* Those who go have no reference left that is not the one of a master that goes;
\* those who stay have one.
LEMMA CleanupStep ==
    ASSUME C!CreaturesAssumption, CheckInv, C!Cleanup,
           UNCHANGED <<vectors, last, toVisit>>, looping' \in {looping, FALSE}
    PROVE  CheckInv'
<1> DEFINE gone == C!Gone
           freed == {c \in Creatures : master[c] \in gone}
<1>1. /\ stage' = C!Staged(gone, "deleted") /\ master' = C!Mastered(freed, Nobody)
      /\ refs' = C!Minus([c \in Creatures |-> refs[c] - released[c]], freed)
      /\ released' = [c \in Creatures |-> 0]
      /\ UNCHANGED <<dying, isIdle, checked, checkVector, toAdd>>
  BY DEF C!Cleanup
<1>2. /\ {c \in C!Kept(0) : released[c] > 0} \subseteq gone /\ gone \subseteq {c \in C!Kept(0) : released[c] > 0} \cup C!Kept(1)
      /\ \A s \in gone : s \in {c \in C!Kept(0) : released[c] > 0} \/ master[s] \in gone
      /\ \A s \in C!Kept(1) : master[s] \in gone => s \in gone
  <2>1. {c \in C!Kept(0) : released[c] > 0} \subseteq Creatures /\ C!Kept(1) \subseteq Creatures
    BY DEF C!Kept
  <2>2. QED BY <2>1, ReachedIs DEF C!Gone
<1>3. \A c \in freed : c \in Creatures /\ master[c] \in gone
  OBVIOUS
<1>4. \A c \in Creatures : c \notin freed => master[c] \notin gone
  OBVIOUS
<1> HIDE DEF gone, freed
<1>5. gone \subseteq Creatures /\ Nobody \notin gone
  BY <1>2 DEF C!Kept, C!CreaturesAssumption
<1>6. ASSUME NEW c \in Creatures
      PROVE  /\ stage'[c] = (IF c \in gone THEN "deleted" ELSE stage[c])
             /\ master'[c] = (IF c \in freed THEN Nobody ELSE master[c])
             /\ refs'[c] = (IF c \in freed THEN refs[c] - released[c] - 1 ELSE refs[c] - released[c])
             /\ released'[c] = 0
  BY <1>1 DEF C!Staged, C!Mastered, C!Minus
<1>7. ASSUME NEW c \in Creatures
      PROVE  /\ C!Listings(c)' = C!Listings(c) /\ Listed(c)' = Listed(c)
             /\ Listed(c) = 0 => c \notin toAdd /\ C!Listings(c) = {}
  <2>1. C!Listings(c)' = C!Listings(c)
    BY DEF C!Listings, C!Indices
  <2>2. QED BY <1>1, <2>1 DEF Listed, Flag
<1>8. ASSUME NEW c \in gone
      PROVE  stage[c] = "removed" /\ Listed(c) = 0 /\ master'[c] = Nobody /\ refs'[c] = 0
  <2>1. /\ refs[c] = Flag(stage[c] = "placed") + Listed(c) + Flag(master[c] # Nobody) + released[c]
        /\ Listed(c) \in Nat /\ released[c] \in Nat /\ refs[c] \in Nat
        /\ Flag(master[c] # Nobody) \in {0, 1} /\ Flag(stage[c] = "placed") \in {0, 1}
        /\ stage[c] \in {"new", "deleted"} <=> refs[c] = 0
        /\ stage[c] \in {"new", "placed", "removed", "deleted"}
    BY <1>5, CreatureIs DEF Counted
  <2>2. CASE c \in C!Kept(0) /\ released[c] > 0
    <3>1. refs[c] - released[c] = 0 /\ released[c] > 0
      BY <2>2 DEF C!Kept
    <3>2. /\ Flag(stage[c] = "placed") = 0 /\ Listed(c) = 0 /\ Flag(master[c] # Nobody) = 0
          /\ refs[c] # 0
      BY <2>1, <3>1
    <3>3. stage[c] # "placed" /\ master[c] = Nobody
      BY <3>2 DEF Flag
    <3>4. c \notin freed
      BY <1>3, <1>5, <3>3
    <3>5. QED BY <1>5, <1>6, <2>1, <3>1, <3>2, <3>3, <3>4
  <2>3. CASE ~(c \in C!Kept(0) /\ released[c] > 0)
    <3>1. c \in C!Kept(1) /\ master[c] \in gone
      BY <1>2, <2>3
    <3>2. refs[c] - released[c] = 1 /\ master[c] # Nobody /\ c \in freed
      BY <1>4, <1>5, <3>1 DEF C!Kept
    <3>3. Flag(master[c] # Nobody) = 1
      BY <3>2 DEF Flag
    <3>4. Flag(stage[c] = "placed") = 0 /\ Listed(c) = 0 /\ refs[c] # 0
      BY <2>1, <3>2, <3>3
    <3>5. stage[c] # "placed"
      BY <3>4 DEF Flag
    <3>6. QED BY <1>5, <1>6, <2>1, <3>2, <3>4, <3>5
  <2>4. QED BY <2>2, <2>3
<1>9. ASSUME NEW c \in Creatures, c \notin gone
      PROVE  /\ refs'[c] = Flag(stage'[c] = "placed") + Listed(c) + Flag(master'[c] # Nobody)
             /\ stage'[c] \in {"new", "deleted"} <=> refs'[c] = 0
             /\ stage'[c] = stage[c]
  <2>1. /\ refs[c] = Flag(stage[c] = "placed") + Listed(c) + Flag(master[c] # Nobody) + released[c]
        /\ Listed(c) \in Nat /\ released[c] \in Nat /\ refs[c] \in Nat
        /\ Flag(master[c] # Nobody) \in {0, 1} /\ Flag(stage[c] = "placed") \in {0, 1}
        /\ stage[c] \in {"new", "deleted"} <=> refs[c] = 0
    BY CreatureIs DEF Counted
  <2>2. stage'[c] = stage[c]
    BY <1>6, <1>9
  <2>3. CASE c \in freed
    <3>1. /\ master[c] # Nobody /\ c \notin C!Kept(1) /\ master'[c] = Nobody
          /\ refs'[c] = refs[c] - released[c] - 1
      BY <1>2, <1>3, <1>5, <1>6, <1>9, <2>3
    <3>2. Flag(master[c] # Nobody) = 1 /\ Flag(master'[c] # Nobody) = 0 /\ refs[c] - released[c] # 1
      BY <3>1 DEF Flag, C!Kept
    <3>3. refs'[c] = Flag(stage[c] = "placed") + Listed(c) /\ refs'[c] # 0 /\ refs[c] # 0
      BY <2>1, <3>1, <3>2
    <3>4. QED BY <2>1, <2>2, <3>2, <3>3
  <2>4. CASE c \notin freed
    <3>1. refs'[c] = refs[c] - released[c] /\ master'[c] = master[c]
      BY <1>6, <2>4
    <3>2. ~(refs[c] - released[c] = 0 /\ released[c] > 0)
      BY <1>2, <1>9 DEF C!Kept
    <3>3. refs'[c] = 0 <=> refs[c] = 0
      BY <2>1, <3>1, <3>2
    <3>4. QED BY <2>1, <2>2, <3>1, <3>3
  <2>5. QED BY <2>3, <2>4
<1>10. ASSUME NEW c \in Creatures PROVE Marked(c)' /\ Called(c)' /\ Counted(c)' /\ Served(c)' /\ refs'[c] \in Nat
  <2>1. Marked(c) /\ Called(c) /\ Served(c) /\ Listed(c) \in Nat /\ master[c] \in Creatures \cup {Nobody}
    BY CreatureIs
  <2>2. Marked(c)'
    BY <1>1, <1>7, <2>1 DEF Marked
  <2>3. Called(c)'
    <3>1. c \in checked => c \notin gone
      BY <1>8, <2>1 DEF Called
    <3>2. QED BY <1>1, <1>6, <2>1, <3>1 DEF Called
  <2>4. Counted(c)' /\ refs'[c] \in Nat
    <3>1. CASE c \in gone
      <4>1. stage'[c] = "deleted" /\ refs'[c] = 0 /\ Listed(c)' = 0 /\ released'[c] = 0
            /\ Flag(stage'[c] = "placed") = 0 /\ Flag(master'[c] # Nobody) = 0
        BY <1>6, <1>7, <1>8, <3>1 DEF Flag
      <4>2. QED BY <4>1 DEF Counted
    <3>2. CASE c \notin gone
      <4>1. released'[c] = 0 /\ Listed(c)' = Listed(c)
        BY <1>6, <1>7
      <4>2. Flag(stage'[c] = "placed") \in {0, 1} /\ Flag(master'[c] # Nobody) \in {0, 1}
        BY DEF Flag
      <4>3. QED BY <1>9, <2>1, <3>2, <4>1, <4>2 DEF Counted
    <3>3. QED BY <3>1, <3>2
  <2>5. Served(c)'
    <3> SUFFICES ASSUME master'[c] # Nobody
                 PROVE  /\ c \in Monsters /\ master'[c] # c
                        /\ stage'[master'[c]] \in {"placed", "removed"}
                        /\ stage'[master'[c]] = "placed" => stage'[c] = "placed"
      BY DEF Served
    <3>1. c \notin freed /\ master'[c] = master[c] /\ master[c] \notin gone /\ master[c] \in Creatures
      BY <1>4, <1>6, <2>1
    <3>2. stage'[master[c]] = stage[master[c]]
      BY <1>6, <3>1
    <3>3. stage[c] = "placed" => stage'[c] = "placed"
      BY <1>6, <1>8
    <3>4. QED BY <2>1, <3>1, <3>2, <3>3 DEF Served
  <2>6. QED BY <2>2, <2>3, <2>4, <2>5
<1>11. C!TypeOK'
  <2>1. refs' \in [Creatures -> Nat] /\ released' \in [Creatures -> Nat]
    BY <1>1, <1>10 DEF C!Minus
  <2>2. stage' \in [Creatures -> {"new", "placed", "removed", "deleted"}]
    BY <1>1 DEF C!Staged, CheckInv, C!TypeOK
  <2>3. master' \in [Creatures -> Creatures \cup {Nobody}]
    BY <1>1 DEF C!Mastered, CheckInv, C!TypeOK
  <2>4. QED BY <1>1, <2>1, <2>2, <2>3 DEF CheckInv, C!TypeOK, C!Indices
<1>12. looping' => \A c \in toVisit' : c \in vectors'[last']
  BY DEF CheckInv, C!TypeOK
<1>13. QED BY <1>10, <1>11, <1>12 DEF CheckInv

-----------------------------------------------------------------------------
(* Every step                                                              *)

LEMMA CheckInvInit ==
    ASSUME C!CreaturesAssumption, C!Init
    PROVE  CheckInv
<1>1. C!TypeOK
  <2>1. 0 \in C!Indices
    BY DEF C!CreaturesAssumption, C!Indices
  <2>2. Monsters \subseteq Creatures
    BY DEF C!CreaturesAssumption
  <2>3. QED BY <2>1, <2>2 DEF C!Init, C!TypeOK
<1>2. ASSUME NEW c \in Creatures PROVE Marked(c) /\ Called(c) /\ Counted(c) /\ Served(c)
  <2>1. C!Listings(c) = {}
    BY DEF C!Init, C!Listings
  <2>2. /\ stage[c] = "new" /\ refs[c] = 0 /\ checked = {} /\ checkVector[c] = -1 /\ toAdd = {}
        /\ master[c] = Nobody /\ released[c] = 0
    BY DEF C!Init
  <2>3. Listed(c) = 0
    BY <2>1, <2>2 DEF Listed, Flag
  <2>4. QED BY <2>1, <2>2, <2>3 DEF Marked, Called, Counted, Served, Flag
<1>3. looping = FALSE
  BY DEF C!Init
<1>4. QED BY <1>1, <1>2, <1>3 DEF CheckInv

LEMMA CheckInvStutters ==
    ASSUME CheckInv, UNCHANGED C!creatureVars
    PROVE  CheckInv'
<1> USE DEF C!creatureVars, C!bodies, C!checks, C!visits
<1>1. C!TypeOK'
  BY DEF CheckInv, C!TypeOK, C!Indices
<1>2. ASSUME NEW c \in Creatures PROVE Marked(c)' /\ Called(c)' /\ Counted(c)' /\ Served(c)'
  <2>1. Marked(c) /\ Called(c) /\ Counted(c) /\ Served(c)
    BY CreatureIs
  <2>2. C!Listings(c)' = C!Listings(c)
    BY DEF C!Listings, C!Indices
  <2>3. Listed(c)' = Listed(c)
    BY <2>2 DEF Listed
  <2>4. QED BY <2>1, <2>2, <2>3 DEF Marked, Called, Counted, Served
<1>3. looping' => \A c \in toVisit' : c \in vectors'[last']
  BY DEF CheckInv
<1>4. QED BY <1>1, <1>2, <1>3 DEF CheckInv

LEMMA CheckInvNext ==
    ASSUME C!CreaturesAssumption, CheckInv, [C!Next]_(C!creatureVars)
    PROVE  CheckInv'
<1>1. CASE UNCHANGED C!creatureVars
  BY <1>1, CheckInvStutters
<1>2. ASSUME C!World PROVE CheckInv'
  <2>1. ASSUME NEW c \in Creatures, C!Place(c) PROVE CheckInv'
    BY <2>1, PlaceStep
  <2>2. ASSUME NEW c \in Creatures, C!Look(c) \/ C!Kill(c) PROVE CheckInv'
    BY <2>2, LookStep
  <2>3. ASSUME NEW c \in Creatures, C!DestroySummons(c) PROVE CheckInv'
    BY <2>3, DestroyStep
  <2>4. ASSUME NEW c \in Creatures, C!Remove(c) PROVE CheckInv'
    BY <2>4, RemoveStep
  <2>5. ASSUME NEW c \in Creatures, NEW m \in Creatures, C!Summon(c, m) PROVE CheckInv'
    BY <2>5, PlaceStep
  <2>6. ASSUME NEW c \in Creatures, NEW m \in Creatures, C!Convince(c, m) PROVE CheckInv'
    BY <2>6, ConvinceStep
  <2>7. ASSUME C!WalkCleanup PROVE CheckInv'
    BY <2>7, CleanupStep DEF C!WalkCleanup, C!visits
  <2>8. QED BY <1>2, <2>1, <2>2, <2>3, <2>4, <2>5, <2>6, <2>7 DEF C!World
<1>3. ASSUME C!Loop PROVE CheckInv'
  <2>1. ASSUME C!EndCheck PROVE CheckInv'
    BY <2>1, CleanupStep DEF C!EndCheck
  <2>2. ASSUME NEW c \in Creatures, C!Leave(c) PROVE CheckInv'
    BY <2>2, LeaveListStep
  <2>3. ASSUME NEW c \in Creatures, C!Think(c) PROVE CheckInv'
    BY <2>3, ThinkStep
  <2>4. ASSUME NEW c \in Creatures, C!MonsterDies(c) PROVE CheckInv'
    BY <2>4, MonsterDiesStep
  <2>5. ASSUME NEW c \in Creatures, C!PlayerDies(c) PROVE CheckInv'
    BY <2>5, PlayerDiesStep
  <2>6. QED BY <1>3, <2>1, <2>2, <2>3, <2>4, <2>5, BeginCheckStep DEF C!Loop
<1>4. QED BY <1>1, <1>2, <1>3 DEF C!Next

LEMMA CheckInvImplies ==
    ASSUME C!CreaturesAssumption, CheckInv
    PROVE  C!ChecksWhole
<1> SUFFICES ASSUME NEW c \in Creatures
             PROVE  /\ refs[c] = C!Holders(c)
                    /\ (stage[c] \in {"new", "deleted"}) = (refs[c] = 0)
                    /\ c \in toAdd \/ C!Listings(c) # {} => checkVector[c] # -1
                    /\ checkVector[c] # -1 => (c \in toAdd /\ C!Listings(c) = {})
                                              \/ (c \notin toAdd /\ C!Listings(c) = {checkVector[c]})
                    /\ c \in checked => c \in C!Placed
                    /\ c \in C!Placed /\ c \notin isIdle \ dying => c \in checked /\ checkVector[c] # -1
  BY DEF C!ChecksWhole
<1>1. Marked(c) /\ Called(c) /\ Counted(c)
  BY CreatureIs
<1>2. c \in C!Placed <=> stage[c] = "placed"
  BY DEF C!Placed
<1>3. Cardinality(C!Listings(c)) = Flag(C!Listings(c) # {})
  <2>1. CASE C!Listings(c) = {}
    BY <2>1, FS_EmptySet DEF Flag
  <2>2. CASE C!Listings(c) # {}
    <3>1. C!Listings(c) = {checkVector[c]}
      BY <1>1, <2>2 DEF Marked
    <3>2. Cardinality({checkVector[c]}) = 1
      BY FS_Singleton
    <3>3. QED BY <2>2, <3>1, <3>2 DEF Flag
  <2>3. QED BY <2>1, <2>2
<1>4. Cardinality(C!Bound({c})) = Flag(master[c] # Nobody)
  <2>1. CASE master[c] = Nobody
    <3>1. C!Bound({c}) = {}
      BY <2>1 DEF C!Bound
    <3>2. QED BY <2>1, <3>1, FS_EmptySet DEF Flag
  <2>2. CASE master[c] # Nobody
    <3>1. C!Bound({c}) = {c}
      BY <2>2 DEF C!Bound
    <3>2. Cardinality({c}) = 1
      BY FS_Singleton
    <3>3. QED BY <2>2, <3>1, <3>2 DEF Flag
  <2>3. QED BY <2>1, <2>2
<1>5. C!Holders(c) = Flag(stage[c] = "placed") + Flag(c \in toAdd) + Flag(C!Listings(c) # {})
                     + Flag(master[c] # Nobody) + released[c]
  BY <1>2, <1>3, <1>4 DEF C!Holders, C!Cardinality, Cardinality, Flag
<1>6. refs[c] = C!Holders(c)
  <2>1. released[c] \in Nat
    BY CreatureIs
  <2>2. refs[c] = Flag(stage[c] = "placed") + (Flag(c \in toAdd) + Flag(C!Listings(c) # {}))
                    + Flag(master[c] # Nobody) + released[c]
    BY <1>1 DEF Counted, Listed
  <2>3. /\ Flag(stage[c] = "placed") \in Int /\ Flag(c \in toAdd) \in Int /\ Flag(C!Listings(c) # {}) \in Int
        /\ Flag(master[c] # Nobody) \in Int
    BY DEF Flag
  <2>4. QED BY <1>5, <2>1, <2>2, <2>3
<1>7. (stage[c] \in {"new", "deleted"}) = (refs[c] = 0)
  BY <1>1 DEF Counted
<1>8. /\ c \in toAdd \/ C!Listings(c) # {} => checkVector[c] # -1
      /\ checkVector[c] # -1 => (c \in toAdd /\ C!Listings(c) = {})
                                \/ (c \notin toAdd /\ C!Listings(c) = {checkVector[c]})
  BY <1>1 DEF Marked
<1>9. /\ c \in checked => c \in C!Placed
      /\ c \in C!Placed /\ c \notin isIdle \ dying => c \in checked /\ checkVector[c] # -1
  BY <1>1, <1>2 DEF Called
<1>10. QED BY <1>6, <1>7, <1>8, <1>9

-----------------------------------------------------------------------------
(* Items that decay: sums over the buckets, what startDecay makes of an    *)
(* item, and where its references are.  First, how often lists have it     *)

DecayBucketsAre == DecayBuckets \in Nat /\ DecayBuckets > 1

Sums(t, first, counts) ==
    /\ t \in [0..DecayBuckets -> Int] /\ t[0] = first /\ D!Total(first, counts) = t[DecayBuckets]
    /\ \A b \in 0..DecayBuckets-1 : t[b + 1] = t[b] + counts[b]

LEMMA TotalIs ==
    ASSUME DecayBucketsAre, NEW first \in Int, NEW counts \in [0..DecayBuckets-1 -> Int]
    PROVE  \E t : Sums(t, first, counts)
<1> USE DEF DecayBucketsAre
<1> DEFINE upTo[b \in 0..DecayBuckets] == IF b = 0 THEN first ELSE upTo[b - 1] + counts[b - 1]
           Is(f) == f = [b \in 0..DecayBuckets |-> IF b = 0 THEN first ELSE f[b - 1] + counts[b - 1]]
           g == [p \in (0..DecayBuckets-1) \X Int |-> p[2] + counts[p[1]]]
<1>1. g \in [(0..DecayBuckets-1) \X Int -> Int]
  OBVIOUS
<1>2. \A n \in 0..DecayBuckets-1, x \in Int : g[<<n, x>>] = x + counts[n]
  OBVIOUS
<1> HIDE DEF g
<1>3. PICK t \in [0..DecayBuckets -> Int] : t[0] = first /\ \A n \in 0..DecayBuckets-1 : t[n + 1] = g[<<n, t[n]>>]
  <2>1. DecayBuckets \in Nat /\ first \in Int /\ Advances(g, DecayBuckets, Int)
    BY <1>1 DEF Advances
  <2>2. \E t : Follows(t, DecayBuckets, Int, first, g)
    BY <2>1, Recursion
  <2>3. QED BY <2>2 DEF Follows
<1>4. ASSUME NEW n \in 0..DecayBuckets-1 PROVE t[n + 1] = t[n] + counts[n]
  <2>1. n \in 0..DecayBuckets /\ t[n] \in Int
    OBVIOUS
  <2>2. QED BY <1>2, <1>3, <2>1
<1>5. Is(t)
  <2>1. ASSUME NEW b \in 0..DecayBuckets PROVE t[b] = IF b = 0 THEN first ELSE t[b - 1] + counts[b - 1]
    <3>1. b # 0 => b - 1 \in 0..DecayBuckets-1 /\ (b - 1) + 1 = b
      OBVIOUS
    <3>2. QED BY <1>3, <1>4, <3>1
  <2>2. QED BY <1>3, <2>1
<1>6. Is(upTo)
  <2>1. upTo = CHOOSE f : Is(f)
    OBVIOUS
  <2>2. QED BY <1>5, <2>1
<1>7. D!Total(first, counts) = upTo[DecayBuckets]
  BY DEF D!Total
<1> HIDE DEF upTo
<1>8. upTo[0] = first
  BY <1>6
<1>9. ASSUME NEW n \in 0..DecayBuckets-1 PROVE upTo[n + 1] = upTo[n] + counts[n]
  <2>1. n + 1 \in 0..DecayBuckets /\ n + 1 # 0 /\ (n + 1) - 1 = n
    OBVIOUS
  <2>2. QED BY <1>6, <2>1
<1>10. \A n \in Nat : n <= DecayBuckets => upTo[n] = t[n]
  <2> DEFINE U == {n \in Nat : n <= DecayBuckets => upTo[n] = t[n]}
  <2>1. 0 \in U
    BY <1>3, <1>8
  <2>2. ASSUME NEW n \in Nat, n \in U PROVE n + 1 \in U
    <3>1. CASE n + 1 <= DecayBuckets
      <4>1. n \in 0..DecayBuckets-1 /\ n <= DecayBuckets
        BY <3>1
      <4>2. QED BY <1>4, <1>9, <2>2, <4>1
    <3>2. QED BY <3>1
  <2> HIDE DEF U
  <2>3. \A n \in Nat : n \in U
    BY <2>1, <2>2, SetOfNaturals
  <2>4. QED BY <2>3 DEF U
<1>11. D!Total(first, counts) = t[DecayBuckets]
  BY <1>7, <1>10
<1>12. QED BY <1>3, <1>4, <1>11 DEF Sums

\* One bucket more or less.
LEMMA TotalDiffers ==
    ASSUME DecayBucketsAre, NEW first \in Int, NEW counts \in [0..DecayBuckets-1 -> Int],
           NEW one \in Int, NEW others \in [0..DecayBuckets-1 -> Int],
           NEW x \in 0..DecayBuckets-1, \A b \in 0..DecayBuckets-1 : b # x => others[b] = counts[b]
    PROVE  D!Total(one, others) = D!Total(first, counts) + (one - first) + (others[x] - counts[x])
<1> USE DEF DecayBucketsAre
<1>1. PICK t : /\ t \in [0..DecayBuckets -> Int] /\ t[0] = first /\ D!Total(first, counts) = t[DecayBuckets]
                 /\ \A b \in 0..DecayBuckets-1 : t[b + 1] = t[b] + counts[b]
  BY TotalIs DEF Sums
<1>2. PICK s : /\ s \in [0..DecayBuckets -> Int] /\ s[0] = one /\ D!Total(one, others) = s[DecayBuckets]
                 /\ \A b \in 0..DecayBuckets-1 : s[b + 1] = s[b] + others[b]
  <2>1. \E s : Sums(s, one, others)
    BY TotalIs
  <2>2. QED BY <2>1 DEF Sums
<1> DEFINE d == others[x] - counts[x]
           e == one - first
           Grown(n) == IF n > x THEN e + d ELSE e
           U == {n \in Nat : n <= DecayBuckets => s[n] = t[n] + Grown(n)}
<1>3. 0 \in U
  BY <1>1, <1>2
<1>0. d \in Int /\ e \in Int /\ others[x] = counts[x] + d
  <2>1. others[x] \in Int /\ counts[x] \in Int
    OBVIOUS
  <2>2. QED BY <2>1
<1> HIDE DEF d, e
<1>4. ASSUME NEW n \in Nat, n \in U PROVE n + 1 \in U
  <2> SUFFICES ASSUME n + 1 <= DecayBuckets PROVE s[n + 1] = t[n + 1] + Grown(n + 1)
    OBVIOUS
  <2>1. n \in 0..DecayBuckets-1 /\ n \in 0..DecayBuckets /\ n <= DecayBuckets
    OBVIOUS
  <2>0. s[n] = t[n] + Grown(n)
    BY <1>4, <2>1
  <2>2. s[n + 1] = s[n] + others[n] /\ t[n + 1] = t[n] + counts[n]
    BY <1>1, <1>2, <2>1
  <2>3. s[n] \in Int /\ t[n] \in Int /\ others[n] \in Int /\ counts[n] \in Int
    BY <1>1, <1>2, <2>1
  <2> DEFINE tn == t[n]
             cn == counts[n]
  <2>9. tn \in Int /\ cn \in Int
    BY <2>3
  <2>10. s[n + 1] = s[n] + others[n] /\ t[n + 1] = tn + cn
    BY <2>2
  <2>4. CASE n = x
    <3>1. Grown(n) = e /\ Grown(n + 1) = e + d
      BY <2>4
    <3>2. s[n] = tn + e /\ others[n] = cn + d
      BY <1>0, <2>0, <2>4, <3>1
    <3> HIDE DEF tn, cn
    <3>3. s[n + 1] = t[n + 1] + (e + d)
      BY <1>0, <2>9, <2>10, <3>2
    <3>4. QED BY <3>1, <3>3
  <2>5. CASE n # x
    <3>1. others[n] = counts[n]
      BY <2>1, <2>5
    <3>2. CASE n > x
      <4>1. Grown(n) = e + d /\ Grown(n + 1) = e + d
        BY <3>2
      <4>2. s[n] = tn + (e + d) /\ others[n] = cn
        BY <2>0, <3>1, <4>1
      <4> HIDE DEF tn, cn
      <4>3. s[n + 1] = t[n + 1] + (e + d)
        BY <1>0, <2>9, <2>10, <4>2
      <4>4. QED BY <4>1, <4>3
    <3>3. CASE ~(n > x)
      <4>1. Grown(n) = e /\ Grown(n + 1) = e
        BY <2>5, <3>3
      <4>2. s[n] = tn + e /\ others[n] = cn
        BY <2>0, <3>1, <4>1
      <4> HIDE DEF tn, cn
      <4>3. s[n + 1] = t[n + 1] + e
        BY <1>0, <2>9, <2>10, <4>2
      <4>4. QED BY <4>1, <4>3
    <3>4. QED BY <3>2, <3>3
  <2>6. QED BY <2>4, <2>5
<1> HIDE DEF U
<1>5. \A n \in Nat : n \in U
  BY <1>3, <1>4, SetOfNaturals
<1>6. s[DecayBuckets] = t[DecayBuckets] + Grown(DecayBuckets)
  BY <1>5 DEF U
<1>7. Grown(DecayBuckets) = e + d /\ t[DecayBuckets] \in Int
  BY <1>1
<1> HIDE DEF Grown
<1>8. s[DecayBuckets] = t[DecayBuckets] + e + d
  BY <1>0, <1>6, <1>7
<1>9. QED BY <1>1, <1>2, <1>8 DEF d, e

LEMMA TotalCounts ==
    ASSUME DecayBucketsAre, NEW first \in Nat, NEW counts \in [0..DecayBuckets-1 -> Nat]
    PROVE  /\ D!Total(first, counts) \in Nat /\ D!Total(first, counts) >= first
           /\ \A b \in 0..DecayBuckets-1 : D!Total(first, counts) >= counts[b]
<1> USE DEF DecayBucketsAre
<1>1. counts \in [0..DecayBuckets-1 -> Int] /\ first \in Int
  OBVIOUS
<1>2. PICK t : /\ t \in [0..DecayBuckets -> Int] /\ t[0] = first /\ D!Total(first, counts) = t[DecayBuckets]
                 /\ \A b \in 0..DecayBuckets-1 : t[b + 1] = t[b] + counts[b]
  <2>1. \E t : Sums(t, first, counts)
    BY <1>1, TotalIs
  <2>2. QED BY <2>1 DEF Sums
<1> DEFINE Has(n) == t[n] >= first /\ \A b \in 0..n-1 : t[n] >= counts[b]
           U == {n \in Nat : n <= DecayBuckets => Has(n)}
<1>3. 0 \in U
  BY <1>2
<1>4. ASSUME NEW n \in Nat, n \in U PROVE n + 1 \in U
  <2> SUFFICES ASSUME n + 1 <= DecayBuckets PROVE Has(n + 1)
    OBVIOUS
  <2>1. n \in 0..DecayBuckets-1 /\ n \in 0..DecayBuckets /\ n <= DecayBuckets
    OBVIOUS
  <2>2. Has(n) /\ t[n + 1] = t[n] + counts[n] /\ counts[n] \in Nat /\ t[n] \in Int
    BY <1>2, <1>4, <2>1
  <2>3. t[n + 1] >= t[n] /\ t[n] >= first /\ t[n + 1] >= counts[n] /\ t[n + 1] \in Int
    BY <2>2
  <2>4. ASSUME NEW b \in 0..n PROVE t[n + 1] >= counts[b]
    <3>1. b = n \/ b \in 0..n-1
      OBVIOUS
    <3>2. b \in 0..DecayBuckets-1 /\ counts[b] \in Nat
      BY <2>1
    <3>3. QED BY <2>2, <2>3, <3>1, <3>2
  <2>5. QED BY <2>2, <2>3, <2>4
<1> HIDE DEF U
<1>5. \A n \in Nat : n \in U
  BY <1>3, <1>4, SetOfNaturals
<1>6. Has(DecayBuckets)
  BY <1>5 DEF U
<1>7. QED BY <1>2, <1>6

-----------------------------------------------------------------------------
(* What items become                                                       *)

LEMMA DecayKindsAre ==
    ASSUME D!DecayAssumption
    PROVE  /\ DecayBucketsAre
           /\ \A k \in DecayKinds : /\ decayTo[k] \in DecayKinds \cup {Nobody, Never}
                               /\ decayTime[k] \in 0..10 * DecayBuckets /\ stopTime[k] \in BOOLEAN
           /\ Cardinality(DecayKinds) \in Nat
<1>1. IsFiniteSet(DecayKinds)
  BY DEF D!DecayAssumption, D!IsFiniteSet, IsFiniteSet
<1>2. Cardinality(DecayKinds) \in Nat
  BY <1>1, FS_CardinalityType
<1>3. QED BY <1>2 DEF D!DecayAssumption, DecayBucketsAre

LEMMA SetIDIs ==
    ASSUME D!DecayAssumption, NEW o \in D!Bodies, NEW k \in DecayKinds
    PROVE  /\ D!SetID(o, k) \in D!Bodies
           /\ D!SetID(o, k).decaying => o.decaying /\ D!SetID(o, k).duration = o.duration
<1>1. decayTime[k] \in 0..10 * DecayBuckets /\ DecayBuckets \in Nat
  BY DecayKindsAre DEF DecayBucketsAre
<1>2. o.duration \in D!Times /\ o.decaying \in BOOLEAN
  BY DEF D!Bodies
<1>3. decayTime[k] \in D!Times /\ -1 \in D!Times
  BY <1>1 DEF D!Times
<1> DEFINE forgets == decayTime[k] = 0 /\ ~stopTime[k] /\ decayTo[k] = Never
           renews == decayTime[k] > 0 /\ (~stopTime[o.kind] \/ o.duration = -1)
           dec == o.decaying /\ ~forgets /\ ~renews
           dur == IF forgets THEN -1 ELSE IF renews THEN decayTime[k] ELSE o.duration
<1>4. D!SetID(o, k) = [kind |-> k, decaying |-> dec, duration |-> dur]
  BY DEF D!SetID
<1>5. forgets \in BOOLEAN /\ renews \in BOOLEAN
  OBVIOUS
<1> HIDE DEF forgets, renews
<1>6. dec => o.decaying /\ dur = o.duration
  OBVIOUS
<1>7. dur \in D!Times
  BY <1>2, <1>3
<1>8. dec \in BOOLEAN
  OBVIOUS
<1> HIDE DEF dec, dur
<1>9. D!SetID(o, k) \in D!Bodies
  BY <1>4, <1>7, <1>8 DEF D!Bodies
<1>10. D!SetID(o, k).decaying = dec /\ D!SetID(o, k).duration = dur
  BY <1>4, <1>8
<1>11. D!SetID(o, k).decaying => o.decaying /\ D!SetID(o, k).duration = o.duration
  BY <1>6, <1>10, Zenon
<1>12. QED BY <1>9, <1>11

LEMMA TurnedIs ==
    ASSUME D!DecayAssumption, NEW o \in D!Bodies
    PROVE  D!Turned(o) \in D!Bodies /\ (o.decaying => D!Turned(o) = o) /\ (D!Turned(o).decaying => D!Turned(o) = o)
<1>1. CASE D!IsOver(o) /\ decayTo[o.kind] # Nobody
  <2>1. o.kind \in DecayKinds /\ decayTo[o.kind] # Never /\ ~o.decaying
    BY <1>1 DEF D!IsOver, D!CanDecay, D!Bodies
  <2>2. decayTo[o.kind] \in DecayKinds
    BY <1>1, <2>1, DecayKindsAre
  <2>3. D!Turned(o) = D!SetID(o, decayTo[o.kind])
    BY <1>1 DEF D!Turned
  <2>4. QED BY <2>1, <2>2, <2>3, SetIDIs
<1>2. CASE ~(D!IsOver(o) /\ decayTo[o.kind] # Nobody)
  BY <1>2 DEF D!Turned
<1>3. QED BY <1>1, <1>2

LEMMA StartedIs ==
    ASSUME D!DecayAssumption, NEW o \in D!Bodies
    PROVE  /\ D!Started(o).last \in D!Bodies /\ D!Started(o).vanishes \in BOOLEAN /\ D!Started(o).listed \in BOOLEAN
           /\ D!Started(o).last.decaying => D!Started(o).last = o
           /\ D!Started(o).vanishes => D!Started(o).listed
<1> DEFINE N == Cardinality(DecayKinds)
           next[n \in 0..N] == IF n = 0 THEN o ELSE D!Turned(next[n - 1])
           Is(f) == f = [n \in 0..N |-> IF n = 0 THEN o ELSE D!Turned(f[n - 1])]
           g == [p \in (0..N-1) \X D!Bodies |-> D!Turned(p[2])]
<1>1. N \in Nat
  BY DecayKindsAre
<1> HIDE DEF N
<1>2. Advances(g, N, D!Bodies)
  <2>1. \A p \in (0..N-1) \X D!Bodies : D!Turned(p[2]) \in D!Bodies
    BY TurnedIs
  <2>2. QED BY <2>1 DEF Advances
<1>3. \A n \in 0..N-1, b \in D!Bodies : g[<<n, b>>] = D!Turned(b)
  OBVIOUS
<1> HIDE DEF g
<1>4. PICK t : Follows(t, N, D!Bodies, o, g)
  BY <1>1, <1>2, Recursion
<1>5. t \in [0..N -> D!Bodies] /\ t[0] = o /\ \A n \in 0..N-1 : t[n + 1] = g[<<n, t[n]>>]
  BY <1>4 DEF Follows
<1>6. Is(t)
  <2>1. ASSUME NEW n \in 0..N PROVE t[n] = IF n = 0 THEN o ELSE D!Turned(t[n - 1])
    <3>1. CASE n = 0
      BY <1>5, <3>1
    <3>2. CASE n # 0
      <4>1. n - 1 \in 0..N-1 /\ (n - 1) + 1 = n /\ n - 1 \in 0..N
        BY <1>1, <3>2
      <4>2. t[n - 1] \in D!Bodies /\ t[n] = g[<<n - 1, t[n - 1]>>]
        BY <1>5, <4>1
      <4>3. QED BY <1>3, <3>2, <4>1, <4>2
    <3>3. QED BY <3>1, <3>2
  <2>2. QED BY <1>5, <2>1
<1>7. Is(next)
  <2>1. next = CHOOSE f : Is(f)
    OBVIOUS
  <2>2. QED BY <1>6, <2>1
<1>8. D!Started(o) = [last |-> next[N], vanishes |-> D!IsOver(next[N]),
                    listed |-> D!CanDecay(next[N]) /\ ~next[N].decaying]
  BY DEF D!Started, N, D!Cardinality, Cardinality
<1> HIDE DEF next
<1> DEFINE Same(p) == p \in D!Bodies /\ (p.decaying => p = o)
           U == {n \in Nat : n <= N => Same(next[n])}
<1>9. 0 \in U
  BY <1>1, <1>7
<1>10. ASSUME NEW n \in Nat, n \in U PROVE n + 1 \in U
  <2> SUFFICES ASSUME n + 1 <= N PROVE Same(next[n + 1])
    OBVIOUS
  <2>1. n + 1 \in 0..N /\ n + 1 # 0 /\ (n + 1) - 1 = n /\ n <= N
    BY <1>1
  <2>2. next[n + 1] = D!Turned(next[n]) /\ Same(next[n])
    BY <1>7, <1>10, <2>1
  <2>3. QED BY <2>2, TurnedIs
<1> HIDE DEF U
<1>11. \A n \in Nat : n \in U
  BY <1>9, <1>10, SetOfNaturals
<1>12. Same(next[N])
  BY <1>1, <1>11 DEF U
<1> DEFINE van == D!IsOver(next[N])
           lis == D!CanDecay(next[N]) /\ ~next[N].decaying
<1>13. van \in BOOLEAN /\ lis \in BOOLEAN /\ (van => lis)
  BY DEF D!IsOver, D!CanDecay
<1>14. D!Started(o) = [last |-> next[N], vanishes |-> van, listed |-> lis]
  BY <1>8
<1> HIDE DEF van, lis, Same
<1>15. D!Started(o).last = next[N] /\ D!Started(o).vanishes = van /\ D!Started(o).listed = lis
  BY <1>13, <1>14
<1>16. Same(D!Started(o).last)
  BY <1>12, <1>15
<1>17. QED BY <1>13, <1>15, <1>16 DEF Same

-----------------------------------------------------------------------------
(* The inductive invariant                                                 *)

ItemHeld(i) ==
    /\ itemRefs[i] = Flag(itemStage[i] = "placed") + D!Listings(i) + itemReleased[i]
    /\ itemStage[i] \in {"new", "deleted"} <=> itemRefs[i] = 0
ItemLooked(i) == decayVisit[i] <= decayItems[D!Bucket][i]
ItemTimed(i) == body[i].decaying /\ body[i].duration > 0 /\ itemStage[i] = "placed" => D!Listings(i) > 0

DecayInv == D!TypeOK /\ \A i \in DecayItems : ItemHeld(i) /\ ItemLooked(i) /\ ItemTimed(i)

ItemStages == {"new", "placed", "removed", "deleted"}
BucketLists == [0..DecayBuckets-1 -> [DecayItems -> Nat]]
ItemCounts == [DecayItems -> Nat]

LEMMA DecayTypes ==
    D!TypeOK <=> /\ body \in [DecayItems -> D!Bodies] /\ itemStage \in [DecayItems -> ItemStages]
               /\ itemRefs \in ItemCounts /\ toDecay \in ItemCounts /\ decayVisit \in ItemCounts /\ itemReleased \in ItemCounts
               /\ decayItems \in BucketLists
               /\ lastBucket \in 0..DecayBuckets-1 /\ decayLooping \in BOOLEAN
BY DEF D!TypeOK, ItemStages, BucketLists, ItemCounts

LEMMA DecayTypesNext ==
    D!TypeOK' <=> /\ body' \in [DecayItems -> D!Bodies] /\ itemStage' \in [DecayItems -> ItemStages]
                /\ itemRefs' \in ItemCounts /\ toDecay' \in ItemCounts /\ decayVisit' \in ItemCounts /\ itemReleased' \in ItemCounts
                /\ decayItems' \in BucketLists
                /\ lastBucket' \in 0..DecayBuckets-1 /\ decayLooping' \in BOOLEAN
BY DEF D!TypeOK, ItemStages, BucketLists, ItemCounts, D!Bodies, D!Times

LEMMA ColumnIs ==
    ASSUME DecayBucketsAre, NEW d \in BucketLists, NEW i \in DecayItems
    PROVE  /\ [b \in 0..DecayBuckets-1 |-> d[b][i]] \in [0..DecayBuckets-1 -> Nat]
           /\ [b \in 0..DecayBuckets-1 |-> d[b][i]] \in [0..DecayBuckets-1 -> Int]
<1>1. \A b \in 0..DecayBuckets-1 : d[b][i] \in Nat /\ d[b][i] \in Int
  <2>1. \A b \in 0..DecayBuckets-1 : d[b] \in [DecayItems -> Nat]
    BY DEF BucketLists
  <2>2. QED BY <2>1
<1>2. QED BY <1>1

LEMMA ListingsAre ==
    ASSUME DecayBucketsAre, D!TypeOK, NEW i \in DecayItems
    PROVE  /\ D!Listings(i) \in Nat /\ D!Listings(i) >= toDecay[i]
           /\ \A b \in 0..DecayBuckets-1 : D!Listings(i) >= decayItems[b][i] /\ decayItems[b][i] \in Nat
<1> DEFINE column == [b \in 0..DecayBuckets-1 |-> decayItems[b][i]]
<1>1. decayItems \in BucketLists /\ toDecay[i] \in Nat
  BY DecayTypes DEF ItemCounts
<1>2. column \in [0..DecayBuckets-1 -> Nat]
  BY <1>1, ColumnIs
<1>3. \A b \in 0..DecayBuckets-1 : column[b] = decayItems[b][i]
  OBVIOUS
<1>4. D!Listings(i) = D!Total(toDecay[i], column)
  BY DEF D!Listings
<1> HIDE DEF column
<1>5. /\ D!Total(toDecay[i], column) \in Nat /\ D!Total(toDecay[i], column) >= toDecay[i]
      /\ \A b \in 0..DecayBuckets-1 : D!Total(toDecay[i], column) >= column[b]
  BY <1>1, <1>2, TotalCounts
<1>6. \A b \in 0..DecayBuckets-1 : column[b] \in Nat
  BY <1>2
<1>7. QED BY <1>3, <1>4, <1>5, <1>6

LEMMA ListingsWillBe ==
    ASSUME DecayBucketsAre, D!TypeOK', NEW i \in DecayItems
    PROVE  /\ D!Listings(i)' \in Nat /\ D!Listings(i)' >= toDecay'[i]
           /\ \A b \in 0..DecayBuckets-1 : D!Listings(i)' >= decayItems'[b][i] /\ decayItems'[b][i] \in Nat
<1> DEFINE column == [b \in 0..DecayBuckets-1 |-> decayItems'[b][i]]
<1>1. decayItems' \in BucketLists /\ toDecay'[i] \in Nat
  BY DecayTypesNext DEF ItemCounts
<1>2. column \in [0..DecayBuckets-1 -> Nat]
  BY <1>1, ColumnIs
<1>3. \A b \in 0..DecayBuckets-1 : column[b] = decayItems'[b][i]
  OBVIOUS
<1>4. D!Listings(i)' = D!Total(toDecay'[i], column)
  BY DEF D!Listings, D!Total
<1> HIDE DEF column
<1>5. /\ D!Total(toDecay'[i], column) \in Nat /\ D!Total(toDecay'[i], column) >= toDecay'[i]
      /\ \A b \in 0..DecayBuckets-1 : D!Total(toDecay'[i], column) >= column[b]
  BY <1>1, <1>2, TotalCounts
<1>6. \A b \in 0..DecayBuckets-1 : column[b] \in Nat
  BY <1>2
<1>7. QED BY <1>3, <1>4, <1>5, <1>6

\* A step at one bucket, or at the list of the new ones.
LEMMA ListingsDiffer ==
    ASSUME DecayBucketsAre, NEW i \in DecayItems, toDecay \in ItemCounts, toDecay' \in ItemCounts,
           decayItems \in BucketLists, decayItems' \in BucketLists, NEW x \in 0..DecayBuckets-1,
           \A b \in 0..DecayBuckets-1 : b # x => decayItems'[b][i] = decayItems[b][i]
    PROVE  D!Listings(i)' = D!Listings(i) + (toDecay'[i] - toDecay[i]) + (decayItems'[x][i] - decayItems[x][i])
<1> DEFINE were == [b \in 0..DecayBuckets-1 |-> decayItems[b][i]]
           are == [b \in 0..DecayBuckets-1 |-> decayItems'[b][i]]
<1>1. were \in [0..DecayBuckets-1 -> Int] /\ are \in [0..DecayBuckets-1 -> Int]
  BY ColumnIs
<1>2. toDecay[i] \in Int /\ toDecay'[i] \in Int
  BY DEF ItemCounts
<1>3. /\ \A b \in 0..DecayBuckets-1 : b # x => are[b] = were[b]
      /\ are[x] = decayItems'[x][i] /\ were[x] = decayItems[x][i]
  OBVIOUS
<1>4. D!Listings(i) = D!Total(toDecay[i], were)
  BY DEF D!Listings
<1>5. D!Listings(i)' = D!Total(toDecay'[i], are)
  BY DEF D!Listings, D!Total
<1> HIDE DEF were, are
<1>6. D!Total(toDecay'[i], are) = D!Total(toDecay[i], were) + (toDecay'[i] - toDecay[i]) + (are[x] - were[x])
  BY <1>1, <1>2, <1>3, TotalDiffers
<1>7. QED BY <1>3, <1>4, <1>5, <1>6

\* From one bucket to another.
Moves(i, y, x) ==
    /\ y \in 0..DecayBuckets-1 /\ x \in 0..DecayBuckets-1 /\ x # y
    /\ decayItems'[y][i] = decayItems[y][i] - 1 /\ decayItems'[x][i] = decayItems[x][i] + 1
    /\ \A b \in 0..DecayBuckets-1 : b # x /\ b # y => decayItems'[b][i] = decayItems[b][i]

LEMMA ListingsMove ==
    ASSUME DecayBucketsAre, NEW i \in DecayItems, toDecay \in ItemCounts, toDecay' = toDecay,
           decayItems \in BucketLists, decayItems' \in BucketLists, NEW y, NEW x, Moves(i, y, x)
    PROVE  D!Listings(i)' = D!Listings(i)
<1> USE DEF Moves
<1> DEFINE were == [b \in 0..DecayBuckets-1 |-> decayItems[b][i]]
           are == [b \in 0..DecayBuckets-1 |-> decayItems'[b][i]]
           between == [were EXCEPT ![y] = are[y]]
<1>1. were \in [0..DecayBuckets-1 -> Int] /\ are \in [0..DecayBuckets-1 -> Int]
  BY ColumnIs
<1>2. toDecay[i] \in Int
  BY DEF ItemCounts
<1>3. \A b \in 0..DecayBuckets-1 : were[b] = decayItems[b][i] /\ are[b] = decayItems'[b][i]
  OBVIOUS
<1>4. D!Listings(i) = D!Total(toDecay[i], were)
  BY DEF D!Listings
<1>5. D!Listings(i)' = D!Total(toDecay[i], are)
  BY DEF D!Listings, D!Total
<1> HIDE DEF were, are
<1>6. /\ between \in [0..DecayBuckets-1 -> Int] /\ between[y] = are[y] /\ between[x] = were[x]
      /\ \A b \in 0..DecayBuckets-1 : b # y => between[b] = were[b]
      /\ \A b \in 0..DecayBuckets-1 : b # x => are[b] = between[b]
  BY <1>1, <1>3
<1> HIDE DEF between
<1>7. D!Total(toDecay[i], between) = D!Total(toDecay[i], were) + (toDecay[i] - toDecay[i]) + (between[y] - were[y])
  BY <1>1, <1>2, <1>6, TotalDiffers
<1>8. D!Total(toDecay[i], are) = D!Total(toDecay[i], between) + (toDecay[i] - toDecay[i]) + (are[x] - between[x])
  BY <1>1, <1>2, <1>6, TotalDiffers
<1>9. D!Total(toDecay[i], were) \in Int
  <2>1. \E t : Sums(t, toDecay[i], were)
    BY <1>1, <1>2, TotalIs
  <2>2. QED BY <2>1 DEF Sums, DecayBucketsAre
<1>10. were[x] \in Int /\ were[y] \in Int /\ are[y] = were[y] - 1 /\ are[x] = were[x] + 1
  BY <1>1, <1>3
<1>11. D!Total(toDecay[i], between) = D!Total(toDecay[i], were) - 1
  BY <1>2, <1>6, <1>7, <1>9, <1>10
<1>12. QED BY <1>2, <1>4, <1>5, <1>6, <1>8, <1>9, <1>10, <1>11

\* Nothing listed.
LEMMA EmptyListings ==
    ASSUME DecayBucketsAre, NEW i \in DecayItems, toDecay[i] = 0, \A b \in 0..DecayBuckets-1 : decayItems[b][i] = 0
    PROVE  D!Listings(i) = 0
<1> DEFINE column == [b \in 0..DecayBuckets-1 |-> decayItems[b][i]]
<1>1. column \in [0..DecayBuckets-1 -> Int] /\ \A b \in 0..DecayBuckets-1 : column[b] = 0
  OBVIOUS
<1>2. D!Listings(i) = D!Total(0, column)
  BY DEF D!Listings
<1> HIDE DEF column
<1>3. PICK t : /\ t \in [0..DecayBuckets -> Int] /\ t[0] = 0 /\ D!Total(0, column) = t[DecayBuckets]
                 /\ \A b \in 0..DecayBuckets-1 : t[b + 1] = t[b] + column[b]
  <2>1. 0 \in Int
    OBVIOUS
  <2>2. \E t : Sums(t, 0, column)
    BY <1>1, <2>1, TotalIs
  <2>3. QED BY <2>2 DEF Sums
<1> DEFINE U == {n \in Nat : n <= DecayBuckets => t[n] = 0}
<1>4. 0 \in U
  BY <1>3
<1>5. ASSUME NEW n \in Nat, n \in U PROVE n + 1 \in U
  <2> SUFFICES ASSUME n + 1 <= DecayBuckets PROVE t[n + 1] = 0
    OBVIOUS
  <2>1. n \in 0..DecayBuckets-1 /\ n <= DecayBuckets
    BY DEF DecayBucketsAre
  <2>2. t[n] = 0 /\ column[n] = 0 /\ t[n + 1] = t[n] + column[n]
    BY <1>1, <1>3, <1>5, <2>1
  <2>3. QED BY <2>2
<1> HIDE DEF U
<1>6. \A n \in Nat : n \in U
  BY <1>4, <1>5, SetOfNaturals
<1>7. QED BY <1>2, <1>3, <1>6 DEF U, DecayBucketsAre

\* Items that a step leaves alone.
LEMMA OtherItems ==
    ASSUME D!DecayAssumption, DecayInv, D!TypeOK', NEW j \in DecayItems,
           body'[j] = body[j], itemStage'[j] = itemStage[j], itemRefs'[j] = itemRefs[j], itemReleased'[j] = itemReleased[j],
           toDecay'[j] = toDecay[j], decayVisit'[j] = decayVisit[j], lastBucket' = lastBucket,
           \A b \in 0..DecayBuckets-1 : decayItems'[b][j] = decayItems[b][j]
    PROVE  ItemHeld(j)' /\ ItemLooked(j)' /\ ItemTimed(j)'
<1>1. ItemHeld(j) /\ ItemLooked(j) /\ ItemTimed(j) /\ D!TypeOK
  BY DEF DecayInv
<1>2. DecayBucketsAre /\ toDecay \in ItemCounts /\ toDecay' \in ItemCounts /\ decayItems \in BucketLists /\ decayItems' \in BucketLists
  BY <1>1, DecayTypes, DecayTypesNext, DecayKindsAre
<1>3. lastBucket \in 0..DecayBuckets-1
  BY <1>1, DecayTypes
<1>4. D!Listings(j)' = D!Listings(j) + (toDecay'[j] - toDecay[j]) + (decayItems'[lastBucket][j] - decayItems[lastBucket][j])
  BY <1>2, <1>3, ListingsDiffer
<1>5. D!Listings(j) \in Nat /\ toDecay[j] \in Nat /\ decayItems[lastBucket][j] \in Nat
  BY <1>1, <1>2, <1>3, ListingsAre DEF ItemCounts
<1>6. D!Listings(j)' = D!Listings(j)
  BY <1>3, <1>4, <1>5
<1>7. D!Bucket' = D!Bucket /\ D!Bucket \in 0..DecayBuckets-1
  BY <1>2, <1>3 DEF D!Bucket, DecayBucketsAre
<1>8. ItemHeld(j)'
  BY <1>1, <1>6 DEF ItemHeld
<1>9. ItemLooked(j)'
  BY <1>1, <1>7 DEF ItemLooked
<1>10. ItemTimed(j)'
  BY <1>1, <1>6 DEF ItemTimed
<1>11. QED BY <1>8, <1>9, <1>10

\* What startDecay leaves of an item and of its references.
LEMMA DecayStartIs ==
    ASSUME D!DecayAssumption, D!TypeOK, NEW i \in DecayItems, NEW o \in D!Bodies, NEW counts \in ItemCounts, NEW freed \in ItemCounts,
           D!Start(i, o, counts, freed)
    PROVE  /\ body' \in [DecayItems -> D!Bodies] /\ itemStage' \in [DecayItems -> ItemStages]
           /\ itemRefs' \in ItemCounts /\ itemReleased' \in ItemCounts /\ toDecay' \in ItemCounts
           /\ \A j \in DecayItems : j # i =>
                /\ body'[j] = body[j] /\ itemStage'[j] = itemStage[j] /\ itemRefs'[j] = counts[j]
                /\ itemReleased'[j] = freed[j] /\ toDecay'[j] = toDecay[j]
           /\ itemStage'[i] \in {"placed", "removed"}
           /\ itemRefs'[i] = counts[i] + (toDecay'[i] - toDecay[i])
           /\ itemReleased'[i] + Flag(itemStage'[i] = "placed") = freed[i] + 1
           /\ toDecay'[i] >= toDecay[i]
           /\ body'[i].decaying /\ itemStage'[i] = "placed" /\ toDecay'[i] = toDecay[i] =>
                o.decaying /\ body'[i].duration = o.duration
<1> DEFINE s == D!Started(o)
<1>1. /\ s.last \in D!Bodies /\ s.vanishes \in BOOLEAN /\ s.listed \in BOOLEAN
      /\ s.last.decaying => s.last = o
  BY StartedIs
<1>2. /\ body' = [body EXCEPT ![i] = [s.last EXCEPT !.decaying = @ \/ (s.listed /\ ~s.vanishes)]]
      /\ \/ /\ s.vanishes
            /\ itemStage' = [itemStage EXCEPT ![i] = "removed"] /\ itemReleased' = D!More(freed, i)
            /\ itemRefs' = counts /\ toDecay' = toDecay
         \/ /\ s.listed /\ ~s.vanishes
            /\ toDecay' = D!More(toDecay, i) /\ itemRefs' = D!More(counts, i)
            /\ itemStage' = [itemStage EXCEPT ![i] = "placed"] /\ itemReleased' = freed
         \/ /\ ~s.listed
            /\ itemStage' = [itemStage EXCEPT ![i] = "placed"] /\ itemReleased' = freed
            /\ itemRefs' = counts /\ toDecay' = toDecay
  BY DEF D!Start
<1> HIDE DEF s
<1> DEFINE left == [s.last EXCEPT !.decaying = @ \/ (s.listed /\ ~s.vanishes)]
           marked == s.last.decaying \/ (s.listed /\ ~s.vanishes)
<1>3. marked \in BOOLEAN
  OBVIOUS
<1>4. left = [s.last EXCEPT !.decaying = marked]
  OBVIOUS
<1> HIDE DEF marked
<1>5. left \in D!Bodies /\ left.decaying = marked /\ left.duration = s.last.duration
  BY <1>1, <1>3, <1>4 DEF D!Bodies
<1>6. body' = [body EXCEPT ![i] = left]
  BY <1>2
<1> HIDE DEF left
<1>7. body \in [DecayItems -> D!Bodies] /\ itemStage \in [DecayItems -> ItemStages] /\ toDecay \in ItemCounts
  BY DecayTypes
<1>8. body' \in [DecayItems -> D!Bodies] /\ body'[i] = left /\ \A j \in DecayItems : j # i => body'[j] = body[j]
  BY <1>5, <1>6, <1>7
<1>9. ASSUME NEW f \in ItemCounts
      PROVE  D!More(f, i) \in ItemCounts /\ D!More(f, i)[i] = f[i] + 1 /\ \A j \in DecayItems : j # i => D!More(f, i)[j] = f[j]
  BY DEF D!More, ItemCounts
<1>10. \A f \in ItemCounts : f[i] \in Nat
  BY DEF ItemCounts
<1>11. CASE s.vanishes
  <2>1. itemStage' = [itemStage EXCEPT ![i] = "removed"] /\ itemReleased' = D!More(freed, i) /\ itemRefs' = counts /\ toDecay' = toDecay
    BY <1>1, <1>2, <1>11, StartedIs DEF s
  <2>2. itemStage' \in [DecayItems -> ItemStages] /\ itemStage'[i] = "removed" /\ \A j \in DecayItems : j # i => itemStage'[j] = itemStage[j]
    BY <1>7, <2>1 DEF ItemStages
  <2>3. itemReleased'[i] + Flag(itemStage'[i] = "placed") = freed[i] + 1
    BY <1>9, <1>10, <2>1, <2>2 DEF Flag
  <2>4. QED BY <1>7, <1>8, <1>9, <1>10, <2>1, <2>2, <2>3
<1>12. CASE s.listed /\ ~s.vanishes
  <2>1. /\ toDecay' = D!More(toDecay, i) /\ itemRefs' = D!More(counts, i)
        /\ itemStage' = [itemStage EXCEPT ![i] = "placed"] /\ itemReleased' = freed
    BY <1>2, <1>12
  <2>2. itemStage' \in [DecayItems -> ItemStages] /\ itemStage'[i] = "placed" /\ \A j \in DecayItems : j # i => itemStage'[j] = itemStage[j]
    BY <1>7, <2>1 DEF ItemStages
  <2>3. itemReleased'[i] + Flag(itemStage'[i] = "placed") = freed[i] + 1
    BY <1>10, <2>1, <2>2 DEF Flag
  <2>4. toDecay'[i] = toDecay[i] + 1 /\ itemRefs'[i] = counts[i] + 1 /\ toDecay[i] \in Nat /\ counts[i] \in Nat
    BY <1>7, <1>9, <1>10, <2>1
  <2>5. QED BY <1>7, <1>8, <1>9, <2>1, <2>2, <2>3, <2>4
<1>13. CASE ~s.listed
  <2>1. itemStage' = [itemStage EXCEPT ![i] = "placed"] /\ itemReleased' = freed /\ itemRefs' = counts /\ toDecay' = toDecay
    BY <1>2, <1>13, StartedIs DEF s
  <2>2. itemStage' \in [DecayItems -> ItemStages] /\ itemStage'[i] = "placed" /\ \A j \in DecayItems : j # i => itemStage'[j] = itemStage[j]
    BY <1>7, <2>1 DEF ItemStages
  <2>3. itemReleased'[i] + Flag(itemStage'[i] = "placed") = freed[i] + 1
    BY <1>10, <2>1, <2>2 DEF Flag
  <2>4. marked => s.last = o /\ s.last.decaying
    BY <1>1, <1>13 DEF marked
  <2>5. body'[i].decaying => o.decaying /\ body'[i].duration = o.duration
    BY <1>5, <1>8, <2>4
  <2>6. QED BY <1>7, <1>8, <1>10, <2>1, <2>2, <2>3, <2>5
<1>14. QED BY <1>1, <1>11, <1>12, <1>13

\* An item that starts to decay, or not, after a change: dropped tells how often its
\* bucket has lost it.
ItemChanged(i, o, counts, freed, dropped) ==
    /\ o \in D!Bodies /\ counts \in ItemCounts /\ freed \in ItemCounts /\ D!Start(i, o, counts, freed)
    /\ decayItems' \in BucketLists /\ decayVisit' \in ItemCounts /\ lastBucket' = lastBucket /\ decayLooping' = decayLooping
    /\ \A j \in DecayItems : j # i =>
          /\ counts[j] = itemRefs[j] /\ freed[j] = itemReleased[j] /\ decayVisit'[j] = decayVisit[j]
          /\ \A b \in 0..DecayBuckets-1 : decayItems'[b][j] = decayItems[b][j]
    /\ \A b \in 0..DecayBuckets-1 : b # D!Bucket => decayItems'[b][i] = decayItems[b][i]
    /\ dropped \in Nat /\ decayItems'[D!Bucket][i] = decayItems[D!Bucket][i] - dropped
    /\ counts[i] = D!Listings(i) - dropped + freed[i] + 1
    /\ decayVisit'[i] <= decayItems'[D!Bucket][i]
    /\ o.decaying /\ o.duration > 0 => D!Listings(i) - dropped > 0

LEMMA BucketAhead ==
    ASSUME DecayBucketsAre, lastBucket \in 0..DecayBuckets-1
    PROVE  D!Bucket \in 0..DecayBuckets-1
BY DEF D!Bucket, DecayBucketsAre

LEMMA ItemChangedStep ==
    ASSUME D!DecayAssumption, DecayInv, NEW i \in DecayItems, NEW o, NEW counts, NEW freed, NEW dropped,
           ItemChanged(i, o, counts, freed, dropped)
    PROVE  DecayInv'
<1> USE DEF ItemChanged
<1>1. D!TypeOK /\ DecayBucketsAre
  BY DecayKindsAre DEF DecayInv
<1>2. o \in D!Bodies /\ counts \in ItemCounts /\ freed \in ItemCounts /\ D!Start(i, o, counts, freed)
  OBVIOUS
<1>3. /\ body' \in [DecayItems -> D!Bodies] /\ itemStage' \in [DecayItems -> ItemStages]
      /\ itemRefs' \in ItemCounts /\ itemReleased' \in ItemCounts /\ toDecay' \in ItemCounts
      /\ \A j \in DecayItems : j # i =>
           /\ body'[j] = body[j] /\ itemStage'[j] = itemStage[j] /\ itemRefs'[j] = counts[j]
           /\ itemReleased'[j] = freed[j] /\ toDecay'[j] = toDecay[j]
      /\ itemStage'[i] \in {"placed", "removed"}
      /\ itemRefs'[i] = counts[i] + (toDecay'[i] - toDecay[i])
      /\ itemReleased'[i] + Flag(itemStage'[i] = "placed") = freed[i] + 1
      /\ toDecay'[i] >= toDecay[i]
      /\ body'[i].decaying /\ itemStage'[i] = "placed" /\ toDecay'[i] = toDecay[i] =>
           o.decaying /\ body'[i].duration = o.duration
  <2> HIDE DEF ItemChanged
  <2>1. QED BY <1>1, <1>2, DecayStartIs
<1>4. D!TypeOK'
  BY <1>1, <1>3, DecayTypes, DecayTypesNext
<1>5. D!Bucket \in 0..DecayBuckets-1 /\ D!Bucket' = D!Bucket
  BY <1>1, BucketAhead, DecayTypes DEF D!Bucket
<1>6. toDecay \in ItemCounts /\ decayItems \in BucketLists /\ decayItems' \in BucketLists
  BY <1>1, DecayTypes
<1>7. D!Listings(i)' = D!Listings(i) + (toDecay'[i] - toDecay[i]) + (decayItems'[D!Bucket][i] - decayItems[D!Bucket][i])
  BY <1>1, <1>3, <1>5, <1>6, ListingsDiffer
<1>8. /\ D!Listings(i) \in Nat /\ toDecay[i] \in Nat /\ toDecay'[i] \in Nat /\ decayItems[D!Bucket][i] \in Nat
      /\ freed[i] \in Nat /\ counts[i] \in Nat /\ itemReleased'[i] \in Nat
  BY <1>1, <1>3, <1>5, <1>6, ListingsAre DEF ItemCounts
<1>9. D!Listings(i)' = D!Listings(i) - dropped + (toDecay'[i] - toDecay[i])
  BY <1>7, <1>8
<1>10. ItemHeld(i)'
  <2>1. Flag(itemStage'[i] = "placed") \in {0, 1}
    BY DEF Flag
  <2>2. counts[i] = D!Listings(i) - dropped + freed[i] + 1
    OBVIOUS
  <2> DEFINE fl == Flag(itemStage'[i] = "placed")
  <2>3. itemRefs'[i] = fl + D!Listings(i)' + itemReleased'[i]
    <3> HIDE DEF fl, ItemChanged
    <3>1. fl \in {0, 1} /\ itemReleased'[i] + fl = freed[i] + 1
      BY <1>3, <2>1 DEF fl
    <3>2. dropped \in Nat
      BY DEF ItemChanged
    <3>3. QED BY <1>3, <1>8, <1>9, <2>2, <3>1, <3>2
  <2>4. D!Listings(i)' \in Nat
    <3> HIDE DEF ItemChanged
    <3>1. QED BY <1>1, <1>4, ListingsWillBe
  <2>5. itemRefs'[i] # 0
    <3>1. fl \in {0, 1} /\ itemReleased'[i] + fl = freed[i] + 1
      BY <1>3, <2>1 DEF fl
    <3> HIDE DEF fl, ItemChanged
    <3>2. QED BY <1>8, <2>3, <2>4, <3>1
  <2>6. itemStage'[i] \notin {"new", "deleted"}
    BY <1>3
  <2>7. QED BY <2>3, <2>5, <2>6 DEF ItemHeld
<1>11. ItemLooked(i)'
  BY <1>5 DEF ItemLooked
<1>12. ItemTimed(i)'
  <2> SUFFICES ASSUME body'[i].decaying, body'[i].duration > 0, itemStage'[i] = "placed"
               PROVE  D!Listings(i)' > 0
    BY DEF ItemTimed
  <2>1. CASE toDecay'[i] = toDecay[i]
    <3>1. o.decaying /\ o.duration > 0
      BY <1>3, <2>1
    <3>2. D!Listings(i) - dropped > 0 /\ dropped \in Nat
      BY <3>1
    <3>3. QED BY <1>8, <1>9, <2>1, <3>2
  <2>2. CASE toDecay'[i] # toDecay[i]
    <3>1. D!Listings(i) - dropped >= toDecay[i]
      <4>1. D!Listings(i)' >= toDecay'[i] /\ D!Listings(i)' \in Nat
        BY <1>1, <1>4, ListingsWillBe
      <4>2. QED BY <1>8, <1>9, <4>1
    <3>2. QED BY <1>3, <1>8, <1>9, <2>2, <3>1
  <2>3. QED BY <2>1, <2>2
<1>13. ASSUME NEW j \in DecayItems, j # i PROVE ItemHeld(j)' /\ ItemLooked(j)' /\ ItemTimed(j)'
  <2>1. /\ body'[j] = body[j] /\ itemStage'[j] = itemStage[j] /\ itemRefs'[j] = itemRefs[j] /\ itemReleased'[j] = itemReleased[j]
        /\ toDecay'[j] = toDecay[j] /\ decayVisit'[j] = decayVisit[j] /\ lastBucket' = lastBucket
        /\ \A b \in 0..DecayBuckets-1 : decayItems'[b][j] = decayItems[b][j]
    BY <1>3, <1>13
  <2> HIDE DEF ItemChanged
  <2>2. QED BY <1>4, <2>1, OtherItems
<1>14. QED BY <1>4, <1>10, <1>11, <1>12, <1>13 DEF DecayInv

-----------------------------------------------------------------------------
(* Every step                                                              *)

LEMMA ItemIs ==
    ASSUME D!DecayAssumption, DecayInv, NEW i \in DecayItems
    PROVE  /\ D!TypeOK /\ DecayBucketsAre /\ D!Bucket \in 0..DecayBuckets-1 /\ decayItems \in BucketLists
           /\ body[i] \in D!Bodies /\ itemStage[i] \in ItemStages
           /\ {itemRefs[i], toDecay[i], decayVisit[i], itemReleased[i], D!Listings(i), decayItems[D!Bucket][i]} \subseteq Nat
           /\ D!Listings(i) >= decayItems[D!Bucket][i]
           /\ ItemHeld(i) /\ ItemLooked(i) /\ ItemTimed(i)
           /\ itemStage[i] = "placed" => itemRefs[i] = 1 + D!Listings(i) + itemReleased[i]
           /\ itemStage[i] = "removed" => itemRefs[i] = D!Listings(i) + itemReleased[i]
           /\ itemStage[i] \in {"new", "deleted"} => itemRefs[i] = 0 /\ D!Listings(i) = 0 /\ itemReleased[i] = 0
<1>1. D!TypeOK /\ DecayBucketsAre
  BY DecayKindsAre DEF DecayInv
<1>2. D!Bucket \in 0..DecayBuckets-1 /\ decayItems \in BucketLists
  BY <1>1, DecayTypes, BucketAhead
<1>3. body[i] \in D!Bodies /\ itemStage[i] \in ItemStages /\ itemRefs[i] \in Nat /\ toDecay[i] \in Nat /\ decayVisit[i] \in Nat
      /\ itemReleased[i] \in Nat
  BY <1>1, DecayTypes DEF ItemCounts
<1>4. D!Listings(i) \in Nat /\ D!Listings(i) >= decayItems[D!Bucket][i] /\ decayItems[D!Bucket][i] \in Nat
  BY <1>1, <1>2, ListingsAre
<1>5. ItemHeld(i) /\ ItemLooked(i) /\ ItemTimed(i)
  BY DEF DecayInv
<1>6. /\ itemStage[i] = "placed" => itemRefs[i] = 1 + D!Listings(i) + itemReleased[i]
      /\ itemStage[i] = "removed" => itemRefs[i] = D!Listings(i) + itemReleased[i]
      /\ itemStage[i] \in {"new", "deleted"} => itemRefs[i] = 0 /\ D!Listings(i) = 0 /\ itemReleased[i] = 0
  BY <1>3, <1>4, <1>5 DEF ItemHeld, Flag
<1>7. QED BY <1>1, <1>2, <1>3, <1>4, <1>5, <1>6

LEMMA OneMore ==
    ASSUME NEW f \in ItemCounts, NEW i \in DecayItems
    PROVE  D!More(f, i) \in ItemCounts /\ D!More(f, i)[i] = f[i] + 1 /\ \A j \in DecayItems : j # i => D!More(f, i)[j] = f[j]
BY DEF D!More, ItemCounts

\* An entry that goes from the bucket under way and from what is to visit.
LEMMA DueIs ==
    ASSUME D!DecayAssumption, DecayInv, NEW i \in DecayItems, D!Due(i)
    PROVE  /\ decayVisit' \in ItemCounts /\ decayVisit'[i] = decayVisit[i] - 1 /\ \A j \in DecayItems : j # i => decayVisit'[j] = decayVisit[j]
           /\ decayVisit[i] > 0 /\ decayItems[D!Bucket][i] > 0
           /\ D!Erased(i) \in BucketLists /\ D!Erased(i)[D!Bucket][i] = decayItems[D!Bucket][i] - 1
           /\ \A b \in 0..DecayBuckets-1, j \in DecayItems : b # D!Bucket \/ j # i => D!Erased(i)[b][j] = decayItems[b][j]
           /\ lastBucket' = lastBucket /\ decayLooping' = decayLooping
<1>1. decayVisit[i] > 0 /\ decayVisit' = D!Less(decayVisit, i) /\ lastBucket' = lastBucket /\ decayLooping' = decayLooping
  BY DEF D!Due
<1>2. /\ decayVisit \in ItemCounts /\ decayItems \in BucketLists /\ D!Bucket \in 0..DecayBuckets-1
      /\ decayVisit[i] <= decayItems[D!Bucket][i] /\ decayVisit[i] \in Nat /\ decayItems[D!Bucket][i] \in Nat
  BY ItemIs, DecayTypes DEF ItemLooked
<1>3. decayItems[D!Bucket][i] > 0
  BY <1>1, <1>2
<1>4. ASSUME NEW f \in ItemCounts, f[i] > 0
      PROVE  D!Less(f, i) \in ItemCounts /\ D!Less(f, i)[i] = f[i] - 1 /\ \A j \in DecayItems : j # i => D!Less(f, i)[j] = f[j]
  BY <1>4 DEF D!Less, ItemCounts
<1>5. decayItems[D!Bucket] \in ItemCounts
  BY <1>2 DEF BucketLists, ItemCounts
<1>6. D!Erased(i) = [decayItems EXCEPT ![D!Bucket] = D!Less(decayItems[D!Bucket], i)]
  BY DEF D!Erased
<1> DEFINE less == D!Less(decayItems[D!Bucket], i)
<1>7. less \in ItemCounts /\ less[i] = decayItems[D!Bucket][i] - 1 /\ \A j \in DecayItems : j # i => less[j] = decayItems[D!Bucket][j]
  BY <1>3, <1>4, <1>5
<1> HIDE DEF less
<1>8. D!Erased(i) = [decayItems EXCEPT ![D!Bucket] = less]
  BY <1>6 DEF less
<1>9. D!Erased(i) \in BucketLists /\ D!Erased(i)[D!Bucket] = less /\ \A b \in 0..DecayBuckets-1 : b # D!Bucket => D!Erased(i)[b] = decayItems[b]
  BY <1>2, <1>7, <1>8 DEF BucketLists, ItemCounts
<1>10. decayVisit' \in ItemCounts /\ decayVisit'[i] = decayVisit[i] - 1 /\ \A j \in DecayItems : j # i => decayVisit'[j] = decayVisit[j]
  BY <1>1, <1>2, <1>4
<1>11. QED BY <1>1, <1>3, <1>7, <1>9, <1>10

LEMMA AgedIs ==
    ASSUME D!DecayAssumption, DecayInv, NEW i \in DecayItems
    PROVE  D!Aged(i) \in D!Bodies /\ D!Aged(i).kind = body[i].kind /\ D!Aged(i).decaying = body[i].decaying
<1>1. body[i] \in D!Bodies /\ DecayBuckets \in Nat /\ DecayBuckets > 1
  BY ItemIs DEF DecayBucketsAre
<1> DEFINE had == body[i].duration
           has == IF had > DecayBuckets THEN had - DecayBuckets ELSE IF had >= 0 THEN 0 ELSE -1
<1>2. had \in D!Times
  BY <1>1 DEF D!Bodies
<1>3. has \in D!Times
  BY <1>1, <1>2 DEF D!Times
<1>4. D!Aged(i) = [body[i] EXCEPT !.duration = has]
  BY DEF D!Aged
<1> HIDE DEF has
<1>5. QED BY <1>1, <1>3, <1>4 DEF D!Bodies

LEMMA ItemCreated ==
    ASSUME D!DecayAssumption, DecayInv, NEW i \in DecayItems, NEW k \in DecayKinds, D!Create(i, k) \/ D!Use(i, k)
    PROVE  DecayInv'
<1>1. /\ itemRefs \in ItemCounts /\ itemReleased \in ItemCounts /\ decayVisit \in ItemCounts /\ decayItems \in BucketLists /\ D!TypeOK
      /\ body[i] \in D!Bodies
  BY ItemIs, DecayTypes
<1>2. UNCHANGED <<decayItems, lastBucket, decayLooping, decayVisit>>
  BY DEF D!Create, D!Use
<1>3. {itemRefs[i], itemReleased[i], D!Listings(i), decayItems[D!Bucket][i]} \subseteq Nat /\ decayVisit[i] <= decayItems[D!Bucket][i]
  BY ItemIs DEF ItemLooked
<1>4. CASE D!Create(i, k)
  <2> DEFINE o == D!Created(k)
             counts == D!More(itemRefs, i)
  <2>1. itemStage[i] = "new" /\ D!Start(i, o, counts, itemReleased)
    BY <1>4 DEF D!Create
  <2>2. o \in D!Bodies /\ ~o.decaying
    <3>1. [kind |-> k, duration |-> -1, decaying |-> FALSE] \in D!Bodies
      BY DecayKindsAre DEF D!Bodies, D!Times, DecayBucketsAre
    <3>2. QED BY <3>1, SetIDIs DEF D!Created
  <2>3. counts \in ItemCounts /\ counts[i] = itemRefs[i] + 1 /\ \A j \in DecayItems : j # i => counts[j] = itemRefs[j]
    BY <1>1, OneMore
  <2>4. counts[i] = D!Listings(i) - 0 + itemReleased[i] + 1
    BY <1>3, <2>1, <2>3, ItemIs
  <2> HIDE DEF o, counts
  <2>5. ItemChanged(i, o, counts, itemReleased, 0)
    BY <1>1, <1>2, <1>3, <2>1, <2>2, <2>3, <2>4 DEF ItemChanged
  <2>6. QED BY <2>5, ItemChangedStep
<1>5. CASE D!Use(i, k)
  <2> DEFINE o == D!SetID(body[i], k)
  <2>1. itemStage[i] = "placed" /\ D!Start(i, o, itemRefs, itemReleased)
    BY <1>5 DEF D!Use
  <2>2. o \in D!Bodies /\ (o.decaying => body[i].decaying /\ o.duration = body[i].duration)
    BY <1>1, SetIDIs
  <2>3. itemRefs[i] = D!Listings(i) - 0 + itemReleased[i] + 1
    <3>1. itemRefs[i] = 1 + D!Listings(i) + itemReleased[i] /\ D!Listings(i) \in Nat /\ itemReleased[i] \in Nat
      BY <1>3, <2>1, ItemIs
    <3>2. QED BY <3>1
  <2> HIDE DEF o
  <2>4. o.decaying /\ o.duration > 0 => D!Listings(i) - 0 > 0
    BY <1>3, <2>1, <2>2, ItemIs DEF ItemTimed
  <2>5. ItemChanged(i, o, itemRefs, itemReleased, 0)
    BY <1>1, <1>2, <1>3, <2>1, <2>2, <2>3, <2>4 DEF ItemChanged
  <2>6. QED BY <2>5, ItemChangedStep
<1>6. QED BY <1>4, <1>5

\* An item whose lists and references are told.
ItemKept(i) ==
    /\ D!TypeOK' /\ lastBucket' = lastBucket
    /\ \A j \in DecayItems : j # i =>
          /\ body'[j] = body[j] /\ itemStage'[j] = itemStage[j] /\ itemRefs'[j] = itemRefs[j] /\ itemReleased'[j] = itemReleased[j]
          /\ toDecay'[j] = toDecay[j] /\ decayVisit'[j] = decayVisit[j]
          /\ \A b \in 0..DecayBuckets-1 : decayItems'[b][j] = decayItems[b][j]
    /\ ItemHeld(i)' /\ ItemLooked(i)' /\ ItemTimed(i)'

LEMMA ItemKeptStep ==
    ASSUME D!DecayAssumption, DecayInv, NEW i \in DecayItems, ItemKept(i)
    PROVE  DecayInv'
<1>1. ASSUME NEW j \in DecayItems, j # i PROVE ItemHeld(j)' /\ ItemLooked(j)' /\ ItemTimed(j)'
  <2>1. /\ D!TypeOK' /\ body'[j] = body[j] /\ itemStage'[j] = itemStage[j] /\ itemRefs'[j] = itemRefs[j] /\ itemReleased'[j] = itemReleased[j]
        /\ toDecay'[j] = toDecay[j] /\ decayVisit'[j] = decayVisit[j] /\ lastBucket' = lastBucket
        /\ \A b \in 0..DecayBuckets-1 : decayItems'[b][j] = decayItems[b][j]
    BY <1>1 DEF ItemKept
  <2>2. QED BY <2>1, OtherItems
<1>2. QED BY <1>1 DEF ItemKept, DecayInv

LEMMA ItemRemoved ==
    ASSUME D!DecayAssumption, DecayInv, NEW i \in DecayItems, D!Remove(i)
    PROVE  DecayInv'
<1>1. /\ itemStage[i] = "placed" /\ itemStage' = [itemStage EXCEPT ![i] = "removed"] /\ itemReleased' = D!More(itemReleased, i)
      /\ UNCHANGED <<body, itemRefs, toDecay, decayItems, lastBucket, decayLooping, decayVisit>>
  BY DEF D!Remove, D!lists
<1>2. D!TypeOK /\ itemStage \in [DecayItems -> ItemStages] /\ itemReleased \in ItemCounts
  BY ItemIs, DecayTypes
<1>3. itemReleased' \in ItemCounts /\ itemReleased'[i] = itemReleased[i] + 1 /\ \A j \in DecayItems : j # i => itemReleased'[j] = itemReleased[j]
  BY <1>1, <1>2, OneMore
<1>4. itemStage' \in [DecayItems -> ItemStages] /\ itemStage'[i] = "removed" /\ \A j \in DecayItems : j # i => itemStage'[j] = itemStage[j]
  BY <1>1, <1>2 DEF ItemStages
<1>5. D!TypeOK'
  BY <1>1, <1>2, <1>3, <1>4, DecayTypes, DecayTypesNext
<1>6. D!Listings(i)' = D!Listings(i)
  BY <1>1 DEF D!Listings, D!Total
<1>7. ItemHeld(i)'
  <2>1. itemRefs'[i] = 0 + D!Listings(i)' + itemReleased'[i] /\ itemRefs'[i] # 0
    BY <1>1, <1>3, <1>6, ItemIs
  <2>2. Flag(itemStage'[i] = "placed") = 0
    BY <1>4 DEF Flag
  <2>3. QED BY <1>4, <2>1, <2>2 DEF ItemHeld
<1>8. ItemLooked(i)' /\ ItemTimed(i)'
  BY <1>1, <1>4, ItemIs DEF ItemLooked, ItemTimed, D!Bucket
<1>9. ItemKept(i)
  BY <1>1, <1>3, <1>4, <1>5, <1>7, <1>8 DEF ItemKept
<1>10. QED BY <1>9, ItemKeptStep

\* The entry goes; what else happens to the item is said.
LEMMA ErasedIs ==
    ASSUME D!DecayAssumption, DecayInv, NEW i \in DecayItems, D!Due(i), decayItems' = D!Erased(i), toDecay' = toDecay
    PROVE  D!Listings(i)' = D!Listings(i) - 1 /\ ItemLooked(i)' /\ decayItems' \in BucketLists
           /\ \A j \in DecayItems : j # i => /\ decayVisit'[j] = decayVisit[j]
                                        /\ \A b \in 0..DecayBuckets-1 : decayItems'[b][j] = decayItems[b][j]
<1>1. /\ decayVisit'[i] = decayVisit[i] - 1 /\ \A j \in DecayItems : j # i => decayVisit'[j] = decayVisit[j]
      /\ D!Erased(i) \in BucketLists /\ D!Erased(i)[D!Bucket][i] = decayItems[D!Bucket][i] - 1
      /\ \A b \in 0..DecayBuckets-1, j \in DecayItems : b # D!Bucket \/ j # i => D!Erased(i)[b][j] = decayItems[b][j]
      /\ lastBucket' = lastBucket
  BY DueIs
<1>2. DecayBucketsAre /\ D!Bucket \in 0..DecayBuckets-1 /\ decayItems \in BucketLists /\ toDecay \in ItemCounts /\ D!Bucket' = D!Bucket
  BY <1>1, ItemIs, DecayTypes DEF D!Bucket
<1>3. {toDecay[i], decayVisit[i], D!Listings(i), decayItems[D!Bucket][i]} \subseteq Nat /\ decayVisit[i] <= decayItems[D!Bucket][i]
  BY ItemIs DEF ItemLooked
<1>4. D!Listings(i)' = D!Listings(i) + (toDecay'[i] - toDecay[i]) + (decayItems'[D!Bucket][i] - decayItems[D!Bucket][i])
  BY <1>1, <1>2, ListingsDiffer
<1>5. D!Listings(i)' = D!Listings(i) - 1
  BY <1>1, <1>3, <1>4
<1>6. ItemLooked(i)'
  BY <1>1, <1>2, <1>3 DEF ItemLooked
<1>7. QED BY <1>1, <1>5, <1>6

LEMMA ItemDropped ==
    ASSUME D!DecayAssumption, DecayInv, NEW i \in DecayItems, D!Drop(i)
    PROVE  DecayInv'
<1> DEFINE left == [D!Aged(i) EXCEPT !.decaying = FALSE]
<1>1. /\ D!Due(i) /\ body' = [body EXCEPT ![i] = left]
      /\ decayItems' = D!Erased(i) /\ itemReleased' = D!More(itemReleased, i) /\ UNCHANGED <<itemStage, itemRefs, toDecay>>
  BY DEF D!Drop
<1>2. D!TypeOK /\ body \in [DecayItems -> D!Bodies] /\ itemReleased \in ItemCounts
  BY ItemIs, DecayTypes
<1>3. left \in D!Bodies /\ ~left.decaying
  BY AgedIs DEF D!Bodies
<1> HIDE DEF left
<1>4. body' \in [DecayItems -> D!Bodies] /\ body'[i] = left /\ \A j \in DecayItems : j # i => body'[j] = body[j]
  BY <1>1, <1>2, <1>3
<1>5. itemReleased' \in ItemCounts /\ itemReleased'[i] = itemReleased[i] + 1 /\ \A j \in DecayItems : j # i => itemReleased'[j] = itemReleased[j]
  BY <1>1, <1>2, OneMore
<1>6. /\ D!Listings(i)' = D!Listings(i) - 1 /\ ItemLooked(i)' /\ decayItems' \in BucketLists
      /\ \A j \in DecayItems : j # i => /\ decayVisit'[j] = decayVisit[j]
                                   /\ \A b \in 0..DecayBuckets-1 : decayItems'[b][j] = decayItems[b][j]
  BY <1>1, ErasedIs
<1>7. decayVisit' \in ItemCounts /\ lastBucket' = lastBucket /\ decayLooping' = decayLooping
  BY <1>1, DueIs
<1>8. D!TypeOK'
  BY <1>1, <1>2, <1>4, <1>5, <1>6, <1>7, DecayTypes, DecayTypesNext
<1>9. ItemHeld(i)'
  <2>1. itemRefs[i] = Flag(itemStage[i] = "placed") + D!Listings(i) + itemReleased[i] /\ (itemStage[i] \in {"new", "deleted"} <=> itemRefs[i] = 0)
        /\ {itemRefs[i], D!Listings(i), itemReleased[i]} \subseteq Nat /\ Flag(itemStage[i] = "placed") \in {0, 1}
    BY ItemIs DEF ItemHeld, Flag
  <2>2. itemRefs[i] = Flag(itemStage[i] = "placed") + D!Listings(i)' + itemReleased'[i]
    BY <1>5, <1>6, <2>1
  <2>3. QED BY <1>1, <2>1, <2>2 DEF ItemHeld
<1>10. ItemTimed(i)'
  BY <1>3, <1>4 DEF ItemTimed
<1>11. ItemKept(i)
  BY <1>1, <1>4, <1>5, <1>6, <1>7, <1>8, <1>9, <1>10 DEF ItemKept
<1>12. QED BY <1>11, ItemKeptStep

LEMMA ItemDecays ==
    ASSUME D!DecayAssumption, DecayInv, NEW i \in DecayItems, D!Decays(i)
    PROVE  DecayInv'
<1>1. /\ D!Due(i) /\ itemStage[i] = "placed" /\ D!CanDecay(body[i]) /\ D!Aged(i).duration <= 0
      /\ decayItems' = D!Erased(i)
  BY DEF D!Decays
<1>2. /\ D!TypeOK /\ body \in [DecayItems -> D!Bodies] /\ itemStage \in [DecayItems -> ItemStages] /\ itemReleased \in ItemCounts
      /\ itemRefs \in ItemCounts /\ toDecay \in ItemCounts
  BY ItemIs, DecayTypes
<1>3. itemRefs[i] = 1 + D!Listings(i) + itemReleased[i] /\ {D!Listings(i), itemReleased[i], decayItems[D!Bucket][i], decayVisit[i]} \subseteq Nat
      /\ decayVisit[i] <= decayItems[D!Bucket][i]
  BY <1>1, ItemIs DEF ItemLooked
<1>4. /\ decayVisit' \in ItemCounts /\ decayVisit'[i] = decayVisit[i] - 1 /\ \A j \in DecayItems : j # i => decayVisit'[j] = decayVisit[j]
      /\ decayItems' \in BucketLists /\ decayItems'[D!Bucket][i] = decayItems[D!Bucket][i] - 1
      /\ \A b \in 0..DecayBuckets-1, j \in DecayItems : b # D!Bucket \/ j # i => decayItems'[b][j] = decayItems[b][j]
      /\ lastBucket' = lastBucket /\ decayLooping' = decayLooping
  BY <1>1, DueIs
<1>5. D!Aged(i) \in D!Bodies /\ D!Aged(i).kind = body[i].kind
  BY AgedIs
<1>6. CASE decayTo[body[i].kind] = Nobody
  <2>1. /\ itemStage' = [itemStage EXCEPT ![i] = "removed"] /\ itemReleased' = D!More(D!More(itemReleased, i), i)
        /\ body' = [body EXCEPT ![i] = D!Aged(i)]
        /\ itemRefs' = itemRefs /\ toDecay' = toDecay
    BY <1>6 DEF D!Decays
  <2>2. body' \in [DecayItems -> D!Bodies] /\ \A j \in DecayItems : j # i => body'[j] = body[j]
    BY <1>2, <1>5, <2>1
  <2>3. itemStage' \in [DecayItems -> ItemStages] /\ itemStage'[i] = "removed" /\ \A j \in DecayItems : j # i => itemStage'[j] = itemStage[j]
    BY <1>2, <2>1 DEF ItemStages
  <2>4. itemReleased' \in ItemCounts /\ itemReleased'[i] = itemReleased[i] + 2 /\ \A j \in DecayItems : j # i => itemReleased'[j] = itemReleased[j]
    <3>1. /\ D!More(itemReleased, i) \in ItemCounts /\ D!More(itemReleased, i)[i] = itemReleased[i] + 1
          /\ \A j \in DecayItems : j # i => D!More(itemReleased, i)[j] = itemReleased[j]
      BY <1>2, OneMore
    <3>2. itemReleased' \in ItemCounts /\ itemReleased'[i] = (itemReleased[i] + 1) + 1
          /\ \A j \in DecayItems : j # i => itemReleased'[j] = D!More(itemReleased, i)[j]
      BY <2>1, <3>1, OneMore
    <3>3. itemReleased[i] \in Nat
      BY <1>3
    <3>4. QED BY <3>1, <3>2, <3>3
  <2>5. D!Listings(i)' = D!Listings(i) - 1 /\ ItemLooked(i)'
    BY <1>1, <2>1, ErasedIs
  <2>6. D!TypeOK'
    BY <1>2, <1>4, <2>1, <2>2, <2>3, <2>4, DecayTypes, DecayTypesNext
  <2>7. ItemHeld(i)'
    <3>1. itemRefs'[i] = 0 + D!Listings(i)' + itemReleased'[i] /\ itemRefs'[i] # 0
      BY <1>3, <2>1, <2>4, <2>5
    <3>2. Flag(itemStage'[i] = "placed") = 0
      BY <2>3 DEF Flag
    <3>3. QED BY <2>3, <3>1, <3>2 DEF ItemHeld
  <2>8. ItemTimed(i)'
    BY <2>3 DEF ItemTimed
  <2>9. ItemKept(i)
    BY <1>4, <2>1, <2>2, <2>3, <2>4, <2>5, <2>6, <2>7, <2>8 DEF ItemKept
  <2>10. QED BY <2>9, ItemKeptStep
<1>7. CASE decayTo[body[i].kind] # Nobody
  <2> DEFINE o == D!SetID(D!Aged(i), decayTo[body[i].kind])
             freed == D!More(itemReleased, i)
  <2>1. D!Start(i, o, itemRefs, freed)
    BY <1>7 DEF D!Decays
  <2>2. decayTo[body[i].kind] \in DecayKinds
    BY <1>1, <1>2, <1>7, DecayKindsAre DEF D!CanDecay, D!Bodies
  <2>3. o \in D!Bodies /\ (o.decaying => o.duration <= 0)
    BY <1>1, <1>5, <2>2, SetIDIs
  <2>4. freed \in ItemCounts /\ freed[i] = itemReleased[i] + 1 /\ \A j \in DecayItems : j # i => freed[j] = itemReleased[j]
    BY <1>2, OneMore
  <2> HIDE DEF o, freed
  <2>5. itemRefs[i] = D!Listings(i) - 1 + freed[i] + 1
    BY <1>3, <2>4
  <2>6. decayVisit'[i] <= decayItems'[D!Bucket][i]
    BY <1>3, <1>4
  <2>7. ~(o.decaying /\ o.duration > 0)
    <3>1. o.decaying => o.duration <= 0 /\ o.duration \in Int
      BY <2>3 DEF D!Bodies, D!Times
    <3>2. QED BY <3>1
  <2>8. ItemChanged(i, o, itemRefs, freed, 1)
    BY <1>2, <1>4, <2>1, <2>3, <2>4, <2>5, <2>6, <2>7 DEF ItemChanged
  <2>9. QED BY <2>8, ItemChangedStep
<1>8. QED BY <1>6, <1>7

LEMMA ItemWaits ==
    ASSUME D!DecayAssumption, DecayInv, NEW i \in DecayItems, D!Wait(i)
    PROVE  DecayInv'
<1> DEFINE left == D!Aged(i).duration
           x == (D!Bucket + left) % DecayBuckets
<1>1. /\ D!Due(i) /\ itemStage[i] = "placed" /\ left > 0
      /\ body' = [body EXCEPT ![i] = D!Aged(i)]
      /\ decayItems' = IF left < DecayBuckets THEN [D!Erased(i) EXCEPT ![x] = D!More(@, i)] ELSE decayItems
      /\ UNCHANGED <<itemStage, itemRefs, toDecay, itemReleased>>
  BY DEF D!Wait
<1>2. /\ D!TypeOK /\ body \in [DecayItems -> D!Bodies] /\ decayItems \in BucketLists /\ toDecay \in ItemCounts
      /\ DecayBucketsAre /\ D!Bucket \in 0..DecayBuckets-1
  BY ItemIs, DecayTypes
<1>3. {itemRefs[i], D!Listings(i), itemReleased[i], decayItems[D!Bucket][i], decayVisit[i], toDecay[i]} \subseteq Nat
      /\ decayVisit[i] <= decayItems[D!Bucket][i] /\ D!Listings(i) >= decayItems[D!Bucket][i]
  BY ItemIs DEF ItemLooked
<1>4. /\ decayVisit' \in ItemCounts /\ decayVisit'[i] = decayVisit[i] - 1 /\ \A j \in DecayItems : j # i => decayVisit'[j] = decayVisit[j]
      /\ decayVisit[i] > 0 /\ decayItems[D!Bucket][i] > 0
      /\ D!Erased(i) \in BucketLists /\ D!Erased(i)[D!Bucket][i] = decayItems[D!Bucket][i] - 1
      /\ \A b \in 0..DecayBuckets-1, j \in DecayItems : b # D!Bucket \/ j # i => D!Erased(i)[b][j] = decayItems[b][j]
      /\ lastBucket' = lastBucket /\ decayLooping' = decayLooping
  BY <1>1, DueIs
<1>5. D!Aged(i) \in D!Bodies /\ DecayBuckets \in Nat /\ left \in Int
  BY <1>2, AgedIs DEF DecayBucketsAre, D!Bodies, D!Times
<1>6. body' \in [DecayItems -> D!Bodies] /\ \A j \in DecayItems : j # i => body'[j] = body[j]
  BY <1>1, <1>2, <1>5
<1>7. /\ decayItems' \in BucketLists /\ D!Listings(i)' = D!Listings(i)
      /\ \A j \in DecayItems : j # i => \A b \in 0..DecayBuckets-1 : decayItems'[b][j] = decayItems[b][j]
      /\ decayVisit'[i] <= decayItems'[D!Bucket][i]
  <2>1. CASE left < DecayBuckets
    <3>1. x \in 0..DecayBuckets-1 /\ x # D!Bucket
      <4> HIDE DEF left
      <4>1. left \in 1..DecayBuckets-1 /\ DecayBuckets \in Nat
        BY <1>1, <1>5, <2>1
      <4>2. CASE D!Bucket + left < DecayBuckets
        <5>1. x = D!Bucket + left
          BY <1>2, <4>1, <4>2
        <5>2. QED BY <1>2, <4>1, <4>2, <5>1
      <4>3. CASE D!Bucket + left >= DecayBuckets
        <5>1. x = D!Bucket + left - DecayBuckets
          BY <1>2, <4>1, <4>3
        <5>2. QED BY <1>2, <4>1, <4>3, <5>1
      <4>4. QED BY <1>2, <4>1, <4>2, <4>3
    <3> HIDE DEF x
    <3> DEFINE more == D!More(D!Erased(i)[x], i)
    <3>2. decayItems' = [D!Erased(i) EXCEPT ![x] = more]
      BY <1>1, <2>1
    <3>3. D!Erased(i)[x] \in ItemCounts
      BY <1>4, <3>1 DEF BucketLists, ItemCounts
    <3>4. more \in ItemCounts /\ more[i] = D!Erased(i)[x][i] + 1 /\ \A j \in DecayItems : j # i => more[j] = D!Erased(i)[x][j]
      BY <3>3, OneMore
    <3> HIDE DEF more
    <3>5. decayItems' \in BucketLists /\ decayItems'[x] = more /\ \A b \in 0..DecayBuckets-1 : b # x => decayItems'[b] = D!Erased(i)[b]
      BY <1>4, <3>1, <3>2, <3>4 DEF BucketLists, ItemCounts
    <3>6. \A j \in DecayItems : j # i => \A b \in 0..DecayBuckets-1 : decayItems'[b][j] = decayItems[b][j]
      BY <1>4, <3>1, <3>4, <3>5
    <3>7. /\ decayItems'[D!Bucket][i] = decayItems[D!Bucket][i] - 1 /\ decayItems'[x][i] = decayItems[x][i] + 1
          /\ \A b \in 0..DecayBuckets-1 : b # x /\ b # D!Bucket => decayItems'[b][i] = decayItems[b][i]
      BY <1>2, <1>4, <3>1, <3>4, <3>5
    <3>8. D!Listings(i)' = D!Listings(i)
      <4>1. /\ DecayBucketsAre /\ toDecay \in ItemCounts /\ toDecay' = toDecay /\ decayItems \in BucketLists
            /\ decayItems' \in BucketLists
        BY <1>1, <1>2, <3>5
      <4>2. Moves(i, D!Bucket, x)
        BY <1>2, <3>1, <3>7 DEF Moves
      <4>3. QED BY <4>1, <4>2, ListingsMove
    <3>9. decayVisit'[i] <= decayItems'[D!Bucket][i]
      BY <1>3, <1>4, <3>7
    <3>10. QED BY <3>5, <3>6, <3>8, <3>9
  <2>2. CASE ~(left < DecayBuckets)
    <3>1. decayItems' = decayItems
      BY <1>1, <2>2
    <3>2. D!Listings(i)' = D!Listings(i)
      <4>1. toDecay' = toDecay
        BY <1>1
      <4> HIDE DEF left, x
      <4>2. QED BY <3>1, <4>1 DEF D!Listings, D!Total
    <3>3. decayVisit'[i] <= decayItems'[D!Bucket][i]
      BY <1>3, <1>4, <3>1
    <3>4. QED BY <1>2, <3>1, <3>2, <3>3
  <2>3. QED BY <2>1, <2>2
<1> HIDE DEF left, x
<1>8. D!TypeOK'
  BY <1>1, <1>2, <1>4, <1>6, <1>7, DecayTypes, DecayTypesNext
<1>9. ItemHeld(i)' /\ ItemLooked(i)' /\ ItemTimed(i)'
  <2>1. ItemHeld(i)'
    BY <1>1, <1>7, ItemIs DEF ItemHeld
  <2>2. ItemLooked(i)'
    BY <1>4, <1>7 DEF ItemLooked, D!Bucket
  <2>3. D!Listings(i)' > 0
    BY <1>3, <1>4, <1>7
  <2>4. QED BY <2>1, <2>2, <2>3 DEF ItemTimed
<1>10. ItemKept(i)
  BY <1>1, <1>4, <1>6, <1>7, <1>8, <1>9 DEF ItemKept
<1>11. QED BY <1>10, ItemKeptStep

LEMMA DecayBegins ==
    ASSUME D!DecayAssumption, DecayInv, D!BeginCheck
    PROVE  DecayInv'
<1>1. /\ decayLooping' = TRUE /\ decayVisit' = decayItems[D!Bucket]
      /\ UNCHANGED <<body, itemStage, itemRefs, toDecay, decayItems, lastBucket, itemReleased>>
  BY DEF D!BeginCheck, D!Bucket
<1>2. D!TypeOK /\ DecayBucketsAre /\ lastBucket \in 0..DecayBuckets-1 /\ decayItems \in BucketLists
  BY DecayKindsAre, DecayTypes DEF DecayInv
<1>3. D!Bucket \in 0..DecayBuckets-1
  BY <1>2, BucketAhead
<1>4. decayVisit' \in ItemCounts
  BY <1>1, <1>2, <1>3 DEF BucketLists, ItemCounts
<1>5. D!TypeOK'
  BY <1>1, <1>2, <1>4, DecayTypes, DecayTypesNext
<1>6. ASSUME NEW i \in DecayItems PROVE ItemHeld(i)' /\ ItemLooked(i)' /\ ItemTimed(i)'
  <2>4. D!Listings(i)' = D!Listings(i)
    BY <1>1 DEF D!Listings, D!Total
  <2>1. D!Listings(i)' = D!Listings(i) /\ ItemHeld(i) /\ ItemTimed(i)
    BY <2>4, ItemIs
  <2>2. decayItems[D!Bucket][i] \in Nat
    BY ItemIs
  <2>3. QED BY <1>1, <2>1, <2>2 DEF ItemHeld, ItemLooked, ItemTimed, D!Bucket
<1>7. QED BY <1>5, <1>6 DEF DecayInv

LEMMA DecayCleanup ==
    ASSUME D!DecayAssumption, DecayInv, D!Cleanup, decayVisit' = decayVisit, decayLooping' \in {decayLooping, FALSE},
           lastBucket' = lastBucket \/ (lastBucket' = D!Bucket /\ decayVisit = D!NoItems)
    PROVE  DecayInv'
<1>1. /\ itemRefs' = [i \in DecayItems |-> itemRefs[i] - itemReleased[i]] /\ itemReleased' = D!NoItems
      /\ itemStage' = [i \in DecayItems |-> IF itemReleased[i] > 0 /\ itemRefs'[i] = 0 THEN "deleted" ELSE itemStage[i]]
      /\ decayItems' = [b \in 0..DecayBuckets-1 |->
                          [i \in DecayItems |-> decayItems[b][i] + IF D!Target(i) = b THEN toDecay[i] ELSE 0]]
      /\ toDecay' = D!NoItems /\ body' = body
  BY DEF D!Cleanup
<1>2. /\ D!TypeOK /\ DecayBucketsAre /\ lastBucket \in 0..DecayBuckets-1 /\ decayItems \in BucketLists /\ toDecay \in ItemCounts
      /\ body \in [DecayItems -> D!Bodies] /\ decayVisit \in ItemCounts /\ decayLooping \in BOOLEAN
      /\ itemStage \in [DecayItems -> ItemStages]
  BY DecayKindsAre, DecayTypes DEF DecayInv
<1>3. D!Bucket \in 0..DecayBuckets-1 /\ lastBucket' \in 0..DecayBuckets-1
  BY <1>2, BucketAhead
<1>4. ASSUME NEW i \in DecayItems PROVE D!Target(i) \in 0..DecayBuckets-1
  <2>1. body[i].duration \in Int /\ DecayBuckets \in Nat /\ DecayBuckets > 1 /\ lastBucket' \in Int
    BY <1>2, <1>3 DEF D!Bodies, D!Times, DecayBucketsAre
  <2> DEFINE t == lastBucket' + 1 + IF body[i].duration > 0 THEN body[i].duration ELSE 0
  <2>2. t \in Int
    BY <2>1
  <2>3. D!Target(i) = IF body[i].duration >= DecayBuckets THEN lastBucket' ELSE t % DecayBuckets
    BY DEF D!Target
  <2> HIDE DEF t
  <2>4. t % DecayBuckets \in 0..DecayBuckets-1
    BY <2>1, <2>2
  <2>5. QED BY <1>3, <2>3, <2>4
<1>5. ASSUME NEW i \in DecayItems, NEW b \in 0..DecayBuckets-1
      PROVE  /\ decayItems'[b][i] = IF D!Target(i) = b THEN decayItems[b][i] + toDecay[i] ELSE decayItems[b][i]
             /\ decayItems'[b][i] \in Nat /\ decayItems[b][i] \in Nat /\ toDecay[i] \in Nat
             /\ decayItems'[b][i] >= decayItems[b][i]
  <2>1. decayItems[b][i] \in Nat /\ toDecay[i] \in Nat
    BY <1>2 DEF BucketLists, ItemCounts
  <2>2. decayItems'[b][i] = decayItems[b][i] + IF D!Target(i) = b THEN toDecay[i] ELSE 0
    BY <1>1
  <2>3. CASE D!Target(i) = b
    BY <2>1, <2>2, <2>3
  <2>4. CASE D!Target(i) # b
    BY <2>1, <2>2, <2>4
  <2>5. QED BY <2>3, <2>4
<1>6. decayItems' \in BucketLists
  <2>1. ASSUME NEW b \in 0..DecayBuckets-1 PROVE decayItems'[b] \in [DecayItems -> Nat]
    <3>1. decayItems'[b] = [i \in DecayItems |-> decayItems[b][i] + IF D!Target(i) = b THEN toDecay[i] ELSE 0]
      BY <1>1
    <3>2. \A i \in DecayItems : decayItems'[b][i] \in Nat
      BY <1>5
    <3>3. QED BY <3>1, <3>2
  <2>2. QED BY <1>1, <2>1 DEF BucketLists
<1>7. toDecay' \in ItemCounts /\ itemReleased' \in ItemCounts /\ \A i \in DecayItems : toDecay'[i] = 0 /\ itemReleased'[i] = 0
  BY <1>1 DEF D!NoItems, ItemCounts
<1>8. ASSUME NEW i \in DecayItems
      PROVE  /\ D!Listings(i)' = D!Listings(i)
             /\ itemRefs'[i] = itemRefs[i] - itemReleased[i] /\ itemRefs'[i] \in Nat /\ itemStage'[i] \in ItemStages
             /\ ItemHeld(i)'
  <2>1. D!Listings(i)' = D!Listings(i) + (toDecay'[i] - toDecay[i]) + (decayItems'[D!Target(i)][i] - decayItems[D!Target(i)][i])
    <3>1. D!Target(i) \in 0..DecayBuckets-1 /\ \A b \in 0..DecayBuckets-1 : b # D!Target(i) => decayItems'[b][i] = decayItems[b][i]
      BY <1>4, <1>5
    <3> HIDE DEF D!Target
    <3>2. QED BY <1>2, <1>6, <1>7, <3>1, ListingsDiffer
  <2>2. decayItems'[D!Target(i)][i] = decayItems[D!Target(i)][i] + toDecay[i] /\ toDecay[i] \in Nat
        /\ decayItems[D!Target(i)][i] \in Nat /\ toDecay'[i] = 0
    BY <1>4, <1>5, <1>7
  <2>3. /\ {itemRefs[i], itemReleased[i], D!Listings(i)} \subseteq Nat /\ Flag(itemStage[i] = "placed") \in {0, 1}
        /\ itemRefs[i] = Flag(itemStage[i] = "placed") + D!Listings(i) + itemReleased[i]
        /\ itemStage[i] \in {"new", "deleted"} <=> itemRefs[i] = 0
        /\ itemStage[i] \in ItemStages
    BY ItemIs DEF ItemHeld, Flag
  <2>4. D!Listings(i)' = D!Listings(i)
    BY <2>1, <2>2, <2>3
  <2>5. itemRefs'[i] = itemRefs[i] - itemReleased[i] /\ itemReleased'[i] = 0
    BY <1>1, <1>7
  <2>6. itemRefs'[i] = Flag(itemStage[i] = "placed") + D!Listings(i)' + itemReleased'[i] /\ itemRefs'[i] \in Nat
    BY <2>3, <2>4, <2>5
  <2>7. itemStage'[i] = IF itemReleased[i] > 0 /\ itemRefs'[i] = 0 THEN "deleted" ELSE itemStage[i]
    BY <1>1
  <2>8. CASE itemReleased[i] > 0 /\ itemRefs'[i] = 0
    <3>1. itemStage'[i] = "deleted"
      BY <2>7, <2>8
    <3>2. Flag(itemStage[i] = "placed") = 0 /\ Flag(itemStage'[i] = "placed") = 0
      <4>1. Flag(itemStage[i] = "placed") = 0
        BY <2>3, <2>5, <2>8
      <4>2. QED BY <3>1, <4>1 DEF Flag
    <3>3. QED BY <2>4, <2>5, <2>6, <2>8, <3>1, <3>2 DEF ItemHeld, ItemStages
  <2>9. CASE ~(itemReleased[i] > 0 /\ itemRefs'[i] = 0)
    <3>1. itemStage'[i] = itemStage[i]
      BY <2>7, <2>9
    <3>2. itemRefs'[i] = 0 <=> itemRefs[i] = 0
      BY <2>3, <2>5, <2>6, <2>9
    <3>3. QED BY <2>3, <2>4, <2>5, <2>6, <3>1, <3>2 DEF ItemHeld
  <2>10. QED BY <2>8, <2>9
<1>9. D!TypeOK'
  <2>1. itemRefs' \in ItemCounts
    BY <1>1, <1>8 DEF ItemCounts
  <2>2. itemStage' \in [DecayItems -> ItemStages]
    <3>1. itemStage' = [i \in DecayItems |-> itemStage'[i]]
      BY <1>1
    <3>2. QED BY <1>8, <3>1
  <2>3. QED BY <1>1, <1>2, <1>3, <1>6, <1>7, <2>1, <2>2, DecayTypesNext
<1>10. ASSUME NEW i \in DecayItems PROVE ItemLooked(i)' /\ ItemTimed(i)'
  <2>1. ItemLooked(i)'
    <3>1. CASE lastBucket' = lastBucket
      <4>1. D!Bucket' = D!Bucket /\ decayVisit[i] <= decayItems[D!Bucket][i] /\ decayVisit[i] \in Nat
        BY <3>1, ItemIs DEF D!Bucket, ItemLooked
      <4>2. decayItems'[D!Bucket][i] >= decayItems[D!Bucket][i] /\ decayItems'[D!Bucket][i] \in Nat /\ decayItems[D!Bucket][i] \in Nat
        BY <1>3, <1>5
      <4>3. decayVisit[i] <= decayItems'[D!Bucket][i]
        BY <4>1, <4>2
      <4>4. QED BY <4>1, <4>3 DEF ItemLooked
    <3>2. CASE decayVisit = D!NoItems
      <4>1. decayVisit'[i] = 0
        BY <3>2 DEF D!NoItems
      <4>2. D!Bucket' \in 0..DecayBuckets-1
        <5>1. lastBucket' + 1 \in Int /\ DecayBuckets \in Nat /\ DecayBuckets > 0
          BY <1>2, <1>3 DEF DecayBucketsAre
        <5>2. QED BY <5>1 DEF D!Bucket
      <4>3. decayItems'[D!Bucket'][i] \in Nat
        BY <1>5, <4>2
      <4>4. QED BY <4>1, <4>3 DEF ItemLooked
    <3>3. QED BY <3>1, <3>2
  <2>2. ItemTimed(i)'
    <3>1. ItemTimed(i) /\ D!Listings(i)' = D!Listings(i)
      BY <1>8, ItemIs
    <3>2. itemStage'[i] = "placed" => itemStage[i] = "placed"
      BY <1>1
    <3>3. QED BY <1>1, <3>1, <3>2 DEF ItemTimed
  <2>3. QED BY <2>1, <2>2
<1>11. QED BY <1>8, <1>9, <1>10 DEF DecayInv

LEMMA DecayInit ==
    ASSUME D!DecayAssumption, D!Init
    PROVE  DecayInv
<1>1. DecayBucketsAre /\ D!NoItems \in ItemCounts
  BY DecayKindsAre DEF D!NoItems, ItemCounts
<1>2. D!TypeOK
  <2> DEFINE o == [kind |-> CHOOSE k \in DecayKinds : TRUE, duration |-> -1, decaying |-> FALSE]
  <2>1. (CHOOSE k \in DecayKinds : TRUE) \in DecayKinds
    BY DEF D!DecayAssumption
  <2>5. o \in D!Bodies
    BY <1>1, <2>1 DEF D!Bodies, D!Times, DecayBucketsAre
  <2>2. body \in [DecayItems -> D!Bodies]
    BY <2>5 DEF D!Init
  <2> HIDE DEF o
  <2>3. itemStage \in [DecayItems -> ItemStages] /\ decayItems \in BucketLists
    BY <1>1 DEF D!Init, ItemStages, BucketLists, ItemCounts
  <2>6. /\ itemRefs \in ItemCounts /\ toDecay \in ItemCounts /\ decayVisit \in ItemCounts /\ itemReleased \in ItemCounts
        /\ lastBucket \in 0..DecayBuckets-1 /\ decayLooping \in BOOLEAN
    <3>1. itemRefs = D!NoItems /\ toDecay = D!NoItems /\ decayVisit = D!NoItems /\ itemReleased = D!NoItems
          /\ lastBucket = 0 /\ decayLooping = FALSE
      BY DEF D!Init
    <3>2. 0 \in 0..DecayBuckets-1
      BY <1>1 DEF DecayBucketsAre
    <3>3. QED BY <1>1, <3>1, <3>2
  <2>4. QED BY <2>2, <2>3, <2>6, DecayTypes
<1>3. ASSUME NEW i \in DecayItems PROVE ItemHeld(i) /\ ItemLooked(i) /\ ItemTimed(i)
  <2>1. itemStage[i] = "new" /\ itemRefs[i] = 0 /\ toDecay[i] = 0 /\ decayVisit[i] = 0 /\ itemReleased[i] = 0 /\ body[i].decaying = FALSE
    BY DEF D!Init, D!NoItems
  <2>2. \A b \in 0..DecayBuckets-1 : decayItems[b][i] = 0
    BY DEF D!Init, D!NoItems
  <2>3. D!Listings(i) = 0
    BY <1>1, <2>1, <2>2, EmptyListings
  <2>4. D!Bucket \in 0..DecayBuckets-1
    BY <1>1, <1>2, BucketAhead, DecayTypes
  <2>5. QED BY <2>1, <2>2, <2>3, <2>4 DEF ItemHeld, ItemLooked, ItemTimed, Flag
<1>4. QED BY <1>2, <1>3 DEF DecayInv

LEMMA DecayNext ==
    ASSUME D!DecayAssumption, DecayInv, [D!Next]_(D!decayVars)
    PROVE  DecayInv'
<1>1. CASE UNCHANGED D!decayVars
  <2>1. /\ body' = body /\ itemStage' = itemStage /\ itemRefs' = itemRefs /\ toDecay' = toDecay /\ decayItems' = decayItems
        /\ lastBucket' = lastBucket /\ decayLooping' = decayLooping /\ decayVisit' = decayVisit /\ itemReleased' = itemReleased
    BY <1>1 DEF D!decayVars, D!lists
  <2>2. D!TypeOK'
    BY <2>1, DecayTypes, DecayTypesNext DEF DecayInv
  <2>3. ASSUME NEW i \in DecayItems PROVE ItemHeld(i)' /\ ItemLooked(i)' /\ ItemTimed(i)'
    <3>1. D!Listings(i)' = D!Listings(i)
      BY <2>1 DEF D!Listings, D!Total
    <3>2. ItemHeld(i) /\ ItemLooked(i) /\ ItemTimed(i)
      BY DEF DecayInv
    <3>3. ItemHeld(i)'
      BY <2>1, <3>1, <3>2 DEF ItemHeld
    <3>4. ItemLooked(i)'
      BY <2>1, <3>2 DEF ItemLooked, D!Bucket
    <3>5. ItemTimed(i)'
      BY <2>1, <3>1, <3>2 DEF ItemTimed
    <3>6. QED BY <3>3, <3>4, <3>5
  <2>4. QED BY <2>2, <2>3 DEF DecayInv
<1>2. CASE \E i \in DecayItems : D!Remove(i) \/ D!Drop(i) \/ D!Decays(i) \/ D!Wait(i)
  BY <1>2, ItemRemoved, ItemDropped, ItemDecays, ItemWaits
<1>3. CASE \E i \in DecayItems, k \in DecayKinds : D!Create(i, k) \/ D!Use(i, k)
  BY <1>3, ItemCreated
<1>4. CASE D!BeginCheck
  BY <1>4, DecayBegins
<1>5. CASE D!EndCheck
  <2>1. D!Cleanup /\ decayVisit' = decayVisit /\ decayLooping' \in {decayLooping, FALSE} /\ lastBucket' = D!Bucket /\ decayVisit = D!NoItems
    BY <1>5 DEF D!EndCheck
  <2>2. QED BY <2>1, DecayCleanup
<1>6. CASE D!OtherCleanup
  <2>1. D!Cleanup /\ decayVisit' = decayVisit /\ decayLooping' \in {decayLooping, FALSE} /\ lastBucket' = lastBucket
    BY <1>6 DEF D!OtherCleanup
  <2>2. QED BY <2>1, DecayCleanup
<1>7. QED BY <1>1, <1>2, <1>3, <1>4, <1>5, <1>6 DEF D!Next

LEMMA DecayInvSound ==
    ASSUME D!DecayAssumption, DecayInv
    PROVE  D!TypeOK /\ D!DecayWhole
<1>1. D!TypeOK
  BY DEF DecayInv
<1>2. ASSUME NEW i \in DecayItems
      PROVE  /\ itemRefs[i] = (IF itemStage[i] = "placed" THEN 1 ELSE 0) + D!Listings(i) + itemReleased[i]
             /\ (itemStage[i] \in {"new", "deleted"}) = (itemRefs[i] = 0)
             /\ decayVisit[i] <= decayItems[D!Bucket][i]
             /\ body[i].decaying /\ body[i].duration > 0 /\ itemStage[i] = "placed" => D!Listings(i) > 0
  <2>1. ItemHeld(i) /\ ItemLooked(i) /\ ItemTimed(i)
    BY DEF DecayInv
  <2>2. itemRefs[i] = (IF itemStage[i] = "placed" THEN 1 ELSE 0) + D!Listings(i) + itemReleased[i]
    BY <2>1 DEF ItemHeld, Flag
  <2>3. (itemStage[i] \in {"new", "deleted"}) = (itemRefs[i] = 0)
    <3> DEFINE out == itemStage[i] \in {"new", "deleted"}
               none == itemRefs[i] = 0
    <3>1. out <=> none
      BY <2>1 DEF ItemHeld
    <3>2. out \in BOOLEAN /\ none \in BOOLEAN
      OBVIOUS
    <3> HIDE DEF out, none
    <3>3. out = none
      BY <3>1, <3>2
    <3>4. QED BY <3>3 DEF out, none
  <2>4. QED BY <2>1, <2>2, <2>3 DEF ItemLooked, ItemTimed
<1>3. QED BY <1>1, <1>2 DEF D!DecayWhole

-----------------------------------------------------------------------------
(* What is worn and what it does: for any items and kinds, slots, what     *)
(* kinds turn and decay into, and any speeds.  The operators of Effects    *)
(* take a wearer to the wearer after a call, so the invariant is one about *)
(* a wearer, and each of them keeps it.                                    *)

\* What w wears with effect, and what speed each item gives.
Effective(w) == {i \in Wares : w.at[i] \in w.enabled}
Speeds(w) == [i \in Wares |-> speed[w.kind[i]]]

\* A slot has one item; one that has effect has an item that can be taken off there,
\* with its shield, if the slot's shield is there; and the speed is the sum.
OnePerSlot(w) == \A i, j \in Wares : w.at[i] \in Slots /\ w.at[i] = w.at[j] => i = j
HoldsWare(w, s, i) == w.at[i] = s /\ E!HasEvent(w, i, s) /\ (s \in w.shields => shield[w.kind[i]])
WareHeld(w) == \A s \in w.enabled : \E i \in Wares : HoldsWare(w, s, i)
Shielded(w) == w.shields \subseteq w.enabled \cup {"spell"}
InBalance(w) == w.varSpeed = w.delta["haste"] + w.delta["paralyze"] + SumOf(Speeds(w), Effective(w))

\* The inductive invariant, of a wearer.
WellWorn(w) == w \in E!Wearers /\ OnePerSlot(w) /\ WareHeld(w) /\ Shielded(w) /\ InBalance(w)

\* What there is of w, part by part.
LEMMA WearerParts ==
    ASSUME NEW w \in E!Wearers
    PROVE  /\ w.kind \in [Wares -> WareKinds] /\ w.at \in [Wares -> Slots \cup {"bag", "gone"}]
           /\ w.enabled \subseteq Slots /\ w.varSpeed \in Int /\ w.delta \in [E!Types -> Int]
           /\ w.delta["haste"] \in Int /\ w.delta["paralyze"] \in Int
           /\ w.over \subseteq E!Types /\ w.shields \subseteq Slots \cup {"spell"}
              /\ w.fit \in BOOLEAN
  BY DEF E!Wearers, E!Types

\* A wearer from its parts.
LEMMA WearerRecord ==
    ASSUME NEW kind \in [Wares -> WareKinds], NEW places \in [Wares -> Slots \cup {"bag", "gone"}],
           NEW enabled \in SUBSET Slots, NEW varSpeed \in Int, NEW delta \in [E!Types -> Int],
           NEW over \in SUBSET E!Types, NEW shields \in SUBSET (Slots \cup {"spell"}), NEW fit \in BOOLEAN
    PROVE  [kind |-> kind, at |-> places, enabled |-> enabled, varSpeed |-> varSpeed, delta |-> delta,
            over |-> over, shields |-> shields, fit |-> fit] \in E!Wearers
  BY DEF E!Wearers

\* What the assumption says of kinds, and of those that turn when they are put on.
LEMMA WareKindsAre ==
    ASSUME E!EffectsAssumption
    PROVE  /\ IsFiniteSet(Wares) /\ active \subseteq WareKinds /\ Nobody \notin WareKinds
           /\ \A k \in WareKinds : /\ speed[k] \in Int /\ shield[k] \in BOOLEAN
              /\ slotOf[k] \in Slots
                               /\ (wears[k] # Nobody => wears[k] \in WareKinds)
                               /\ (unwears[k] # Nobody => unwears[k] \in WareKinds)
                               /\ (wareDecayTo[k] # Nobody => wareDecayTo[k] \in WareKinds)
           /\ "bag" \notin Slots /\ "gone" \notin Slots /\ "spell" \notin Slots
  BY DEF E!EffectsAssumption, E!IsFiniteSet, IsFiniteSet

LEMMA WareTurns ==
    ASSUME E!EffectsAssumption, NEW k \in active, wears[k] # Nobody
    PROVE  /\ speed[k] = 0 /\ ~shield[k] /\ wears[wears[k]] = Nobody
           /\ wears[k] \in active /\ slotOf[wears[k]] = slotOf[k]
<1>1. k \in WareKinds
  BY WareKindsAre
<1>2. QED BY <1>1 DEF E!EffectsAssumption

LEMMA WareSpeeds ==
    ASSUME E!EffectsAssumption, NEW w \in E!Wearers
    PROVE  /\ \A i \in Wares : Speeds(w)[i] = speed[w.kind[i]] /\ Speeds(w)[i] \in Int
           /\ IsFiniteSet(Effective(w)) /\ Effective(w) \subseteq Wares
<1>1. \A i \in Wares : w.kind[i] \in WareKinds
  BY WearerParts
<1>2. Effective(w) \subseteq Wares
  BY DEF Effective
<1>3. IsFiniteSet(Effective(w))
  BY <1>2, WareKindsAre, FS_Subset
<1>4. QED BY <1>1, <1>2, <1>3, WareKindsAre DEF Speeds

-----------------------------------------------------------------------------
(* The parts of an event                                                   *)

\* What an item does is taken off: the sum loses one summand.
LEMMA DoffKeeps ==
    ASSUME E!EffectsAssumption, NEW w, WellWorn(w), NEW i \in Wares, w.at[i] \in w.enabled
    PROVE  WellWorn(E!Doff(w, w.at[i], w.kind[i]))
           /\ w.at[i] \notin E!Doff(w, w.at[i], w.kind[i]).enabled
<1> DEFINE s == w.at[i]
           u == E!Doff(w, s, w.kind[i])
<1>0. w \in E!Wearers /\ OnePerSlot(w) /\ WareHeld(w) /\ Shielded(w) /\ InBalance(w)
      /\ s \in Slots /\ w.kind[i] \in WareKinds
  BY WearerParts DEF WellWorn
<1>1. /\ u.kind = w.kind /\ u.at = w.at /\ u.enabled = w.enabled \ {s}
      /\ u.varSpeed = w.varSpeed - speed[w.kind[i]] /\ u.delta = w.delta
      /\ u.shields = IF shield[w.kind[i]] THEN w.shields \ {s} ELSE w.shields
  BY <1>0 DEF E!Doff, E!Wearers
<1>2. u \in E!Wearers
  <2>1. w.varSpeed - speed[w.kind[i]] \in Int
    BY <1>0, WearerParts, WareKindsAre
  <2>2. QED BY <1>0, <2>1 DEF E!Doff, E!Wearers
<1> HIDE DEF u
<1>3. OnePerSlot(u)
  BY <1>0, <1>1 DEF OnePerSlot
<1>4. WareHeld(u) /\ Shielded(u)
  <2>1. ASSUME NEW t \in u.enabled PROVE \E j \in Wares : HoldsWare(u, t, j)
    <3>1. t \in w.enabled /\ t # s
      BY <1>1, <2>1
    <3>2. PICK j \in Wares : HoldsWare(w, t, j)
      BY <1>0, <3>1 DEF WareHeld
    <3>3. HoldsWare(u, t, j)
      BY <1>1, <3>1, <3>2 DEF HoldsWare, E!HasEvent
    <3>4. QED BY <3>3
  <2>2. s \in w.shields => shield[w.kind[i]]
    <3>1. PICK j \in Wares : HoldsWare(w, s, j)
      BY <1>0 DEF WareHeld
    <3>2. j = i
      BY <1>0, <3>1 DEF HoldsWare, OnePerSlot
    <3>3. QED BY <3>1, <3>2 DEF HoldsWare
  <2>3. QED BY <1>0, <1>1, <2>1, <2>2 DEF WareHeld, Shielded
<1>5. InBalance(u)
  <2>1. Effective(u) = Effective(w) \ {i}
    BY <1>0, <1>1 DEF Effective, OnePerSlot
  <2>2. Speeds(u) = Speeds(w)
    BY <1>1 DEF Speeds
  <2>3. i \in Effective(w) /\ Effective(u) \subseteq Wares
    BY DEF Effective
  <2>4. SumOf(Speeds(w), Effective(w)) = Speeds(w)[i] + SumOf(Speeds(w), Effective(w) \ {i})
    <3>1. IsFiniteSet(Effective(w)) /\ \A j \in Effective(w) : Speeds(w)[j] \in Int
      BY <1>0, WareSpeeds
    <3>2. QED BY <2>3, <3>1, SumIs
  <2>5. SumOf(Speeds(w), Effective(w) \ {i}) \in Int
    <3>1. IsFiniteSet(Effective(u)) /\ \A j \in Effective(u) : Speeds(w)[j] \in Int
      BY <1>0, <1>2, WareSpeeds
    <3>2. QED BY <2>1, <3>1, SumIs
  <2>6. Speeds(w)[i] = speed[w.kind[i]] /\ speed[w.kind[i]] \in Int
    BY <1>0, WareSpeeds, WareKindsAre
  <2>7. w.delta["haste"] \in Int /\ w.delta["paralyze"] \in Int
    BY <1>0, WearerParts
  <2>8. w.varSpeed = w.delta["haste"] + w.delta["paralyze"] + SumOf(Speeds(w), Effective(w))
    BY <1>0 DEF InBalance
  <2>9. QED BY <1>1, <2>1, <2>2, <2>4, <2>5, <2>6, <2>7, <2>8 DEF InBalance
<1>6. QED BY <1>1, <1>2, <1>3, <1>4, <1>5 DEF u, WellWorn

\* The other items keep their places and kinds.
OthersKept(u, w, i) == \A j \in Wares : j # i => u.at[j] = w.at[j] /\ u.kind[j] = w.kind[j]

\* An item without effect becomes another.
LEMMA SetKindKeeps ==
    ASSUME E!EffectsAssumption, NEW w, WellWorn(w), NEW i \in Wares, w.at[i] \notin w.enabled, NEW k \in WareKinds
    PROVE  /\ WellWorn(E!SetKind(w, i, k)) /\ E!SetKind(w, i, k).at = w.at
              /\ E!SetKind(w, i, k).enabled = w.enabled
           /\ E!SetKind(w, i, k).fit = w.fit /\ E!SetKind(w, i, k).kind[i] = k
           /\ OthersKept(E!SetKind(w, i, k), w, i)
<1> DEFINE u == E!SetKind(w, i, k)
<1>0. w \in E!Wearers /\ OnePerSlot(w) /\ WareHeld(w) /\ Shielded(w) /\ InBalance(w)
  BY DEF WellWorn
<1>1. /\ u.kind = [w.kind EXCEPT ![i] = k] /\ u.at = w.at /\ u.enabled = w.enabled /\ u.fit = w.fit
      /\ u.varSpeed = w.varSpeed /\ u.delta = w.delta /\ u.shields = w.shields
  BY <1>0 DEF E!SetKind, E!Wearers
<1>2. u \in E!Wearers
  BY <1>0 DEF E!SetKind, E!Wearers
<1> HIDE DEF u
<1>3. OnePerSlot(u) /\ Shielded(u)
  BY <1>0, <1>1 DEF OnePerSlot, Shielded
<1>4. \A j \in Wares : w.at[j] \in w.enabled => u.kind[j] = w.kind[j]
  BY <1>0, <1>1, WearerParts
<1>5. WareHeld(u)
  <2>1. ASSUME NEW t \in u.enabled PROVE \E j \in Wares : HoldsWare(u, t, j)
    <3>1. PICK j \in Wares : HoldsWare(w, t, j)
      BY <1>0, <1>1 DEF WareHeld
    <3>2. u.kind[j] = w.kind[j]
      BY <1>1, <1>4, <3>1 DEF HoldsWare
    <3>3. HoldsWare(u, t, j)
      BY <1>1, <3>1, <3>2 DEF HoldsWare, E!HasEvent
    <3>4. QED BY <3>3
  <2>2. QED BY <2>1 DEF WareHeld
<1>6. InBalance(u)
  <2>1. Effective(u) = Effective(w)
    BY <1>1 DEF Effective
  <2>2. \A j \in Effective(w) : Speeds(w)[j] \in Int /\ Speeds(u)[j] = Speeds(w)[j]
    <3>1. \A j \in Effective(w) : j \in Wares /\ u.kind[j] = w.kind[j]
      BY <1>4 DEF Effective
    <3>2. \A j \in Wares : /\ Speeds(w)[j] = speed[w.kind[j]] /\ Speeds(w)[j] \in Int
                           /\ Speeds(u)[j] = speed[u.kind[j]]
      BY <1>0, <1>2, WareSpeeds
    <3>3. QED BY <3>1, <3>2
  <2>3. SumOf(Speeds(w), Effective(w)) = SumOf(Speeds(u), Effective(w))
    BY <1>0, <2>2, WareSpeeds, SumSame
  <2>4. QED BY <1>0, <1>1, <2>1, <2>3 DEF InBalance
<1>7. u.kind[i] = k /\ OthersKept(u, w, i)
  BY <1>0, <1>1, WearerParts DEF OthersKept
<1>8. QED BY <1>1, <1>2, <1>3, <1>5, <1>6, <1>7 DEF u, WellWorn

\* What an item does is put on: the sum gets one more summand.
LEMMA DonKeeps ==
    ASSUME E!EffectsAssumption, NEW w, WellWorn(w), NEW i \in Wares, E!HasEvent(w, i, w.at[i]), w.at[i] \in Slots,
           w.at[i] \notin w.enabled
    PROVE  /\ WellWorn(E!Don(w, w.at[i], w.kind[i])) /\ E!Don(w, w.at[i], w.kind[i]).at = w.at
           /\ w.at[i] \in E!Don(w, w.at[i], w.kind[i]).enabled
<1> DEFINE s == w.at[i]
           u == E!Don(w, s, w.kind[i])
<1>0. w \in E!Wearers /\ OnePerSlot(w) /\ WareHeld(w) /\ Shielded(w) /\ InBalance(w)
      /\ w.kind[i] \in WareKinds /\ "spell" # s
  BY WearerParts, WareKindsAre DEF WellWorn
<1>1. /\ u.kind = w.kind /\ u.at = w.at /\ u.enabled = w.enabled \cup {s}
      /\ u.varSpeed = w.varSpeed + speed[w.kind[i]] /\ u.delta = w.delta
      /\ u.shields = IF shield[w.kind[i]] THEN w.shields \cup {s} ELSE w.shields
  BY <1>0 DEF E!Don, E!Wearers
<1>2. u \in E!Wearers
  <2>1. w.varSpeed + speed[w.kind[i]] \in Int
    BY <1>0, WearerParts, WareKindsAre
  <2>2. QED BY <1>0, <2>1 DEF E!Don, E!Wearers
<1> HIDE DEF u
<1>3. OnePerSlot(u) /\ Shielded(u)
  BY <1>0, <1>1 DEF OnePerSlot, Shielded
<1>4. WareHeld(u)
  <2>1. ASSUME NEW t \in u.enabled PROVE \E j \in Wares : HoldsWare(u, t, j)
    <3>1. CASE t = s
      <4>1. s \notin w.shields
        BY <1>0 DEF Shielded
      <4>2. HoldsWare(u, s, i)
        BY <1>1, <4>1 DEF HoldsWare, E!HasEvent
      <4>3. QED BY <3>1, <4>2
    <3>2. CASE t # s
      <4>1. PICK j \in Wares : HoldsWare(w, t, j)
        BY <1>0, <1>1, <3>2 DEF WareHeld
      <4>2. HoldsWare(u, t, j)
        BY <1>1, <3>2, <4>1 DEF HoldsWare, E!HasEvent
      <4>3. QED BY <4>2
    <3>3. QED BY <3>1, <3>2
  <2>2. QED BY <2>1 DEF WareHeld
<1>5. InBalance(u)
  <2>1. Effective(u) \ {i} = Effective(w) /\ i \in Effective(u)
    BY <1>0, <1>1 DEF Effective, OnePerSlot
  <2>2. Speeds(u) = Speeds(w)
    BY <1>1 DEF Speeds
  <2>4. SumOf(Speeds(w), Effective(u)) = Speeds(w)[i] + SumOf(Speeds(w), Effective(w))
    <3>1. IsFiniteSet(Effective(u)) /\ \A j \in Effective(u) : Speeds(w)[j] \in Int
      BY <1>0, <1>2, WareSpeeds
    <3>2. QED BY <2>1, <3>1, SumIs
  <2>5. SumOf(Speeds(w), Effective(w)) \in Int
    <3>1. IsFiniteSet(Effective(w)) /\ \A j \in Effective(w) : Speeds(w)[j] \in Int
      BY <1>0, WareSpeeds
    <3>2. QED BY <3>1, SumIs
  <2>6. Speeds(w)[i] = speed[w.kind[i]] /\ speed[w.kind[i]] \in Int
    BY <1>0, WareSpeeds, WareKindsAre
  <2>7. w.delta["haste"] \in Int /\ w.delta["paralyze"] \in Int
    BY <1>0, WearerParts
  <2>8. w.varSpeed = w.delta["haste"] + w.delta["paralyze"] + SumOf(Speeds(w), Effective(w))
    BY <1>0 DEF InBalance
  <2>9. QED BY <1>1, <2>2, <2>4, <2>5, <2>6, <2>7, <2>8 DEF InBalance
<1>6. QED BY <1>1, <1>2, <1>3, <1>4, <1>5 DEF u, WellWorn

\* An item without effect is put where there is no other.
LEMMA MoveKeeps ==
    ASSUME E!EffectsAssumption, NEW w, WellWorn(w), NEW i \in Wares, w.at[i] \notin w.enabled,
           NEW p \in Slots \cup {"bag", "gone"}, p \notin w.enabled,
           p \in Slots => \A j \in Wares : w.at[j] # p
    PROVE  LET u == [w EXCEPT !.at[i] = p]
           IN WellWorn(u) /\ u.at[i] = p /\ u.kind = w.kind /\ OthersKept(u, w, i)
<1> DEFINE u == [w EXCEPT !.at[i] = p]
<1>0. w \in E!Wearers /\ OnePerSlot(w) /\ WareHeld(w) /\ Shielded(w) /\ InBalance(w)
      /\ w.at \in [Wares -> Slots \cup {"bag", "gone"}]
  BY WearerParts DEF WellWorn
<1>1. /\ u.kind = w.kind /\ u.at = [w.at EXCEPT ![i] = p] /\ u.enabled = w.enabled
      /\ u.varSpeed = w.varSpeed /\ u.delta = w.delta /\ u.shields = w.shields
  BY <1>0 DEF E!Wearers
<1>2. u \in E!Wearers
  BY <1>0 DEF E!Wearers
<1> HIDE DEF u
<1>3. u.at[i] = p /\ \A j \in Wares : j # i => u.at[j] = w.at[j]
  BY <1>0, <1>1
<1>4. OnePerSlot(u) /\ Shielded(u)
  BY <1>0, <1>1, <1>3 DEF OnePerSlot, Shielded
<1>5. WareHeld(u)
  <2>1. ASSUME NEW t \in u.enabled PROVE \E j \in Wares : HoldsWare(u, t, j)
    <3>1. PICK j \in Wares : HoldsWare(w, t, j)
      BY <1>0, <1>1 DEF WareHeld
    <3>2. j # i
      BY <1>1, <3>1 DEF HoldsWare
    <3>3. HoldsWare(u, t, j)
      BY <1>1, <1>3, <3>1, <3>2 DEF HoldsWare, E!HasEvent
    <3>4. QED BY <3>3
  <2>2. QED BY <2>1 DEF WareHeld
<1>6. InBalance(u)
  <2>1. Effective(u) = Effective(w)
    BY <1>1, <1>3 DEF Effective
  <2>2. Speeds(u) = Speeds(w)
    BY <1>1 DEF Speeds
  <2>3. QED BY <1>0, <1>1, <2>1, <2>2 DEF InBalance
<1>7. WellWorn(u) /\ u.at[i] = p /\ u.kind = w.kind /\ OthersKept(u, w, i)
  BY <1>1, <1>2, <1>3, <1>4, <1>5, <1>6 DEF WellWorn, OthersKept
<1>8. QED BY <1>7 DEF u

-----------------------------------------------------------------------------
(* The events                                                              *)

\* Afterwards the slot has no effect, whether it had or not: its item is the one the
\* invariant speaks of.
LEMMA StaysKeeps ==
    ASSUME E!EffectsAssumption, NEW w, WellWorn(w), NEW i \in Wares, w.at[i] \in Slots
    PROVE  /\ WellWorn(E!Stays(w, i, w.at[i])) /\ w.at[i] \notin E!Stays(w, i, w.at[i]).enabled
           /\ E!Stays(w, i, w.at[i]).at = w.at
<1> DEFINE s == w.at[i]
<1>1. CASE s \in w.enabled
  <2>1. E!HasEvent(w, i, s)
    <3>1. PICK j \in Wares : HoldsWare(w, s, j)
      BY <1>1 DEF WellWorn, WareHeld
    <3>2. j = i
      BY <3>1 DEF HoldsWare, OnePerSlot, WellWorn
    <3>3. QED BY <3>1, <3>2 DEF HoldsWare
  <2>2. E!Stays(w, i, s) = E!Doff(w, s, w.kind[i])
    BY <1>1, <2>1 DEF E!Stays
  <2>3. E!Doff(w, s, w.kind[i]).at = w.at
    BY DEF E!Doff, WellWorn, E!Wearers
  <2>4. QED BY <1>1, <2>2, <2>3, DoffKeeps
<1>2. CASE s \notin w.enabled
  BY <1>2 DEF E!Stays
<1>3. QED BY <1>1, <1>2

\* Done a second time for a kind without abilities, it changes nothing.
LEMMA DonAgain ==
    ASSUME NEW w \in E!Wearers, NEW s \in w.enabled, NEW k, speed[k] = 0, ~shield[k]
    PROVE  E!Don(w, s, k) = w
<1>1. w.enabled \cup {s} = w.enabled /\ w.varSpeed + speed[k] = w.varSpeed
  BY WearerParts
<1>2. E!Don(w, s, k) = [w EXCEPT !.enabled = w.enabled, !.varSpeed = w.varSpeed, !.shields = w.shields]
  BY <1>1 DEF E!Don
<1>3. QED BY <1>2 DEF E!Wearers

\* What turns when it is put on is put on as what it turns into, and once more as what
\* it was.
LEMMA EquipKeeps ==
    ASSUME E!EffectsAssumption, NEW w, WellWorn(w), NEW i \in Wares, w.at[i] \in Slots
    PROVE  WellWorn(E!EquipItem(w, i, w.at[i])) /\ E!EquipItem(w, i, w.at[i]).at = w.at
<1> DEFINE s == w.at[i]
           k == w.kind[i]
<1>0. w \in E!Wearers
  BY DEF WellWorn
<1>1. CASE ~E!Equips(w, i, s)
  BY <1>1 DEF E!EquipItem
<1>2. CASE E!Equips(w, i, s)
  <2>1. k \in active /\ slotOf[k] = s /\ s \notin w.enabled /\ w.fit
    BY <1>2 DEF E!Equips, E!HasEvent
  <2>2. CASE wears[k] = Nobody
    <3>1. E!EquipItem(w, i, s) = E!Don(w, s, k)
      BY <1>2, <2>2 DEF E!EquipItem
    <3>2. E!HasEvent(w, i, s)
      BY <2>1 DEF E!HasEvent
    <3>3. QED BY <2>1, <3>1, <3>2, DonKeeps
  <2>3. CASE wears[k] # Nobody
    <3> DEFINE v == E!SetKind(w, i, wears[k])
               u == E!Don(v, s, wears[k])
    <3>1. /\ speed[k] = 0 /\ ~shield[k] /\ wears[k] \in active /\ slotOf[wears[k]] = s
             /\ wears[k] \in WareKinds
      BY <2>1, <2>3, WareTurns, WareKindsAre
    <3>2. WellWorn(v) /\ v.at = w.at /\ v.enabled = w.enabled /\ v.fit = w.fit
          /\ v.kind[i] = wears[k]
      <4> DEFINE t == wears[k]
      <4>1. t \in WareKinds /\ w.at[i] \notin w.enabled
        BY <2>1, <3>1
      <4> HIDE DEF t
      <4>2. /\ WellWorn(E!SetKind(w, i, t)) /\ E!SetKind(w, i, t).at = w.at
               /\ E!SetKind(w, i, t).enabled = w.enabled
            /\ E!SetKind(w, i, t).fit = w.fit /\ E!SetKind(w, i, t).kind[i] = t
        BY <4>1, SetKindKeeps
      <4>3. QED BY <4>2 DEF t
    <3>3. E!Stays(w, i, s) = w
      BY <2>1 DEF E!Stays
    <3>4. E!EquipItem(w, i, s) = E!Don(E!EquipTurned(v, i, s), s, k)
      BY <1>2, <2>3, <3>3 DEF E!EquipItem, E!Turned, E!Worn
    <3> HIDE DEF v
    <3>5. E!HasEvent(v, i, s)
      BY <3>1, <3>2 DEF E!HasEvent
    <3>6. E!EquipTurned(v, i, s) = u
      BY <2>1, <3>2, <3>5 DEF E!EquipTurned, E!Equips
    <3>7. WellWorn(u) /\ u.at = w.at /\ s \in u.enabled
      <4>1. v.at[i] = s
        BY <3>2
      <4>2. QED BY <2>1, <3>2, <3>5, <4>1, DonKeeps
    <3> HIDE DEF u
    <3>8. E!Don(u, s, k) = u
      BY <3>1, <3>7, DonAgain DEF WellWorn
    <3>9. QED BY <3>4, <3>6, <3>7, <3>8
  <2>4. QED BY <2>2, <2>3
<1>3. QED BY <1>1, <1>2

LEMMA TransformKeeps ==
    ASSUME E!EffectsAssumption, NEW w, WellWorn(w), NEW i \in Wares, NEW k \in WareKinds
    PROVE  WellWorn(E!transformItem(w, i, k))
<1>1. CASE E!Worn(w, i)
  <2> DEFINE u == E!Stays(w, i, w.at[i])
             v == E!SetKind(u, i, k)
  <2>1. w.at[i] \in Slots
    BY <1>1 DEF E!Worn
  <2>2. WellWorn(u) /\ u.at = w.at /\ w.at[i] \notin u.enabled
    BY <2>1, StaysKeeps
  <2>3. E!transformItem(w, i, k) = E!EquipItem(v, i, w.at[i])
    BY <1>1 DEF E!transformItem
  <2> HIDE DEF u
  <2>4. WellWorn(v) /\ v.at = w.at
    BY <2>2, SetKindKeeps
  <2> HIDE DEF v
  <2>5. QED BY <2>1, <2>3, <2>4, EquipKeeps
<1>2. CASE ~E!Worn(w, i)
  <2>1. w.at[i] \notin w.enabled
    BY <1>2, WearerParts DEF WellWorn, E!Worn
  <2>2. QED BY <1>2, <2>1, SetKindKeeps DEF E!transformItem
<1>3. QED BY <1>1, <1>2

LEMMA EnabledHasEvent ==
    ASSUME NEW w, WellWorn(w), NEW i \in Wares, w.at[i] \in w.enabled
    PROVE  E!HasEvent(w, i, w.at[i])
<1>1. w.at[i] \in Slots
  BY WearerParts DEF WellWorn
<1>2. PICK j \in Wares : HoldsWare(w, w.at[i], j)
  BY DEF WellWorn, WareHeld
<1>3. j = i
  BY <1>1, <1>2 DEF HoldsWare, OnePerSlot, WellWorn
<1>4. QED BY <1>2, <1>3 DEF HoldsWare

\* Out of a slot: the same as if it were taken off first, then moved and turned.
LEMMA LeavesKeeps ==
    ASSUME E!EffectsAssumption, NEW w, WellWorn(w), NEW i \in Wares, w.at[i] \in Slots, NEW to \in {"bag", "gone"}
    PROVE  /\ WellWorn(E!Leaves(w, i, to)) /\ E!Leaves(w, i, to).at[i] = to
           /\ OthersKept(E!Leaves(w, i, to), w, i)
<1> DEFINE s == w.at[i]
           k == w.kind[i]
           m == [w EXCEPT !.at[i] = to]
<1>0. w \in E!Wearers /\ to \notin Slots /\ to \notin w.enabled
      /\ w.at \in [Wares -> Slots \cup {"bag", "gone"}]
      /\ w.kind \in [Wares -> WareKinds] /\ k \in WareKinds
  BY WearerParts, WareKindsAre DEF WellWorn
<1>1. m.kind = w.kind /\ m.enabled = w.enabled /\ m.at[i] = to
  BY <1>0 DEF E!Wearers
<1>2. CASE s \notin w.enabled
  <2>1. E!Leaves(w, i, to) = m
    BY <1>1, <1>2 DEF E!Leaves, E!DeEquipItem
  <2>2. WellWorn(m) /\ OthersKept(m, w, i)
    BY <1>0, <1>2, MoveKeeps
  <2> HIDE DEF m
  <2>3. QED BY <1>1, <2>1, <2>2
<1>3. CASE s \in w.enabled
  <2> DEFINE d == E!Doff(w, s, k)
             v == [d EXCEPT !.at[i] = to]
  <2>1. E!HasEvent(m, i, s)
    BY <1>1, <1>3, EnabledHasEvent DEF E!HasEvent
  <2>2. WellWorn(d) /\ d.at = w.at /\ d.kind = w.kind /\ s \notin d.enabled
        /\ d.enabled \subseteq Slots
    <3>1. d.at = w.at /\ d.kind = w.kind
      BY <1>0 DEF E!Doff, E!Wearers
    <3>2. WellWorn(d) /\ s \notin d.enabled
      BY <1>3, DoffKeeps
    <3>3. QED BY <3>1, <3>2, WearerParts DEF WellWorn
  <2>3. WellWorn(v) /\ v.at[i] = to /\ v.kind = w.kind /\ OthersKept(v, w, i)
    <3> HIDE DEF d
    <3>1. d.at[i] \notin d.enabled /\ to \notin d.enabled
      BY <1>0, <2>2
    <3>2. WellWorn(v) /\ v.at[i] = to /\ v.kind = d.kind /\ OthersKept(v, d, i)
      BY <1>0, <2>2, <3>1, MoveKeeps
    <3>3. QED BY <2>2, <3>2 DEF OthersKept
  <2>4. CASE unwears[k] # Nobody /\ to # "gone"
    <3>1. ~E!Worn(m, i) /\ unwears[k] \in WareKinds
      BY <1>0, <1>1, <2>4, WareKindsAre DEF E!Worn
    <3>2. E!Leaves(w, i, to) = E!Doff(E!SetKind(m, i, unwears[k]), s, k)
      BY <1>1, <1>3, <2>1, <2>4, <3>1 DEF E!Leaves, E!DeEquipItem, E!transformItem
    <3>3. E!Doff(E!SetKind(m, i, unwears[k]), s, k) = E!SetKind(v, i, unwears[k])
      BY <1>0, <1>1 DEF E!Doff, E!SetKind, E!Wearers
    <3>4. v.at[i] \notin v.enabled
      <4>1. v.enabled \subseteq Slots
        BY <2>3, WearerParts DEF WellWorn
      <4>2. QED BY <1>0, <2>3, <4>1
    <3> HIDE DEF v
    <3> DEFINE x == E!SetKind(v, i, unwears[k])
    <3>5. WellWorn(x) /\ x.at = v.at /\ OthersKept(x, v, i)
      <4> DEFINE t == unwears[k]
      <4>1. t \in WareKinds
        BY <3>1
      <4> HIDE DEF t
      <4>2. WellWorn(E!SetKind(v, i, t)) /\ E!SetKind(v, i, t).at = v.at
            /\ OthersKept(E!SetKind(v, i, t), v, i)
        BY <2>3, <3>4, <4>1, SetKindKeeps
      <4>3. QED BY <4>2 DEF t
    <3>6. E!Leaves(w, i, to) = x
      BY <3>2, <3>3
    <3> HIDE DEF x
    <3>7. QED BY <2>3, <3>5, <3>6 DEF OthersKept
  <2>5. CASE unwears[k] = Nobody \/ to = "gone"
    <3>1. E!Leaves(w, i, to) = E!Doff(m, s, k)
      BY <1>1, <1>3, <2>1, <2>5 DEF E!Leaves, E!DeEquipItem
    <3>2. E!Doff(m, s, k) = v
      BY <1>0, <1>1 DEF E!Doff, E!Wearers
    <3> HIDE DEF v
    <3>3. QED BY <2>3, <3>1, <3>2
  <2>6. QED BY <2>4, <2>5
<1>4. QED BY <1>2, <1>3

LEMMA EntersKeeps ==
    ASSUME E!EffectsAssumption, NEW w, WellWorn(w), NEW i \in Wares, w.at[i] \notin Slots,
           \A j \in Wares : w.at[j] # slotOf[w.kind[i]]
    PROVE  WellWorn(E!Enters(w, i))
<1> DEFINE s == slotOf[w.kind[i]]
           u == [w EXCEPT !.at[i] = s]
<1>0. w \in E!Wearers /\ w.kind[i] \in WareKinds /\ s \in Slots /\ w.enabled \subseteq Slots
      /\ w.at \in [Wares -> Slots \cup {"bag", "gone"}]
  BY WearerParts, WareKindsAre DEF WellWorn
<1>1. s \notin w.enabled
  BY DEF WellWorn, WareHeld, HoldsWare
<1>2. WellWorn(u) /\ u.at[i] = s
  <2>1. w.at[i] \notin w.enabled
    BY <1>0
  <2>2. QED BY <1>0, <1>1, <2>1, MoveKeeps
<1>3. E!Enters(w, i) \in {w, E!EquipItem(u, i, s)}
  BY DEF E!Enters
<1> HIDE DEF u
<1>4. WellWorn(E!EquipItem(u, i, s))
  BY <1>0, <1>2, EquipKeeps
<1>5. QED BY <1>3, <1>4

LEMMA RemovedKeeps ==
    ASSUME E!EffectsAssumption, NEW w, WellWorn(w), NEW i \in Wares
    PROVE  WellWorn(E!Removed(w, i))
<1>1. CASE E!Worn(w, i)
  <2>1. w.at[i] \in Slots /\ E!Removed(w, i) = E!Leaves(w, i, "gone")
    BY <1>1 DEF E!Worn, E!Removed
  <2>2. QED BY <2>1, LeavesKeeps
<1>2. CASE ~E!Worn(w, i)
  <2>1. w.at[i] \notin w.enabled /\ "gone" \notin Slots /\ "gone" \notin w.enabled
    BY <1>2, WearerParts, WareKindsAre DEF E!Worn, WellWorn
  <2> DEFINE m == [w EXCEPT !.at[i] = "gone"]
  <2>2. E!Removed(w, i) = m
    BY <1>2 DEF E!Removed
  <2>3. WellWorn(m)
    BY <2>1, MoveKeeps
  <2> HIDE DEF m
  <2>4. QED BY <2>2, <2>3
<1>3. QED BY <1>1, <1>2

-----------------------------------------------------------------------------
(* Conditions                                                              *)

\* What does not touch the items and keeps speed and conditions in balance.
SameWares(u, w) ==
    u.kind = w.kind /\ u.at = w.at /\ u.enabled = w.enabled
    /\ u.shields \subseteq w.shields \cup {"spell"}

LEMMA ConditionsKeep ==
    ASSUME E!EffectsAssumption, NEW w, WellWorn(w), NEW u \in E!Wearers, SameWares(u, w),
           u.varSpeed - u.delta["haste"] - u.delta["paralyze"] = w.varSpeed - w.delta["haste"] - w.delta["paralyze"]
    PROVE  WellWorn(u)
<1>1. w \in E!Wearers /\ OnePerSlot(w) /\ WareHeld(w) /\ Shielded(w) /\ InBalance(w)
  BY DEF WellWorn
<1>2. OnePerSlot(u) /\ Shielded(u)
  BY <1>1 DEF OnePerSlot, Shielded, SameWares
<1>3. WareHeld(u)
  <2>1. ASSUME NEW s \in u.enabled PROVE \E i \in Wares : HoldsWare(u, s, i)
    <3>1. PICK i \in Wares : HoldsWare(w, s, i)
      BY <1>1, <2>1 DEF WareHeld, SameWares
    <3>2. s # "spell"
      BY <2>1, WearerParts, WareKindsAre
    <3>3. HoldsWare(u, s, i)
      BY <3>1, <3>2 DEF HoldsWare, E!HasEvent, SameWares
    <3>4. QED BY <3>3
  <2>2. QED BY <2>1 DEF WareHeld
<1>4. Effective(u) = Effective(w) /\ Speeds(u) = Speeds(w)
  BY DEF Effective, Speeds, SameWares
<1>5. SumOf(Speeds(w), Effective(w)) \in Int
  <2>1. IsFiniteSet(Effective(w)) /\ \A j \in Effective(w) : Speeds(w)[j] \in Int
    BY <1>1, WareSpeeds
  <2>2. QED BY <2>1, SumIs
<1>6. /\ u.varSpeed \in Int /\ u.delta["haste"] \in Int /\ u.delta["paralyze"] \in Int
      /\ w.varSpeed \in Int /\ w.delta["haste"] \in Int /\ w.delta["paralyze"] \in Int
  BY <1>1, WearerParts
<1>7. InBalance(u)
  BY <1>1, <1>4, <1>5, <1>6 DEF InBalance
<1>8. QED BY <1>2, <1>3, <1>7 DEF WellWorn

LEMMA EndKeeps ==
    ASSUME E!EffectsAssumption, NEW w, WellWorn(w), NEW types
    PROVE  WellWorn(E!End(w, types))
<1> DEFINE u == E!End(w, types)
           a == E!Ended(w, types, "haste")
           b == E!Ended(w, types, "paralyze")
<1>0. w \in E!Wearers
  BY DEF WellWorn
<1>1. /\ w.varSpeed \in Int /\ w.delta["haste"] \in Int /\ w.delta["paralyze"] \in Int
      /\ w.delta \in [E!Types -> Int] /\ w.over \subseteq E!Types
  BY <1>0, WearerParts
<1>2. a \in Int /\ b \in Int
  BY <1>1 DEF E!Ended
<1> DEFINE e == [t \in E!Types |-> IF t \in types THEN 0 ELSE w.delta[t]]
<1>3. e \in [E!Types -> Int]
  BY <1>1
<1>4. e["haste"] = w.delta["haste"] - a /\ e["paralyze"] = w.delta["paralyze"] - b
  BY <1>1 DEF E!Types, E!Ended
<1>5. /\ u.varSpeed = w.varSpeed - a - b /\ u.delta = e /\ SameWares(u, w)
  BY <1>0 DEF E!End, SameWares, E!Wearers
<1>6. u \in E!Wearers
  <2> HIDE DEF a, b, e
  <2>1. w.varSpeed - a - b \in Int
    BY <1>1, <1>2
  <2>2. w.over \ types \subseteq E!Types
    BY <1>1
  <2>3. u = [w EXCEPT !.varSpeed = w.varSpeed - a - b, !.delta = e, !.over = w.over \ types]
    BY DEF E!End, a, b, e
  <2> HIDE DEF u
  <2>4. QED BY <1>0, <1>3, <2>1, <2>2, <2>3 DEF E!Wearers
<1> HIDE DEF u, a, b, e
<1>7. u.varSpeed - u.delta["haste"] - u.delta["paralyze"] = w.varSpeed - w.delta["haste"] - w.delta["paralyze"]
  BY <1>1, <1>2, <1>4, <1>5
<1>8. WellWorn(u)
  BY <1>5, <1>6, <1>7, ConditionsKeep
<1>9. QED BY <1>8 DEF u

LEMMA AddKeeps ==
    ASSUME E!EffectsAssumption, NEW w, WellWorn(w), NEW type \in E!Types, NEW d \in Int
    PROVE  WellWorn(E!addCondition(w, type, d))
<1> DEFINE v == w.varSpeed + d - w.delta[type]
           e == [w.delta EXCEPT ![type] = d]
           o == w.over \ {type}
           u == [w EXCEPT !.delta = e, !.varSpeed = v, !.over = o]
<1>0. w \in E!Wearers
  BY DEF WellWorn
<1>1. /\ w.varSpeed \in Int /\ w.delta["haste"] \in Int /\ w.delta["paralyze"] \in Int
      /\ w.delta \in [E!Types -> Int] /\ w.over \subseteq E!Types /\ w.delta[type] \in Int
  BY <1>0, WearerParts
<1>2. v \in Int /\ e \in [E!Types -> Int] /\ o \subseteq E!Types
  BY <1>1
<1>3. v - e["haste"] - e["paralyze"] = w.varSpeed - w.delta["haste"] - w.delta["paralyze"]
  BY <1>1 DEF E!Types
<1>4. E!addCondition(w, type, d) \in {u, E!End(u, {E!Other(type)})}
  BY DEF E!addCondition
<1> HIDE DEF v, e, o
<1>5. u \in E!Wearers /\ SameWares(u, w) /\ u.varSpeed = v /\ u.delta = e
  BY <1>0, <1>2 DEF SameWares, E!Wearers
<1> HIDE DEF u
<1>6. WellWorn(u)
  BY <1>3, <1>5, ConditionsKeep
<1>7. WellWorn(E!End(u, {E!Other(type)}))
  BY <1>6, EndKeeps
<1>8. QED BY <1>4, <1>6, <1>7

-----------------------------------------------------------------------------
(* A login                                                                 *)

LEMMA EquipWornKeeps ==
    ASSUME E!EffectsAssumption, NEW w, WellWorn(w), NEW i \in Wares
    PROVE  WellWorn(E!EquipWorn(i, w))
<1>1. CASE E!Worn(w, i)
  <2>1. w.at[i] \in Slots /\ E!EquipWorn(i, w) = E!EquipItem(w, i, w.at[i])
    BY <1>1 DEF E!Worn, E!EquipWorn
  <2>2. QED BY <2>1, EquipKeeps
<1>2. CASE ~E!Worn(w, i)
  BY <1>2 DEF E!EquipWorn
<1>3. QED BY <1>1, <1>2

\* Whatever the order in which he is equipped anew.
LEMMA EquippedAnew ==
    ASSUME E!EffectsAssumption, NEW stored, WellWorn(stored)
    PROVE  WellWorn(E!FoldSet(E!EquipWorn, stored, Wares))
<1> DEFINE X == {w \in E!Wearers : WellWorn(w)}
           g == [p \in Wares \X X |-> E!EquipWorn(p[1], p[2])]
           Is(f) == f = [s \in SUBSET Wares |-> IF s = {} THEN stored ELSE E!EquipWorn(Some(s), f[s \ {Some(s)}])]
           iter[s \in SUBSET Wares] == IF s = {} THEN stored ELSE E!EquipWorn(Some(s), iter[s \ {Some(s)}])
<1>0. E!FoldSet(E!EquipWorn, stored, Wares) = iter[Wares]
  BY DEF E!FoldSet, E!MapThenFoldSet, Some
<1>1. iter = CHOOSE f : Is(f)
  OBVIOUS
<1> HIDE DEF iter
<1>2. \A w : w \in X <=> WellWorn(w)
  BY DEF WellWorn
<1> HIDE DEF X
<1>3. \A i \in Wares, w \in X : E!EquipWorn(i, w) \in X
  BY <1>2, EquipWornKeeps
<1>4. g \in [Wares \X X -> X] /\ \A i \in Wares, w \in X : g[<<i, w>>] = E!EquipWorn(i, w)
  BY <1>3
<1>5. stored \in X /\ IsFiniteSet(Wares)
  BY <1>2, WareKindsAre
<1> HIDE DEF g
<1>6. PICK f \in [SUBSET Wares -> X] : Folded(f, Wares, stored, g)
  BY <1>4, <1>5, FoldExists
<1>7. ASSUME NEW s \in SUBSET Wares, s # {} PROVE Some(s) \in Wares
             /\ s \ {Some(s)} \in SUBSET Wares
  BY <1>7 DEF Some
<1>8. Is(f)
  <2>1. ASSUME NEW s \in SUBSET Wares
        PROVE  f[s] = IF s = {} THEN stored ELSE E!EquipWorn(Some(s), f[s \ {Some(s)}])
    <3>1. CASE s = {}
      BY <1>6, <3>1 DEF Folded
    <3>2. CASE s # {}
      <4>1. f[s] = g[<<Some(s), f[s \ {Some(s)}]>>]
        BY <1>6, <3>2 DEF Folded
      <4>2. Some(s) \in Wares /\ f[s \ {Some(s)}] \in X
        BY <1>6, <1>7, <3>2
      <4>3. QED BY <1>4, <3>2, <4>1, <4>2
    <3>3. QED BY <3>1, <3>2
  <2>2. QED BY <1>6, <2>1
<1>9. Is(iter)
  BY <1>1, <1>8
<1> DEFINE T == {s \in SUBSET Wares : iter[s] \in X}
<1>10. {} \in T
  BY <1>5, <1>9
<1>11. ASSUME NEW s \in SUBSET Wares, s # {}, s \ {Some(s)} \in T PROVE s \in T
  <2>1. iter[s] = E!EquipWorn(Some(s), iter[s \ {Some(s)}])
    BY <1>9, <1>11
  <2>2. Some(s) \in Wares /\ iter[s \ {Some(s)}] \in X
    BY <1>7, <1>11
  <2>3. QED BY <1>3, <2>1, <2>2
<1> HIDE DEF T
<1>12. Wares \in T
  BY <1>5, <1>10, <1>11, SetOfSubsets
<1>13. QED BY <1>0, <1>2, <1>12 DEF T

\* A new object for the player, who wears what he wore, without effect so far.
LEMMA FreshIsWellWorn ==
    ASSUME E!EffectsAssumption, NEW w, WellWorn(w), NEW end \in SUBSET {"spell"}
    PROVE  WellWorn([w EXCEPT !.enabled = {}, !.varSpeed = 0, !.delta = [t \in E!Types |-> 0], !.over = {},
                          !.shields = w.shields \ (Slots \cup end)])
<1> DEFINE u == [w EXCEPT !.enabled = {}, !.varSpeed = 0, !.delta = [t \in E!Types |-> 0], !.over = {},
                          !.shields = w.shields \ (Slots \cup end)]
<1>0. w \in E!Wearers /\ OnePerSlot(w) /\ w.shields \subseteq Slots \cup {"spell"}
  BY WearerParts DEF WellWorn
<1>1. /\ u.at = w.at /\ u.enabled = {} /\ u.varSpeed = 0 /\ u.delta = [t \in E!Types |-> 0]
      /\ u.shields = w.shields \ (Slots \cup end)
  BY <1>0 DEF E!Wearers
<1>2. u \in E!Wearers
  <2> DEFINE x == w.shields \ (Slots \cup end)
             e == [t \in E!Types |-> 0]
  <2>1. x \subseteq Slots \cup {"spell"} /\ e \in [E!Types -> Int]
    BY <1>0
  <2>2. u = [w EXCEPT !.enabled = {}, !.varSpeed = 0, !.delta = e, !.over = {}, !.shields = x]
    OBVIOUS
  <2> HIDE DEF x, e, u
  <2>3. u = [kind |-> w.kind, at |-> w.at, enabled |-> {}, varSpeed |-> 0, delta |-> e, over |-> {},
             shields |-> x, fit |-> w.fit]
    BY <1>0, <2>2 DEF E!Wearers
  <2>4. {} \in SUBSET Slots /\ {} \in SUBSET E!Types /\ 0 \in Int
    OBVIOUS
  <2>5. QED BY <1>0, <2>1, <2>3, <2>4, WearerParts, WearerRecord
<1> HIDE DEF u
<1>3. OnePerSlot(u) /\ WareHeld(u) /\ Shielded(u)
  BY <1>0, <1>1 DEF OnePerSlot, WareHeld, Shielded
<1>4. InBalance(u)
  <2>1. Effective(u) = {}
    BY <1>1 DEF Effective
  <2>2. SumOf(Speeds(u), {}) = 0
    <3>1. IsFiniteSet(Wares) /\ \A i \in Wares : Speeds(u)[i] \in Int
      BY <1>2, WareSpeeds, WareKindsAre
    <3>2. QED BY <3>1, SumIs
  <2>3. QED BY <1>1, <2>1, <2>2 DEF InBalance, E!Types
<1>5. WellWorn(u)
  BY <1>2, <1>3, <1>4 DEF WellWorn
<1>6. QED BY <1>5 DEF u

LEMMA LoginKeeps ==
    ASSUME E!EffectsAssumption, WellWorn(wearer), E!Login
    PROVE  WellWorn(wearer')
<1> DEFINE Fresh(end) == [wearer EXCEPT !.enabled = {}, !.varSpeed = 0, !.delta = [t \in E!Types |-> 0], !.over = {},
                                        !.shields = wearer.shields \ (Slots \cup end)]
           Stored(end, type, kept) ==
             IF kept /\ wearer.delta[type] # 0 THEN E!addCondition(Fresh(end), type, wearer.delta[type]) ELSE Fresh(end)
<1>1. PICK type \in E!Types, kept \in BOOLEAN, end \in SUBSET {"spell"} :
        wearer' = E!FoldSet(E!EquipWorn, Stored(end, type, kept), Wares)
  BY DEF E!Login
<1>2. WellWorn(Fresh(end))
  BY FreshIsWellWorn
<1>3. wearer.delta[type] \in Int
  BY WearerParts DEF WellWorn
<1> HIDE DEF Fresh
<1>4. WellWorn(Stored(end, type, kept))
  BY <1>2, <1>3, AddKeeps
<1> HIDE DEF Stored
<1>5. QED BY <1>1, <1>4, EquippedAnew

-----------------------------------------------------------------------------
(* All there is                                                            *)

LEMMA InitWellWorn ==
    ASSUME E!EffectsAssumption, E!Init
    PROVE  WellWorn(wearer)
<1>1. /\ wearer.kind \in Given /\ wearer.at = [i \in Wares |-> "bag"] /\ wearer.enabled = {}
         /\ wearer.varSpeed = 0
      /\ wearer.delta = [t \in E!Types |-> 0] /\ wearer.shields = {}
  BY DEF E!Init
<1>2. wearer \in E!Wearers
  <2> DEFINE kind == wearer.kind
             places == [i \in Wares |-> "bag"]
             delta == [t \in E!Types |-> 0]
  <2>1. kind \in [Wares -> WareKinds]
    BY <1>1 DEF E!EffectsAssumption
  <2>2. places \in [Wares -> Slots \cup {"bag", "gone"}] /\ delta \in [E!Types -> Int]
    OBVIOUS
  <2>3. {} \in SUBSET Slots /\ {} \in SUBSET E!Types /\ {} \in SUBSET (Slots \cup {"spell"})
        /\ 0 \in Int
        /\ TRUE \in BOOLEAN
    OBVIOUS
  <2>4. wearer = [kind |-> kind, at |-> places, enabled |-> {}, varSpeed |-> 0, delta |-> delta, over |-> {},
                  shields |-> {}, fit |-> TRUE]
    BY DEF E!Init
  <2> HIDE DEF kind, places, delta
  <2>5. [kind |-> kind, at |-> places, enabled |-> {}, varSpeed |-> 0, delta |-> delta, over |-> {},
         shields |-> {}, fit |-> TRUE] \in E!Wearers
    BY <2>1, <2>2, <2>3, WearerRecord
  <2>6. QED BY <2>4, <2>5
<1>3. OnePerSlot(wearer) /\ WareHeld(wearer) /\ Shielded(wearer)
  <2>1. \A i \in Wares : wearer.at[i] \notin Slots
    BY <1>1, WareKindsAre
  <2>2. QED BY <1>1, <2>1 DEF OnePerSlot, WareHeld, Shielded
<1>4. InBalance(wearer)
  <2>1. Effective(wearer) = {}
    BY <1>1 DEF Effective
  <2>2. SumOf(Speeds(wearer), {}) = 0
    <3>1. IsFiniteSet(Wares) /\ \A i \in Wares : Speeds(wearer)[i] \in Int
      BY <1>2, WareSpeeds, WareKindsAre
    <3>2. QED BY <3>1, SumIs
  <2>3. QED BY <1>1, <2>1, <2>2 DEF InBalance, E!Types
<1>5. QED BY <1>2, <1>3, <1>4 DEF WellWorn

\* Into a slot, in exchange if there is an item.
LEMMA MoveInKeeps ==
    ASSUME E!EffectsAssumption, WellWorn(wearer), NEW i \in Wares, E!MoveIn(i)
    PROVE  WellWorn(wearer')
<1> DEFINE s == slotOf[wearer.kind[i]]
<1>0. wearer.at[i] = "bag" /\ "bag" \notin Slots /\ s \in Slots
  BY WearerParts, WareKindsAre DEF E!MoveIn, WellWorn
<1>1. CASE \A j \in Wares : wearer.at[j] # s
  <2>1. wearer' = E!Enters(wearer, i)
    BY <1>1 DEF E!MoveIn
  <2>2. QED BY <1>0, <1>1, <2>1, EntersKeeps
<1>2. CASE \E j \in Wares : wearer.at[j] = s
  <2>1. PICK j \in Wares : wearer.at[j] = s /\ wearer' = E!Enters(E!Leaves(wearer, j, "bag"), i)
    BY <1>2 DEF E!MoveIn
  <2> DEFINE u == E!Leaves(wearer, j, "bag")
  <2>2. WellWorn(u) /\ u.at[j] = "bag" /\ OthersKept(u, wearer, j)
    BY <1>0, <2>1, LeavesKeeps
  <2>3. wearer' = E!Enters(u, i)
    BY <2>1
  <2> HIDE DEF u
  <2>4. j # i
    BY <1>0, <2>1
  <2>5. u.at[i] = "bag" /\ u.kind[i] = wearer.kind[i]
    BY <1>0, <2>2, <2>4 DEF OthersKept
  <2>6. ASSUME NEW h \in Wares PROVE u.at[h] # s
    <3>1. CASE h = j
      BY <1>0, <2>2, <3>1
    <3>2. CASE h # j
      BY <1>0, <2>1, <2>2, <3>2 DEF OthersKept, WellWorn, OnePerSlot
    <3>3. QED BY <3>1, <3>2
  <2>7. QED BY <1>0, <2>2, <2>3, <2>5, <2>6, EntersKeeps
<1>3. QED BY <1>1, <1>2

LEMMA NextKeepsWorn ==
    ASSUME E!EffectsAssumption, WellWorn(wearer), E!Next
    PROVE  WellWorn(wearer')
<1> USE DEF SameWares
<1>0. wearer \in E!Wearers
  BY DEF WellWorn
<1>1. ASSUME NEW i \in Wares, E!MoveOut(i) PROVE WellWorn(wearer')
  BY <1>1, LeavesKeeps DEF E!MoveOut, E!Worn
<1>2. ASSUME NEW i \in Wares, E!Destroy(i) PROVE WellWorn(wearer')
  BY <1>2, RemovedKeeps DEF E!Destroy
<1>3. ASSUME NEW i \in Wares, E!internalDecayItem(i) PROVE WellWorn(wearer')
  <2>1. wearer.kind[i] \in WareKinds
    BY <1>0, WearerParts
  <2>2. CASE wareDecayTo[wearer.kind[i]] = Nobody
    BY <1>3, <2>2, RemovedKeeps DEF E!internalDecayItem
  <2>3. CASE wareDecayTo[wearer.kind[i]] # Nobody
    <3> DEFINE k == wareDecayTo[wearer.kind[i]]
    <3>1. k \in WareKinds /\ wearer' = E!transformItem(wearer, i, k)
      BY <1>3, <2>1, <2>3, WareKindsAre DEF E!internalDecayItem
    <3> HIDE DEF k
    <3>2. QED BY <3>1, TransformKeeps
  <2>4. QED BY <2>2, <2>3
<1>4. CASE E!ChangeFit
  <2>1. wearer' \in E!Wearers /\ SameWares(wearer', wearer) /\ wearer'.varSpeed = wearer.varSpeed
        /\ wearer'.delta = wearer.delta
    BY <1>0, <1>4 DEF E!ChangeFit, E!Wearers
  <2>2. QED BY <2>1, ConditionsKeep
<1>5. CASE E!AddSpeed
  <2>1. \A d \in Hastes \cup Paralyses : d \in Int
    BY DEF E!EffectsAssumption
  <2>2. PICK type \in E!Types, d \in Int : wearer' = E!addCondition(wearer, type, d)
    BY <1>5, <2>1 DEF E!AddSpeed, E!Types
  <2>3. QED BY <2>2, AddKeeps
<1>6. CASE E!AddShield
  <2>1. wearer' \in E!Wearers /\ SameWares(wearer', wearer) /\ wearer'.varSpeed = wearer.varSpeed
        /\ wearer'.delta = wearer.delta
    BY <1>0, <1>6 DEF E!AddShield, E!Wearers
  <2>2. QED BY <2>1, ConditionsKeep
<1>7. CASE E!Expire
  <2>1. wearer' \in E!Wearers /\ SameWares(wearer', wearer) /\ wearer'.varSpeed = wearer.varSpeed
        /\ wearer'.delta = wearer.delta
    BY <1>0, <1>7 DEF E!Expire, E!Wearers
  <2>2. QED BY <2>1, ConditionsKeep
<1>8. CASE E!executeConditions
  <2> DEFINE u == E!End(wearer, wearer.over)
  <2>1. WellWorn(u)
    BY EndKeeps
  <2>2. PICK end \in SUBSET {"spell"} : wearer' = [u EXCEPT !.shields = u.shields \ end]
    BY <1>8 DEF E!executeConditions
  <2> HIDE DEF u
  <2>3. wearer' \in E!Wearers /\ SameWares(wearer', u) /\ wearer'.varSpeed = u.varSpeed
        /\ wearer'.delta = u.delta
    <3>1. u \in E!Wearers
      BY <2>1 DEF WellWorn
    <3>2. QED BY <2>2, <3>1 DEF E!Wearers
  <2>4. QED BY <2>1, <2>3, ConditionsKeep
<1>9. CASE E!RemoveSpeed
  BY <1>9, EndKeeps DEF E!RemoveSpeed
<1>10. CASE E!RemoveShield
  <2>1. wearer' \in E!Wearers /\ SameWares(wearer', wearer) /\ wearer'.varSpeed = wearer.varSpeed
        /\ wearer'.delta = wearer.delta
    BY <1>0, <1>10 DEF E!RemoveShield, E!Wearers
  <2>2. QED BY <2>1, ConditionsKeep
<1>11. QED
  BY <1>1, <1>2, <1>3, <1>4, <1>5, <1>6, <1>7, <1>8, <1>9, <1>10, MoveInKeeps, LoginKeeps DEF E!Next

LEMMA WellWornIsOwn ==
    ASSUME E!EffectsAssumption, WellWorn(wearer)
    PROVE  E!TypeOK /\ E!EffectsOwn
<1>0. wearer \in E!Wearers /\ OnePerSlot(wearer) /\ WareHeld(wearer) /\ Shielded(wearer)
      /\ InBalance(wearer)
  BY DEF WellWorn
<1>1. E!MapThenSumSet(LAMBDA i : E!SpeedOf[i], {i \in Wares : wearer.at[i] \in wearer.enabled})
        = SumOf(Speeds(wearer), Effective(wearer))
  BY DEF SumOf, E!SpeedOf, Speeds, Effective, E!MapThenSumSet, E!MapThenFoldSet,
         MapThenSumSet, MapThenFoldSet
<1>2. ASSUME NEW s \in wearer.enabled PROVE E!Cardinality(E!Wearing(s)) = 1
  <2>1. PICK i \in Wares : HoldsWare(wearer, s, i)
    BY <1>0, <1>2 DEF WareHeld
  <2>2. s \in Slots
    BY <1>0, <1>2, WearerParts
  <2>3. E!Wearing(s) = {i}
    BY <1>0, <2>1, <2>2 DEF E!Wearing, HoldsWare, OnePerSlot
  <2>4. Cardinality(E!Wearing(s)) = 1
    BY <2>3, FS_Singleton
  <2>5. E!Cardinality(E!Wearing(s)) = Cardinality(E!Wearing(s))
    BY DEF E!Cardinality, Cardinality
  <2>6. QED BY <2>4, <2>5
<1>3. wearer.shields \ {"spell"} \subseteq wearer.enabled
  BY <1>0 DEF Shielded
<1>4. QED BY <1>0, <1>1, <1>2, <1>3 DEF E!TypeOK, E!EffectsOwn, InBalance

-----------------------------------------------------------------------------
(* The world: each of its steps is one of a component, or leaves it alone  *)

LEMMA WorldHasHouse == WorldSpec => Spec
<1>1. WorldInit => Init
  BY DEF WorldInit
<1>2. [WorldNext]_worldVars => [Next]_rentVars
  BY DEF WorldNext, worldVars, rentVars
<1>3. QED BY <1>1, <1>2, PTL DEF WorldSpec, Spec

LEMMA WorldHasRaids == WorldSpec => R!Spec
<1>1. WorldInit => R!Init
  BY DEF WorldInit
<1>2. [WorldNext]_worldVars => [R!Next]_(R!raidVars)
  BY DEF WorldNext, worldVars, rVars, R!raidVars
<1>3. QED BY <1>1, <1>2, PTL DEF WorldSpec, R!Spec

LEMMA WorldHasSpawn == WorldSpec => S!Spec
<1>1. WorldInit => S!Init
  BY DEF WorldInit
<1>2. [WorldNext]_worldVars => [S!Next]_(S!spawnVars)
  BY DEF WorldNext, worldVars, sVars, S!spawnVars, S!monsterVars, S!checkVars
<1>3. QED BY <1>1, <1>2, PTL DEF WorldSpec, S!Spec

LEMMA WorldHasSight == WorldSpec => K!Spec
<1>1. WorldInit => K!Init
  BY DEF WorldInit
<1>2. [WorldNext]_worldVars => [K!Next]_(K!cacheVars)
  BY DEF WorldNext, worldVars, kVars, K!cacheVars
<1>3. QED BY <1>1, <1>2, PTL DEF WorldSpec, K!Spec

LEMMA WorldHasCreatures == WorldSpec => C!Spec
<1>1. WorldInit => C!Init
  BY DEF WorldInit
<1>2. [WorldNext]_worldVars => [C!Next]_(C!creatureVars)
  BY DEF WorldNext, worldVars, cVars, C!creatureVars, C!bodies, C!checks, C!visits
<1>3. QED BY <1>1, <1>2, PTL DEF WorldSpec, C!Spec

LEMMA WorldHasEffects == WorldSpec => E!Spec
<1>1. WorldInit => E!Init
  BY DEF WorldInit
<1>2. [WorldNext]_worldVars => [E!Next]_wearer
  BY DEF WorldNext, worldVars
<1>3. QED BY <1>1, <1>2, PTL DEF WorldSpec, E!Spec

LEMMA WorldHasDecay == WorldSpec => D!Spec
<1>1. WorldInit => D!Init
  BY DEF WorldInit
<1>2. [WorldNext]_worldVars => [D!Next]_(D!decayVars)
  BY DEF WorldNext, worldVars, dVars, D!decayVars, D!lists
<1>3. QED BY <1>1, <1>2, PTL DEF WorldSpec, D!Spec

LEMMA WorldHasWalk == WorldSpec => W!Spec
<1>1. WorldInit => W!Init
  BY DEF WorldInit
<1>2. [WorldNext]_worldVars => [W!Next]_walker
  BY DEF WorldNext, worldVars
<1>3. QED BY <1>1, <1>2, PTL DEF WorldSpec, W!Spec

\* Nobody loses a house for its rent before the days that the letters gave him, and no
\* step, a crash included, takes or gives a house that its row does not.
THEOREM LettersAreKept == WorldSpec => LettersKept
BY WorldAssumption, WorldHasHouse, RentKeepsLetters, PTL DEF WorldAssumption

\* The raid that is said to run goes on to its next event or waits for its things, no
\* other has an event, and whatever ended can start again.
THEOREM RaidsAlwaysGoOn == WorldSpec => []RaidsGoOn
<1>1. RaidInv => RaidsGoOn
  BY DEF RaidInv, RaidsGoOn
<1>2. R!RaidAssumption
  BY WorldAssumption DEF WorldAssumption
<1>3. QED BY <1>1, <1>2, WorldHasRaids, RaidInvariant, PTL

\* A place without a living monster has a check to come, or was emptied without one; the
\* spawn and its monsters know the same of each other, through removals and convincings
\* while the spawn is checked; and the references that a monster counts are those that
\* are held.
THEOREM SpawnsAlwaysRefill == WorldSpec => []SpawnsRefill
<1>1. S!SpawnAssumption
  BY WorldAssumption DEF WorldAssumption
<1>2. SpawnInv => SpawnsRefill
  BY <1>1, SpawnImplied DEF SpawnsRefill
<1>3. QED BY <1>1, <1>2, WorldHasSpawn, SpawnInvariant, PTL

\* For any creatures and buckets, whatever is placed, woken, killed, summoned, convinced
\* and removed while the loop runs: a creature has one reference for each place that
\* holds it and its object goes with the last one; it is in the one vector its mark
\* names, or on the way there; and those who have to think or to die have a visit to come.
THEOREM ChecksAreWhole == WorldSpec => []ChecksWhole
<1>1. C!CreaturesAssumption
  BY WorldAssumption DEF WorldAssumption
<1>2. C!Init => CheckInv
  BY <1>1, CheckInvInit
<1>3. CheckInv /\ [C!Next]_(C!creatureVars) => CheckInv'
  BY <1>1, CheckInvNext
<1>4. CheckInv => ChecksWhole
  BY <1>1, CheckInvImplies DEF CheckInv, ChecksWhole
<1>5. QED BY <1>2, <1>3, <1>4, WorldHasCreatures, PTL DEF C!Spec

\* For any items, kinds, chains of decays, times and number of buckets, whatever is
\* used, changed and removed between two looks of an item or while the loop runs: each
\* of the lists that have an item, and the world, hold one of its references; it goes
\* with the last one and once; and an item that is marked with time left is in a list.
THEOREM DecayIsWhole == WorldSpec => []DecayWhole
<1>1. D!DecayAssumption
  BY WorldAssumption DEF WorldAssumption
<1>2. D!Init => DecayInv
  BY <1>1, DecayInit
<1>3. DecayInv /\ [D!Next]_(D!decayVars) => DecayInv'
  BY <1>1, DecayNext
<1>4. DecayInv => DecayWhole
  BY <1>1, DecayInvSound DEF DecayWhole
<1>5. QED BY <1>2, <1>3, <1>4, WorldHasDecay, PTL DEF D!Spec

\* Steps that are left and an action that waits for the end of a walk have an event or a
\* task to come, but for those the code forgets; and there is one event at a time, with
\* one more for each that was stopped after it had fired.
THEOREM WalksAlwaysGoOn == WorldSpec => []WalksGoOn
<1>1. WalkBounds
  BY WorldAssumption, WalkBoundsAre DEF WorldAssumption
<1>2. W!Init => WalkInv
  BY <1>1, WalkInvInit
<1>3. WalkInv /\ [W!Next]_walker => WalkInv'
  BY <1>1, WalkInvNext
<1>4. WalkInv => WalksGoOn
  BY <1>1, WalkInvImplies DEF WalkInv, WalksGoOn
<1>5. QED BY <1>2, <1>3, <1>4, WorldHasWalk, PTL DEF W!Spec

\* What a monster believes of a tile in its sight is what the tile would answer, after
\* whatever steps and changes, for sights and maps of any size, but for the tiles that
\* are known to change unasked.
THEOREM CacheIsTrue == WorldSpec => []CacheTrue
<1>1. K!WalkCacheAssumption
  BY WorldAssumption DEF WorldAssumption
<1>2. CacheInv => CacheTrue
  BY DEF CacheInv, CacheTrue
<1>3. QED BY <1>1, <1>2, WorldHasSight, CacheInvariant, PTL

\* For any items that are worn, whatever they turn into when they are put on and taken
\* off, wear out and are exchanged for, and for any hastes and paralyses, whichever ends
\* first: the speed of a player is that of what has effect and of his conditions, each
\* slot with effect holds one item, and no shield outlasts the item that gave it.
THEOREM EffectsAreOwn == WorldSpec => []EffectsOwn
<1>1. E!EffectsAssumption
  BY WorldAssumption DEF WorldAssumption
<1>2. E!Init => WellWorn(wearer)
  BY <1>1, InitWellWorn
<1>3. WellWorn(wearer) /\ [E!Next]_wearer => WellWorn(wearer)'
  <2>1. WellWorn(wearer) /\ E!Next => WellWorn(wearer')
    BY <1>1, NextKeepsWorn
  <2>2. QED BY <2>1
<1>4. WellWorn(wearer) => EffectsOwn
  BY <1>1, WellWornIsOwn DEF EffectsOwn
<1>5. QED BY <1>2, <1>3, <1>4, WorldHasEffects, PTL DEF E!Spec
=============================================================================
