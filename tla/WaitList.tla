------------------------------ MODULE WaitList ------------------------------
(***************************************************************************)
(* The waiting list of a full server (waitlist.cpp).  A client that finds  *)
(* no place is put on the list, told a time after which to try again, and  *)
(* loses its place if it does not come back soon after that.               *)
(*                                                                         *)
(* Times are in seconds and pass in steps of Step.  An entry's timeout is  *)
(* kept as the time that is left.                                          *)
(***************************************************************************)
EXTENDS Lists, FiniteSets

CONSTANTS
    Clients,  \* a character and its address
    Premium,  \* those with a premium account
    Always,   \* those who may always log in
    Places,   \* MAX_PLAYERS
    SkipWait, \* PREMIUM_SKIP_WAIT
    Step

WaitAssumption ==
    /\ Premium \subseteq Clients /\ Always \subseteq Clients
    /\ Places \in Nat /\ SkipWait \in BOOLEAN /\ Step \in Nat \ {0}

VARIABLES
    waitList, \* entries: who, and the time left until the entry is stale
    online,
    told,     \* the time each client was last told to wait for
    since     \* the time since it was told

vars == <<waitList, online, told, since>>

getTime(slot) ==
    IF slot < 5 THEN 5 ELSE IF slot < 10 THEN 10 ELSE IF slot < 20 THEN 20
    ELSE IF slot < 50 THEN 60 ELSE 120
getTimeout(slot) == getTime(slot) + 15
Horizon == 135

Waiting == {waitList[i].who : i \in DOMAIN waitList}
Entry(c, slot) == [who |-> c, left |-> getTimeout(slot)]

TypeOK ==
    /\ waitList \in Seq([who : Clients, left : 0..Horizon])
    /\ online \subseteq Clients
    /\ \A i, j \in DOMAIN waitList : waitList[i].who = waitList[j].who => i = j
    /\ told \in [Clients -> {0, 5, 10, 20, 60, 120}] /\ since \in [Clients -> 0..Horizon]

Init ==
    /\ waitList = <<>> /\ online = {}
    /\ told = [c \in Clients |-> 0] /\ since = [c \in Clients |-> 0]

-----------------------------------------------------------------------------
\* Who need not wait: nobody is on the list and there is a place, or a privilege.
Passes(c) ==
    \/ c \in Always
    \/ waitList = <<>> /\ Cardinality(online) < Places
    \/ SkipWait /\ c \in Premium

\* A slip of cleanup: it forgets the 15 seconds.
CleanupEager == OnlyAt(waitList, {i \in DOMAIN waitList : waitList[i].left > 15})
Cleanup == OnlyAt(waitList, {i \in DOMAIN waitList : waitList[i].left > 0})

SlotIn(list, c) == CHOOSE i \in DOMAIN list : list[i].who = c
InList(list, c) == \E i \in DOMAIN list : list[i].who = c

\* Where a premium account is inserted: before the first that is not.
PremiumSlot(list) ==
    LET free == {i \in DOMAIN list : list[i].who \notin Premium} IN
    IF free = {} THEN Len(list) + 1 ELSE CHOOSE i \in free : \A j \in free : i <= j

InsertAt(list, i, e) == SubSeq(list, 1, i - 1) \o <<e>> \o SubSeq(list, i, Len(list))

Enter(c) == online' = online \cup {c} /\ told' = [told EXCEPT ![c] = 0]
StayOut(c, slot) == told' = [told EXCEPT ![c] = getTime(slot)] /\ UNCHANGED online

HasRoomBehind(slot) == Cardinality(online) + slot - 1 <= Places
HasRoom(slot) == Cardinality(online) + slot <= Places

\* A slip: who has to wait longer goes to the end.
TryAgainAtEnd(list, c) ==
    LET slot == SlotIn(list, c)
        rest == OnlyAt(list, DOMAIN list \ {slot}) IN
    \/ HasRoom(slot) /\ waitList' = rest /\ Enter(c)
    \/ ~HasRoom(slot) /\ waitList' = Append(rest, Entry(c, slot)) /\ StayOut(c, slot)

\* Found on the list: it enters if those before it leave room, or waits longer.
TryAgain(list, c) ==
    LET slot == SlotIn(list, c) IN
    \/ /\ HasRoom(slot)
       /\ waitList' = OnlyAt(list, DOMAIN list \ {slot}) /\ Enter(c)
    \/ /\ ~HasRoom(slot)
       /\ waitList' = [list EXCEPT ![slot] = Entry(c, slot)] /\ StayOut(c, slot)

Join(list, c) ==
    LET slot == IF c \in Premium THEN PremiumSlot(list) ELSE Len(list) + 1 IN
    waitList' = InsertAt(list, slot, Entry(c, slot)) /\ StayOut(c, slot)

\* WaitingList::login, when the client logs in.
Login(c) ==
    /\ c \notin online
    /\ IF Passes(c) THEN Enter(c) /\ UNCHANGED waitList
       ELSE IF InList(Cleanup, c) THEN TryAgain(Cleanup, c) ELSE Join(Cleanup, c)
    /\ since' = [since EXCEPT ![c] = 0]

Logout(c) ==
    /\ c \in online /\ online' = online \ {c}
    /\ UNCHANGED <<waitList, told, since>>

\* Time passes, for as long as somebody's time still runs.
Tick ==
    /\ \E c \in Clients : since[c] < Horizon /\ c \notin online /\ told[c] > 0
    /\ waitList' = [i \in DOMAIN waitList |->
                      [waitList[i] EXCEPT !.left = IF @ > Step THEN @ - Step ELSE 0]]
    /\ since' = [c \in Clients |->
                   IF c \in online \/ told[c] = 0 THEN since[c]
                   ELSE IF since[c] + Step < Horizon THEN since[c] + Step ELSE Horizon]
    /\ UNCHANGED <<online, told>>

Next == Tick \/ \E c \in Clients : Login(c) \/ Logout(c)

Spec == Init /\ [][Next]_vars

-----------------------------------------------------------------------------
(* Properties                                                              *)

\* Whoever needs the list enters only if there is a place for him and one for
\* each that waits before him.
EntersIntoAPlace ==
    \A c \in Clients \ Always :
       c \in online' \ online /\ ~(SkipWait /\ c \in Premium) =>
          /\ Cardinality(online') <= Places
          /\ \A i \in DOMAIN waitList :
               waitList[i].who = c /\ waitList[i].left > 0 =>
                  LET before == {j \in 1..(i - 1) : waitList[j].left > 0} IN
                  Cardinality(online') + Cardinality(before) <= Places

\* A client that comes back within 15 seconds of its time finds its place.
KeepsPlace ==
    \A c \in Clients \ online :
        told[c] > 0 /\ since[c] < told[c] + 15 => c \in Waiting

Before(list, a, b) ==
    \E i, j \in DOMAIN list : i < j /\ list[i].who = a /\ list[j].who = b /\ list[i].left > 0

\* Nobody is overtaken on the list by one of his own kind, and no premium account
\* by one that is not.
NoOvertaking ==
    \A a, b \in Clients :
       /\ Before(waitList, a, b) /\ (b \in Premium => a \in Premium)
       /\ a \in {waitList'[i].who : i \in DOMAIN waitList'}
       => ~Before(waitList', b, a)

\* Places are taken in turn: every step enters and orders the list as these two say
\* (login with its early returns, the premium slot and cleanup).
PlacesInTurn == [][EntersIntoAPlace /\ NoOvertaking]_vars
=============================================================================
