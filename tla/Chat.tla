-------------------------------- MODULE Chat --------------------------------
(***************************************************************************)
(* Private chat channels (chat.cpp) and the reports of rule violations     *)
(* that gamemasters answer (game.cpp), both of which keep pointers to      *)
(* players.  What is said, the public channels and who is told of a change *)
(* are left out.                                                           *)
(***************************************************************************)
EXTENDS Integers, FiniteSets

CONSTANTS
    Players, NoPlayer,
    Premium, \* those who may have a channel of their own
    Staff,   \* those who may answer reports
    Slots    \* the ids 100 and above

ChatAssumption ==
    /\ IsFiniteSet(Players) /\ Premium \subseteq Players /\ Staff \subseteq Players
    /\ NoPlayer \notin Players /\ Slots \subseteq Nat /\ IsFiniteSet(Slots)

VARIABLES
    online,
    owner,   \* of the channel in each slot, by guid; NoPlayer if there is no channel
    invites, \* by guid, which outlives a logout
    users,   \* pointers
    reports, \* the keys of Game::ruleViolations
    answerer \* RuleViolation::gamemaster; NoPlayer while the report is open

channelVars == <<owner, invites, users>>
reportVars == <<reports, answerer>>
vars == <<online, channelVars, reportVars>>

TypeOK ==
    /\ online \subseteq Players
    /\ owner \in [Slots -> Players \cup {NoPlayer}]
    /\ invites \in [Slots -> SUBSET Players] /\ users \in [Slots -> SUBSET Players]
    /\ reports \subseteq Players /\ answerer \in [Players -> Staff \cup {NoPlayer}]

Init ==
    /\ online = {} /\ reports = {} /\ answerer = [p \in Players |-> NoPlayer]
    /\ owner = [s \in Slots |-> NoPlayer]
    /\ invites = [s \in Slots |-> {}] /\ users = [s \in Slots |-> {}]

-----------------------------------------------------------------------------
(* Private channels                                                        *)

Owned(p) == {s \in Slots : owner[s] = p}
Free == {s \in Slots : owner[s] = NoPlayer}
isInvited(s, p) == p = owner[s] \/ p \in invites[s]

CreateChannel(p) ==
    /\ p \in online \cap Premium /\ Owned(p) = {}
    /\ \E s \in Free :
         /\ \A t \in Free : s <= t
         /\ owner' = [owner EXCEPT ![s] = p] /\ users' = [users EXCEPT ![s] = {p}]
    /\ UNCHANGED <<online, invites, reportVars>>

Invite(p, q) ==
    /\ {p, q} \subseteq online /\ p # q
    /\ \E s \in Owned(p) :
         q \notin invites[s] /\ invites' = [invites EXCEPT ![s] = @ \cup {q}]
    /\ UNCHANGED <<online, owner, users, reportVars>>

\* Slip: who is excluded may stay.
WithoutNobody(s, q) == users
WithoutUser(s, q) == [users EXCEPT ![s] = @ \ {q}]

Exclude(p, q) ==
    /\ {p, q} \subseteq online /\ p # q
    /\ \E s \in Owned(p) :
         /\ q \in invites[s] /\ invites' = [invites EXCEPT ![s] = @ \ {q}]
         /\ users' = WithoutUser(s, q)
    /\ UNCHANGED <<online, owner, reportVars>>

OpenChannel(p, s) ==
    /\ p \in online /\ isInvited(s, p) /\ p \notin users[s]
    /\ users' = [users EXCEPT ![s] = @ \cup {p}]
    /\ UNCHANGED <<online, owner, invites, reportVars>>

\* Deleted with its owner's leave, and with it its invitations.
CloseChannel(p, s) ==
    /\ p \in online /\ isInvited(s, p) /\ p \in users[s]
    /\ \/ owner[s] # p /\ users' = [users EXCEPT ![s] = @ \ {p}] /\ UNCHANGED <<owner, invites>>
       \/ /\ owner[s] = p
          /\ owner' = [owner EXCEPT ![s] = NoPlayer]
          /\ invites' = [invites EXCEPT ![s] = {}] /\ users' = [users EXCEPT ![s] = {}]
    /\ UNCHANGED <<online, reportVars>>

-----------------------------------------------------------------------------
(* Reports                                                                 *)

Without(r) == /\ reports' = reports \ r
              /\ answerer' = [p \in Players |-> IF p \in r THEN NoPlayer ELSE answerer[p]]

\* A new report takes the place of an old one.
Report(p) ==
    /\ p \in online /\ reports' = reports \cup {p}
    /\ answerer' = [answerer EXCEPT ![p] = NoPlayer]
    /\ UNCHANGED <<online, channelVars>>

Process(g, p) ==
    /\ {g, p} \subseteq online /\ g \in Staff
    /\ p \in reports /\ answerer[p] = NoPlayer
    /\ answerer' = [answerer EXCEPT ![p] = g]
    /\ UNCHANGED <<online, reports, channelVars>>

\* By the one who reported, or by anybody who names him.
CloseReport(p) == p \in online \cap reports /\ Without({p}) /\ UNCHANGED <<online, channelVars>>

-----------------------------------------------------------------------------
(* Players that come and go                                                *)

Login(p) == p \notin online /\ online' = online \cup {p} /\ UNCHANGED <<channelVars, reportVars>>

\* The reports that somebody who leaves answers are closed.
ReportsOf(p) == {p} \cap reports
ReportsWith(p) == {q \in reports : q = p \/ (p \in Staff /\ answerer[q] = p)}

\* onCreatureDisappear, removeUserFromAllChannels.
Disappear(p) ==
    /\ p \in online /\ online' = online \ {p}
    /\ Without(ReportsWith(p))
    /\ owner' = [s \in Slots |-> IF owner[s] = p THEN NoPlayer ELSE owner[s]]
    /\ invites' = [s \in Slots |-> IF owner[s] = p THEN {} ELSE invites[s]]
    /\ users' = [s \in Slots |-> IF owner[s] = p THEN {} ELSE users[s] \ {p}]

\* The loop over the channels goes on from the one it has deleted: where that is
\* its last there is no next, and the program may end.
RunsOff(p) ==
    /\ p \in online /\ Owned(p) # {}
    /\ online' = {} /\ reports' = {} /\ answerer' = [q \in Players |-> NoPlayer]
    /\ owner' = [s \in Slots |-> NoPlayer]
    /\ invites' = [s \in Slots |-> {}] /\ users' = [s \in Slots |-> {}]

Next ==
    \E p \in Players :
      \/ CreateChannel(p) \/ Report(p) \/ CloseReport(p)
      \/ Login(p) \/ Disappear(p) \/ RunsOff(p)
      \/ \E q \in Players : Invite(p, q) \/ Exclude(p, q) \/ Process(p, q)
      \/ \E s \in Slots : OpenChannel(p, s) \/ CloseChannel(p, s)

Spec == Init /\ [][Next]_vars

-----------------------------------------------------------------------------
(* Properties                                                              *)

\* A private channel has an owner who is in the game and has no other, and its users,
\* who are pointers, are in the game and are its owner or invited at this time, however
\* they were invited, excluded, came and went (PrivateChatChannel, removeUserFromAllChannels).
ChannelsKept ==
    \A s \in Slots :
       /\ users[s] \subseteq online
       /\ \A p \in users[s] : isInvited(s, p)
       /\ owner[s] # NoPlayer => owner[s] \in users[s] /\ Owned(owner[s]) = {s}
       /\ owner[s] = NoPlayer => users[s] = {} /\ invites[s] = {}

\* A report has pointers to two players, who are in the game both
\* (playerContinueReport, cancelRuleViolation).
ReportsLive == reports \cup {answerer[p] : p \in reports} \subseteq online \cup {NoPlayer}

\* Whoever talks in a channel or about a report is there: neither keeps a pointer to a
\* player who has left (chat.cpp, and the reports of game.cpp).
TalkersLive == ChannelsKept /\ ReportsLive
=============================================================================
