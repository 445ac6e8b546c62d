------------------------------- MODULE Party --------------------------------
(***************************************************************************)
(* Parties, their invitations and their chat channel (party.cpp; the       *)
(* handlers of game.cpp; Player::onCreatureDisappear; Chat::getChannel).   *)
(*                                                                         *)
(* A party is an object at an address, which a later party may get again.  *)
(* Everything runs in the dispatcher thread: an action is a task.  Who of  *)
(* the members was first is not kept: any may become the leader.  Shared   *)
(* experience is left out.                                                 *)
(***************************************************************************)
EXTENDS Integers, FiniteSets

CONSTANTS
    Players, NoPlayer,
    Addresses, NoParty,
    SelfInvites  \* may players ask for an invitation of themselves?

PartyAssumption ==
    /\ NoPlayer \notin Players /\ NoParty \notin Addresses /\ SelfInvites \in BOOLEAN
    /\ IsFiniteSet(Players)

VARIABLES
    online,
    attached,    \* players with a connection
    partyOf,     \* Player::party
    invitations, \* Player::invitePartyList
    parties,     \* the addresses where a party is
    leader,
    memberList,
    inviteList,
    users        \* of the channel that Chat::m_partyChannels has for an address

vars == <<online, attached, partyOf, invitations, parties, leader, memberList, inviteList, users>>

TypeOK ==
    /\ online \subseteq Players /\ attached \subseteq online
    /\ partyOf \in [Players -> Addresses \cup {NoParty}]
    /\ invitations \in [Players -> SUBSET Addresses]
    /\ parties \subseteq Addresses
    /\ leader \in [Addresses -> Players \cup {NoPlayer}]
    /\ memberList \in [Addresses -> SUBSET Players]
    /\ inviteList \in [Addresses -> SUBSET Players]
    /\ users \in [Addresses -> SUBSET Players]

Init ==
    /\ online = Players /\ attached = Players
    /\ partyOf = [p \in Players |-> NoParty] /\ invitations = [p \in Players |-> {}]
    /\ parties = {} /\ leader = [a \in Addresses |-> NoPlayer]
    /\ memberList = [a \in Addresses |-> {}] /\ inviteList = [a \in Addresses |-> {}]
    /\ users = [a \in Addresses |-> {}]

-----------------------------------------------------------------------------
(* Lists that have changed, and the parties that end by that               *)

CanDisband(members, invited, a) == members[a] = {} /\ invited[a] = {}

\* Who is sent the closing of the channel is its user no more, if he has a
\* connection, and a party to find the channel by.
Closes(a, lead, members) == {p \in attached : p = lead[a] \/ p \in members[a]}

\* The lists are now these, players `out` have no party any more, and then the
\* parties in `gone` are disbanded: those on their lists lose party or invitation.
Settle(lead, members, invited, out, gone) ==
    /\ parties' = parties \ gone
    /\ leader' = [a \in Addresses |-> IF a \in gone THEN NoPlayer ELSE lead[a]]
    /\ memberList' = [a \in Addresses |-> IF a \in gone THEN {} ELSE members[a]]
    /\ inviteList' = [a \in Addresses |-> IF a \in gone THEN {} ELSE invited[a]]
    /\ partyOf' = [p \in Players |-> IF p \in out \/ partyOf[p] \in gone THEN NoParty ELSE partyOf[p]]

Uninvited(gone, invited) ==
    [p \in Players |-> {a \in invitations[p] : ~(a \in gone /\ p \in invited[a])}]
Silenced(gone, lead, members, out, off) ==
    [a \in Addresses |->
       (IF a \in gone THEN users[a] \ (Closes(a, lead, members) \ out) ELSE users[a]) \ off]

-----------------------------------------------------------------------------
(* Invitations                                                             *)

LeadsOwn(p) == partyOf[p] # NoParty /\ leader[partyOf[p]] = p
IsInviting(p, q) == LeadsOwn(p) /\ q \in inviteList[partyOf[p]]

\* playerInviteToParty, for a player who leads a party, or makes one.
InviteInto(a, q) ==
    /\ inviteList' = [inviteList EXCEPT ![a] = @ \cup {q}]
    /\ invitations' = [invitations EXCEPT ![q] = @ \cup {a}]

Invite(p, q) ==
    /\ {p, q} \subseteq online /\ (p = q => SelfInvites)
    /\ ~IsInviting(q, p) /\ partyOf[q] = NoParty
    /\ \/ /\ LeadsOwn(p) /\ q \notin inviteList[partyOf[p]]
          /\ InviteInto(partyOf[p], q)
          /\ UNCHANGED <<parties, leader, partyOf>>
       \/ /\ partyOf[p] = NoParty
          /\ \E a \in Addresses \ parties :
               /\ parties' = parties \cup {a} /\ leader' = [leader EXCEPT ![a] = p]
               /\ partyOf' = [partyOf EXCEPT ![p] = a]
               /\ InviteInto(a, q)
    /\ UNCHANGED <<online, attached, memberList, users>>

\* playerJoinParty, Party::join.
Join(p, q) ==
    LET a == partyOf[q] IN
    /\ {p, q} \subseteq online /\ IsInviting(q, p) /\ partyOf[p] = NoParty
    /\ memberList' = [memberList EXCEPT ![a] = @ \cup {p}]
    /\ partyOf' = [partyOf EXCEPT ![p] = a]
    /\ invitations' = [invitations EXCEPT ![p] = @ \ {a}]
    /\ inviteList' = [inviteList EXCEPT ![a] = @ \ {p}]
    /\ UNCHANGED <<online, attached, parties, leader, users>>

\* Parties without p on their lists of invitations, and those of them that end.
NotInviting(p, from) == [a \in Addresses |-> IF a \in from THEN inviteList[a] \ {p} ELSE inviteList[a]]
\* Slip: the lists are looked at too early.
EndBefore(p, from) == {a \in from : CanDisband(memberList, inviteList, a)}
EndWithout(p, from) == {a \in from : CanDisband(memberList, NotInviting(p, from), a)}

\* playerRevokePartyInvitation, Party::removeInvite.
Revoke(p, q) ==
    LET a == partyOf[p]
        invited == NotInviting(q, {a})
        gone == EndWithout(q, {a})
    IN /\ {p, q} \subseteq online /\ IsInviting(p, q)
       /\ Settle(leader, memberList, invited, {}, gone)
       /\ invitations' = [Uninvited(gone, invited) EXCEPT ![q] = @ \ {a}]
       /\ users' = Silenced(gone, leader, memberList, {}, {})
       /\ UNCHANGED <<online, attached>>

-----------------------------------------------------------------------------
(* Leaders and members                                                     *)

PassLeadership(p, q) ==
    LET a == partyOf[p] IN
    /\ {p, q} \subseteq online /\ LeadsOwn(p) /\ partyOf[q] = a /\ q \in memberList[a]
    /\ leader' = [leader EXCEPT ![a] = q]
    /\ memberList' = [memberList EXCEPT ![a] = (@ \ {q}) \cup {p}]
    /\ UNCHANGED <<online, attached, partyOf, invitations, parties, inviteList, users>>

\* Party::leave: a leader passes the party on, unless one member would be left alone.
\* The player has no party any more when his channel is closed, so it is not found.
MissingLeader(p, a) ==
    /\ leader[a] = p
    /\ memberList[a] = {} \/ (Cardinality(memberList[a]) = 1 /\ inviteList[a] = {})
NextLeaders(p, a) == IF leader[a] = p /\ ~MissingLeader(p, a) THEN memberList[a] ELSE {leader[a]}

\* p leaves its party, after others in `ended` have been disbanded, with p taken from
\* some lists of invitations already, which p forgets, and from the channels if `off`.
Leave(p, ended, invited, forgets, off) ==
    LET a == partyOf[p] IN
    \E next \in NextLeaders(p, a) :
      LET lead == [leader EXCEPT ![a] = next]
          members == [memberList EXCEPT ![a] = @ \ {p, next}]
          left == [invited EXCEPT ![a] = @ \ {p}]
          gone == ended \cup IF MissingLeader(p, a) \/ CanDisband(members, left, a) THEN {a} ELSE {}
      IN /\ Settle(lead, members, left, {p}, gone)
         /\ invitations' = [Uninvited(gone, left) EXCEPT ![p] = @ \ forgets]
         /\ users' = Silenced(gone, lead, members, {p}, off)

LeaveParty(p) ==
    /\ p \in online /\ partyOf[p] # NoParty
    /\ Leave(p, {}, inviteList, {}, {})
    /\ UNCHANGED <<online, attached>>

-----------------------------------------------------------------------------
(* The channel, and players that come and go                               *)

ChannelOf(p) == {partyOf[p]} \ {NoParty}

OpenChannel(p) ==
    /\ p \in online
    /\ \E a \in ChannelOf(p) : users' = [users EXCEPT ![a] = @ \cup {p}]
    /\ UNCHANGED <<online, attached, partyOf, invitations, parties, leader, memberList, inviteList>>

CloseChannel(p) ==
    /\ p \in online
    /\ \E a \in ChannelOf(p) : users' = [users EXCEPT ![a] = @ \ {p}]
    /\ UNCHANGED <<online, attached, partyOf, invitations, parties, leader, memberList, inviteList>>

\* onCreatureDisappear: a logout, a death or a kick.  Invitations are cleared first,
\* which may end even the player's own party; then he leaves it, and every channel.
Disappear(p) ==
    LET cleared == invitations[p]
        invited == NotInviting(p, cleared)
        gone == EndWithout(p, cleared)
    IN /\ p \in online
       /\ online' = online \ {p} /\ attached' = attached \ {p}
       /\ IF partyOf[p] \in {NoParty} \cup gone
          THEN /\ Settle(leader, memberList, invited, {p}, gone)
               /\ invitations' = [Uninvited(gone, invited) EXCEPT ![p] = {}]
               /\ users' = Silenced(gone, leader, memberList, {}, {p})
          ELSE Leave(p, gone, invited, cleared, {p})

Login(p) ==
    /\ p \notin online /\ online' = online \cup {p} /\ attached' = attached \cup {p}
    /\ UNCHANGED <<partyOf, invitations, parties, leader, memberList, inviteList, users>>

\* A connection is lost in a fight, and the player stays in the game.
LoseConnection(p) ==
    /\ p \in attached /\ attached' = attached \ {p}
    /\ UNCHANGED <<online, partyOf, invitations, parties, leader, memberList, inviteList, users>>

Next ==
    \/ \E p, q \in Players : Invite(p, q) \/ Join(p, q) \/ Revoke(p, q) \/ PassLeadership(p, q)
    \/ \E p \in Players : \/ LeaveParty(p) \/ OpenChannel(p) \/ CloseChannel(p)
                          \/ Disappear(p) \/ Login(p) \/ LoseConnection(p)

Spec == Init /\ [][Next]_vars

-----------------------------------------------------------------------------
(* Properties                                                              *)

InParty(a) == {p \in Players : p = leader[a] \/ p \in memberList[a]}

\* Players and parties know the same of each other, through every logout, death,
\* refusal and change of leaders: a player's party is there and has him, once; a party
\* has a leader who is in the game, and somebody else, a member or an invited one; and
\* a player holds the invitations of the parties that have him on their lists, and of
\* no other (Party::leave, join, removeInvite, disband; clearPartyInvitations).
\* A channel's users are in the game, as it holds pointers to them and outlives its
\* party (Chat::removeUserFromAllChannels).
PlayersKnown == \A p \in Players : partyOf[p] # NoParty => partyOf[p] \in parties
PartyKnown ==
    \A a \in parties :
       /\ leader[a] \in online /\ memberList[a] \subseteq online /\ inviteList[a] \subseteq online
       /\ leader[a] \notin memberList[a]
       /\ InParty(a) = {p \in Players : partyOf[p] = a} /\ InParty(a) \cap inviteList[a] = {}
       /\ memberList[a] # {} \/ inviteList[a] # {}
InvitationsKnown ==
    \A p \in Players : invitations[p] = {a \in parties : p \in inviteList[a]}
UsersOnline == \A a \in Addresses : users[a] \subseteq online
PartiesAgree == PlayersKnown /\ PartyKnown /\ InvitationsKnown /\ UsersOnline

\* The party channel is for one's companions: "Open the party channel to communicate
\* with your companions." (party.cpp:163).
ChannelOfCompanions == \A a \in parties : users[a] \subseteq InParty(a)
=============================================================================
