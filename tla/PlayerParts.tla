---------------------------- MODULE PlayerParts -----------------------------
(***************************************************************************)
(* The components about players, one beside the other: `part' is the one   *)
(* that moves, from a choice at the start, while the others keep still; it *)
(* may also be one of those that a module which extends this one adds.     *)
(* Private channels are the component Chat; the others are instances.      *)
(***************************************************************************)
EXTENDS Chat, Sequences

CONSTANTS
    OtherParts,                                      \* that a module adds
    Clients, Subscribers, Always, Places, SkipWait, Step,  \* of WaitList
    Protocols, ReplaceKick,                          \* of Session
    Partners, Addresses, NoParty, SelfInvites,       \* of Party
    GuildPlayers, Guilds, DeleteMayFail,             \* of Guild
    Lookers, Tiles, Near, Bags, Coins, Cids, Gone,   \* of Windows
    expFor, reqTries, reqMana, TopLevel, TopSkill,   \* of Progress
    Gains, Losses, Counts, LossPercent, VocationGain, BeginnerGain, ToLevel, LevelTo, Huge, MaxMagic

VARIABLES
    part,
    waitList, waitOnline, told, since,
    conn, player, accepts, protoRef, eventConnect, events, before, queue,
    stage, thingRef, client, isConnecting, checks, releaseThings,
    partyOnline, partyAttached, partyOf, invitations, parties, leader, memberList, inviteList, partyUsers,
    guildOnline, rank, invited, row, invRow, guilds, guildOwner, guildChannels,
    pos, parent, contents, open, window,
    level, experience, healthMax, vocation, skill, magic, inGame, trained

wVars == <<waitList, waitOnline, told, since>>
sVars == <<conn, player, accepts, protoRef, eventConnect, events, before, queue,
           stage, thingRef, client, isConnecting, checks, releaseThings>>
pVars == <<partyOnline, partyAttached, partyOf, invitations, parties, leader, memberList, inviteList, partyUsers>>
gVars == <<guildOnline, rank, invited, row, invRow, guilds, guildOwner, guildChannels>>
oVars == <<pos, parent, contents, open, window>>
lVars == <<level, experience, healthMax, vocation, skill, magic, inGame, trained>>
playersVars == <<part, wVars, sVars, pVars, gVars, oVars, lVars, vars>>

W == INSTANCE WaitList WITH Premium <- Subscribers, online <- waitOnline
S == INSTANCE Session WITH NoProtocol <- NoPlayer
P == INSTANCE Party WITH
    Players <- Partners, online <- partyOnline, attached <- partyAttached, users <- partyUsers
G == INSTANCE Guild WITH
    Players <- GuildPlayers, online <- guildOnline, owner <- guildOwner, channels <- guildChannels
O == INSTANCE Windows WITH Players <- Lookers
L == INSTANCE Progress

Parts == {"waitlist", "session", "party", "guild", "chat", "windows", "progress"}

ASSUME PlayersAssumption ==
    /\ Parts \cap OtherParts = {}
    /\ W!WaitAssumption /\ S!SessionAssumption /\ P!PartyAssumption
    /\ G!GuildAssumption /\ ChatAssumption /\ O!WindowsAssumption /\ L!ProgressAssumption

PlayersInit ==
    /\ part \in Parts \cup OtherParts
    /\ W!Init /\ S!Init /\ P!Init /\ G!Init /\ O!Init /\ L!Init /\ Init

PlayersNext ==
    /\ UNCHANGED part
    /\ \/ part = "waitlist" /\ W!Next /\ UNCHANGED <<sVars, pVars, gVars, oVars, lVars, vars>>
       \/ part = "session" /\ S!Next /\ UNCHANGED <<wVars, pVars, gVars, oVars, lVars, vars>>
       \/ part = "party" /\ P!Next /\ UNCHANGED <<wVars, sVars, gVars, oVars, lVars, vars>>
       \/ part = "guild" /\ G!Next /\ UNCHANGED <<wVars, sVars, pVars, oVars, lVars, vars>>
       \/ part = "windows" /\ O!Next /\ UNCHANGED <<wVars, sVars, pVars, gVars, lVars, vars>>
       \/ part = "progress" /\ L!Next /\ UNCHANGED <<wVars, sVars, pVars, gVars, oVars, vars>>
       \/ part = "chat" /\ Next /\ UNCHANGED <<wVars, sVars, pVars, gVars, oVars, lVars>>

PlayersSpec == PlayersInit /\ [][PlayersNext]_playersVars

-----------------------------------------------------------------------------
(* The properties of the components, of which their modules tell, with the *)
(* types of their variables, for the part that moves                       *)

\* Waiting list: a client that comes back in time finds its place.
KeepsPlace == part = "waitlist" => W!TypeOK /\ W!KeepsPlace
\* Waiting list: nobody takes a place over the limit, or of one who waits before him,
\* and nobody is overtaken by his own kind.
PlacesInTurn == W!PlacesInTurn

\* Session: no pointer to a player or protocol outlives it, and one session plays a
\* character.
SessionsSound == part = "session" => S!TypeOK /\ S!SessionsSound
\* Session: who waits for a client has an event that brings it.
ConnectingHasEvent == part = "session" => S!ConnectingHasEvent

\* Party: players and parties know the same of each other, and the users of party
\* channels are in the game.
PartiesAgree == part = "party" => P!TypeOK /\ P!PartiesAgree
\* Guild: ranks, in the game or in the database, are those of guilds that are there.
RanksStand == part = "guild" => G!TypeOK /\ G!RanksStand

\* Windows: what a player has open is within his reach, and his client shows it as it is.
WindowsTrue == part = "windows" => O!TypeOK /\ O!WindowsTrue

\* Progress: level, experience, health and skills fit each other.
NumbersFit == part = "progress" => L!TypeOK /\ L!NumbersFit
=============================================================================
