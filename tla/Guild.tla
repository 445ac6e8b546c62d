------------------------------- MODULE Guild --------------------------------
(***************************************************************************)
(* Guilds: the commands of the guild channel (Chat::talkToChannel), the    *)
(* talkactions that form and join one, IOGuild, and what a login loads and *)
(* a save writes.                                                          *)
(*                                                                         *)
(* The rank of a player in the game is in his object, that of any other in *)
(* his row of the database; each command has a branch for either.  A       *)
(* command that is refused (a war, a level, no premium) is no step.  Guild *)
(* ids are numbers that SQLite, the engine of config.lua, gives as one     *)
(* more than the greatest in use.  Nicks, rank names, wars and who listens *)
(* to the channel are left out.                                            *)
(***************************************************************************)
EXTENDS Integers, FiniteSets

CONSTANTS
    Players, Guilds, NoPlayer,
    DeleteMayFail \* is DELETE with a LIMIT refused, as by most builds of SQLite?

GuildAssumption ==
    /\ IsFiniteSet(Players) /\ NoPlayer \notin Players
    /\ Guilds \subseteq Nat \ {0} /\ IsFiniteSet(Guilds)
    /\ DeleteMayFail \in BOOLEAN

VARIABLES
    online,
    rank,     \* Player::guildId and guildLevel, of players in the game
    invited,  \* Player::invitedToGuildsList
    row,      \* players.rank_id, as the guild and the level of the rank
    invRow,   \* guild_invites
    guilds,   \* the rows of guilds
    owner,    \* guilds.ownerid
    channels  \* the keys of Chat::m_guildChannels

memory == <<online, rank, invited>>
database == <<row, invRow, guilds, owner>>
vars == <<memory, database, channels>>

Member == 1
Vice == 2
Leader == 3
NoRank == [guild |-> 0, level |-> 0]
Ranks == [guild : Guilds, level : Member..Leader] \cup {NoRank}

TypeOK ==
    /\ online \subseteq Players
    /\ rank \in [Players -> Ranks] /\ row \in [Players -> Ranks]
    /\ invited \in [Players -> SUBSET Guilds] /\ invRow \in [Players -> SUBSET Guilds]
    /\ guilds \subseteq Guilds /\ owner \in [Guilds -> Players \cup {NoPlayer}]
    /\ channels \subseteq Guilds

Init ==
    /\ online = {}
    /\ rank = [p \in Players |-> NoRank] /\ row = rank
    /\ invited = [p \in Players |-> {}] /\ invRow = invited
    /\ guilds = {} /\ owner = [g \in Guilds |-> NoPlayer]
    /\ channels = {}

-----------------------------------------------------------------------------
(* A player's rank, wherever it is, and the commands on it                 *)

GuildOf(p) == rank[p].guild
RankOf(p) == IF p \in online THEN rank[p] ELSE row[p]
InGuild(p, g) == RankOf(p).guild = g /\ g # 0

\* talkToChannel: the guild has a channel and exists, and p has a rank of some level.
Commands(p, levels) ==
    p \in online /\ GuildOf(p) \in channels \cap guilds /\ rank[p].level \in levels

\* Player::setGuildLevel or IOGuild::setGuildLevel: the rank of that level of the guild.
Ranked(ranks, p, level) == [ranks EXCEPT ![p].level = level]

\* Player::leaveGuild.
LeaveGuild(out) == rank' = [p \in Players |-> IF p \in out THEN NoRank ELSE rank[p]]

-----------------------------------------------------------------------------
(* Forming, joining and disbanding                                         *)

IsNewId(id) ==
    /\ id - 1 \in guilds \/ (guilds = {} /\ id = 1)
    /\ \A g \in guilds : g < id

\* IOGuild::createGuild finds the new guild by its owner, and so the first he owns.
Create(p) ==
    /\ p \in online /\ rank[p] = NoRank
    /\ \E id \in Guilds :
         /\ IsNewId(id) /\ guilds' = guilds \cup {id} /\ owner' = [owner EXCEPT ![id] = p]
         /\ \E first \in guilds' :
              /\ owner'[first] = p /\ \A g \in guilds' : owner'[g] = p => first <= g
              /\ rank' = [rank EXCEPT ![p] = [guild |-> first, level |-> Leader]]
              /\ row' = [row EXCEPT ![p] = rank'[p]]
    /\ invited' = [invited EXCEPT ![p] = {}]
    /\ UNCHANGED <<online, invRow, channels>>

\* TalkAction::guildJoin.
Join(p, g) ==
    /\ p \in online /\ rank[p] = NoRank /\ g \in guilds \cap invited[p]
    /\ rank' = [rank EXCEPT ![p] = [guild |-> g, level |-> Member]]
    /\ row' = [row EXCEPT ![p] = rank'[p]]
    /\ invited' = [invited EXCEPT ![p] = {}]
    /\ UNCHANGED <<online, invRow, guilds, owner, channels>>

\* Slip: the rows of players in the game are left to their next save.
RowsOutside(g) == [q \in Players |-> IF row[q].guild = g /\ q \notin online THEN NoRank ELSE row[q]]
RowsWithout(g) == [q \in Players |-> IF row[q].guild = g THEN NoRank ELSE row[q]]

\* disbandGuild: the invitations that players in the game hold stay, and so does
\* all of the guild but its members where its row cannot be deleted.
Disband(p) ==
    LET g == GuildOf(p) IN
    /\ Commands(p, {Leader})
    /\ row' = RowsWithout(g)
    /\ LeaveGuild({q \in online : GuildOf(q) = g})
    /\ \/ /\ guilds' = guilds \ {g} /\ owner' = [owner EXCEPT ![g] = NoPlayer]
          /\ invRow' = [q \in Players |-> invRow[q] \ {g}]
       \/ DeleteMayFail /\ UNCHANGED <<guilds, owner, invRow>>
    /\ UNCHANGED <<online, invited, channels>>

Quit(p) ==
    /\ Commands(p, {Member, Vice}) /\ LeaveGuild({p})
    /\ UNCHANGED <<online, invited, database, channels>>

-----------------------------------------------------------------------------
(* Commands about a player in the game, and about one who is not           *)

Invite(p, q) ==
    LET g == GuildOf(p) IN
    /\ Commands(p, {Vice, Leader}) /\ RankOf(q) = NoRank
    /\ \/ /\ q \in online /\ g \notin invited[q]
          /\ invited' = [invited EXCEPT ![q] = @ \cup {g}] /\ UNCHANGED invRow
       \/ /\ q \notin online /\ g \notin invRow[q]
          /\ invRow' = [invRow EXCEPT ![q] = @ \cup {g}] /\ UNCHANGED invited
    /\ UNCHANGED <<online, rank, row, guilds, owner, channels>>

Revoke(p, q) ==
    LET g == GuildOf(p) IN
    /\ Commands(p, {Vice, Leader})
    /\ \/ /\ q \in online /\ rank[q] = NoRank /\ g \in invited[q]
          /\ invited' = [invited EXCEPT ![q] = @ \ {g}] /\ UNCHANGED invRow
       \/ /\ q \notin online /\ g \in invRow[q]
          /\ invRow' = [invRow EXCEPT ![q] = @ \ {g}] /\ UNCHANGED invited
    /\ UNCHANGED <<online, rank, row, guilds, owner, channels>>

\* promote and demote.
Move(p, q, from, to) ==
    /\ Commands(p, {Leader}) /\ InGuild(q, GuildOf(p)) /\ RankOf(q).level = from
    /\ \/ q \in online /\ rank' = Ranked(rank, q, to) /\ UNCHANGED row
       \/ q \notin online /\ row' = Ranked(row, q, to) /\ UNCHANGED rank
    /\ UNCHANGED <<online, invited, invRow, guilds, owner, channels>>

\* passleadership: only to one in the game does the guild's owner change.
PassLeadership(p, q) ==
    LET g == GuildOf(p) IN
    /\ Commands(p, {Leader}) /\ InGuild(q, g) /\ RankOf(q).level = Vice
    /\ \/ /\ q \in online
          /\ rank' = Ranked(Ranked(rank, q, Leader), p, Vice)
          /\ owner' = [owner EXCEPT ![g] = q] /\ UNCHANGED row
       \/ /\ q \notin online
          /\ row' = Ranked(row, q, Leader) /\ rank' = Ranked(rank, p, Vice)
          /\ UNCHANGED owner
    /\ UNCHANGED <<online, invited, invRow, guilds, channels>>

\* kick: one who is not in the game whatever his rank is.
Kick(p, q) ==
    /\ Commands(p, {Leader}) /\ InGuild(q, GuildOf(p))
    /\ \/ q \in online /\ rank[q].level < Leader /\ LeaveGuild({q}) /\ UNCHANGED row
       \/ q \notin online /\ row' = [row EXCEPT ![q] = NoRank] /\ UNCHANGED rank
    /\ UNCHANGED <<online, invited, invRow, guilds, owner, channels>>

-----------------------------------------------------------------------------
(* The channel, and players that come and go                               *)

\* A client asks for the channels, which makes that of the guild.
OpenChannel(p) ==
    /\ p \in online /\ GuildOf(p) # 0
    /\ channels' = channels \cup {GuildOf(p)}
    /\ UNCHANGED <<memory, database>>

\* loadPlayer: invitations are loaded for those without a rank.
LoginRank(p) == IF row[p].guild \in guilds THEN row[p] ELSE NoRank
Login(p) ==
    /\ p \notin online /\ online' = online \cup {p}
    /\ rank' = [rank EXCEPT ![p] = LoginRank(p)]
    /\ invited' = [invited EXCEPT ![p] = IF row[p] = NoRank THEN invRow[p] ELSE {}]
    /\ UNCHANGED <<database, channels>>

\* savePlayer, in one transaction.
SavedRank(p) == IF GuildOf(p) \in guilds THEN rank[p] ELSE NoRank
Save(p) ==
    /\ row' = [row EXCEPT ![p] = SavedRank(p)]
    /\ invRow' = [invRow EXCEPT ![p] = invited[p]]

Logout(p) ==
    /\ p \in online /\ online' = online \ {p}
    /\ Save(p)
    /\ rank' = [rank EXCEPT ![p] = NoRank] /\ invited' = [invited EXCEPT ![p] = {}]
    /\ UNCHANGED <<guilds, owner, channels>>

AutoSave(p) == p \in online /\ Save(p) /\ UNCHANGED <<memory, guilds, owner, channels>>

\* The program ends without a save, and what is in the database is what there is.
Crash ==
    /\ online # {} /\ online' = {}
    /\ rank' = [p \in Players |-> NoRank] /\ invited' = [p \in Players |-> {}]
    /\ channels' = {}
    /\ UNCHANGED database

Next ==
    \/ Crash
    \/ \E p \in Players :
         \/ Create(p) \/ Disband(p) \/ Quit(p) \/ OpenChannel(p)
         \/ Login(p) \/ Logout(p) \/ AutoSave(p)
         \/ \E g \in Guilds : Join(p, g)
         \/ \E q \in Players :
              \/ Invite(p, q) \/ Revoke(p, q) \/ PassLeadership(p, q) \/ Kick(p, q)
              \/ Move(p, q, Member, Vice) \/ Move(p, q, Vice, Member)

Spec == Init /\ [][Next]_vars

-----------------------------------------------------------------------------
(* Properties                                                              *)

\* Whoever has a rank, in the game or in the database, has it in a guild that is there:
\* no disbanding leaves a rank behind, in a player's object or in his row, which the
\* next guild of that id would make its own (IOGuild::disbandGuild, loadPlayer).
RanksStand == \A p \in Players : {RankOf(p).guild, row[p].guild} \subseteq guilds \cup {0}

\* Who forms a guild leads that one: 'You have formed guild' (talkaction.cpp:875).
FormsHisOwn ==
    [][\A p \in Players : \A g \in guilds' \ guilds :
         owner'[g] = p => rank'[p].guild = g]_vars
=============================================================================
