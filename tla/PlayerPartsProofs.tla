-------------------------- MODULE PlayerPartsProofs --------------------------
(***************************************************************************)
(* What holds of the components about players for all values of their      *)
(* constants.  Each section is about one component: its inductive          *)
(* invariant, and that each of its actions keeps it; then that the         *)
(* composition implements it, and so what follows.                         *)
(***************************************************************************)
EXTENDS PlayerParts, RecursionProofs, TLAPS

-----------------------------------------------------------------------------
(* Private channels and reports, for every set of players and of slots     *)

\* The inductive invariant: an answer is given to a report only.
Answered == \A p \in Players : answerer[p] # NoPlayer => p \in reports
ChatInv == TypeOK /\ ChannelsKept /\ ReportsLive /\ Answered

LEMMA InitChat ==
    ASSUME ChatAssumption, Init
    PROVE  ChatInv
<1> USE DEF Init
<1>1. TypeOK
  BY DEF TypeOK
<1>2. ChannelsKept
  BY DEF ChannelsKept, TypeOK
<1>3. ReportsLive /\ Answered
  BY DEF ReportsLive, Answered
<1>4. QED BY <1>1, <1>2, <1>3 DEF ChatInv

-----------------------------------------------------------------------------
(* The actions on channels leave the reports alone                         *)

LEMMA ChannelStep ==
    ASSUME ChatAssumption, ChatInv, NEW p \in Players, NEW q \in Players,
           \/ CreateChannel(p) \/ Invite(p, q) \/ Exclude(p, q)
           \/ \E s \in Slots : OpenChannel(p, s) \/ CloseChannel(p, s)
    PROVE  ChatInv'
<1> USE ChatAssumption DEF ChatInv, TypeOK, ChannelsKept, Owned, isInvited, ChatAssumption
<1>0. online' = online /\ UNCHANGED reportVars
  BY DEF CreateChannel, Invite, Exclude, OpenChannel, CloseChannel
<1>1. ReportsLive' /\ Answered'
  BY <1>0 DEF ReportsLive, Answered, reportVars
<1>2. CASE CreateChannel(p)
  BY <1>0, <1>1, <1>2 DEF CreateChannel, Free, reportVars
<1>3. CASE Invite(p, q)
  <2>1. PICK t \in Slots : /\ owner[t] = p /\ invites' = [invites EXCEPT ![t] = @ \cup {q}]
    BY <1>3 DEF Invite
  <2>2. TypeOK'
    BY <1>0, <1>3, <2>1 DEF Invite, reportVars
  <2>3. UNCHANGED <<online, owner, users>>
    BY <1>3 DEF Invite
  <2>4. ChannelsKept'
    BY <2>1, <2>3
  <2>5. QED BY <1>1, <2>2, <2>4
<1>4. CASE Exclude(p, q)
  BY <1>0, <1>1, <1>4 DEF Exclude, WithoutUser, reportVars
<1>5. ASSUME NEW s \in Slots, OpenChannel(p, s) PROVE ChatInv'
  BY <1>0, <1>1, <1>5 DEF OpenChannel, reportVars
<1>6. ASSUME NEW s \in Slots, CloseChannel(p, s) PROVE ChatInv'
  BY <1>0, <1>1, <1>6 DEF CloseChannel, reportVars
<1>7. QED BY <1>2, <1>3, <1>4, <1>5, <1>6

-----------------------------------------------------------------------------
(* Reports, and players that come and go                                   *)

LEMMA ReportStep ==
    ASSUME ChatAssumption, ChatInv, NEW p \in Players, NEW q \in Players,
           \/ Report(p) \/ CloseReport(p) \/ Process(p, q)
           \/ Login(p) \/ Disappear(p) \/ RunsOff(p)
    PROVE  ChatInv'
<1> USE DEF ChatInv, TypeOK, ReportsLive, Answered, reportVars, channelVars
<1>1. CASE Report(p)
  BY <1>1 DEF Report, ChannelsKept, Owned, isInvited
<1>2. CASE CloseReport(p)
  BY <1>2 DEF CloseReport, Without, ChannelsKept, Owned, isInvited
<1>3. CASE Process(p, q)
  BY <1>3, ChatAssumption DEF Process, ChatAssumption, ChannelsKept, Owned, isInvited
<1>4. CASE Login(p)
  BY <1>4 DEF Login, ChannelsKept, Owned, isInvited
<1>5. CASE Disappear(p)
  <2> USE DEF Disappear, Without, ReportsWith
  <2>1. TypeOK' /\ Answered'
    BY <1>5
  <2>2. ReportsLive'
    BY <1>5, ChatAssumption DEF ChatAssumption
  <2>3. ChannelsKept'
    BY <1>5, ChatAssumption DEF ChannelsKept, Owned, isInvited, ChatAssumption
  <2>4. QED BY <2>1, <2>2, <2>3
<1>6. CASE RunsOff(p)
  BY <1>6 DEF RunsOff, ChannelsKept
<1>7. QED BY <1>1, <1>2, <1>3, <1>4, <1>5, <1>6

LEMMA ChatInvariant ==
    ASSUME ChatAssumption
    PROVE  Spec => []ChatInv
<1>1. Init => ChatInv
  BY InitChat
<1>2. ChatInv /\ [Next]_vars => ChatInv'
  <2> SUFFICES ASSUME ChatInv, [Next]_vars PROVE ChatInv'
    OBVIOUS
  <2>1. CASE Next
    <3>1. PICK p \in Players :
            \/ CreateChannel(p) \/ Report(p) \/ CloseReport(p)
            \/ Login(p) \/ Disappear(p) \/ RunsOff(p)
            \/ \E q \in Players : Invite(p, q) \/ Exclude(p, q) \/ Process(p, q)
            \/ \E s \in Slots : OpenChannel(p, s) \/ CloseChannel(p, s)
      BY <2>1 DEF Next
    <3>2. CASE CreateChannel(p) \/ \E s \in Slots : OpenChannel(p, s) \/ CloseChannel(p, s)
      BY <3>2, ChannelStep
    <3>3. CASE Report(p) \/ CloseReport(p) \/ Login(p) \/ Disappear(p) \/ RunsOff(p)
      BY <3>3, ReportStep
    <3>4. CASE \E q \in Players : Invite(p, q) \/ Exclude(p, q) \/ Process(p, q)
      BY <3>4, ChannelStep, ReportStep
    <3>5. QED BY <3>1, <3>2, <3>3, <3>4
  <2>2. CASE UNCHANGED vars
    BY <2>2 DEF vars, channelVars, reportVars, ChatInv, TypeOK, ChannelsKept, ReportsLive, Answered,
                Owned, isInvited
  <2>3. QED BY <2>1, <2>2
<1>3. QED BY <1>1, <1>2, PTL DEF Spec

-----------------------------------------------------------------------------
(* Guilds, whether or not the database can delete the row of one           *)

\* The inductive invariant: that a rank stands needs no more than its type.
GuildInv == G!TypeOK /\ G!RanksStand

\* What a change of level does to ranks: the guild stays.
LEMMA RankedKeepsGuild ==
    ASSUME G!GuildAssumption, NEW ranks \in [GuildPlayers -> G!Ranks], NEW q \in GuildPlayers,
           ranks[q].guild # 0, NEW l \in G!Member..G!Leader
    PROVE  /\ G!Ranked(ranks, q, l) \in [GuildPlayers -> G!Ranks]
           /\ \A r \in GuildPlayers : G!Ranked(ranks, q, l)[r].guild = ranks[r].guild
<1>1. ranks[q] \in [guild : Guilds, level : G!Member..G!Leader]
  BY DEF G!Ranks, G!NoRank
<1>2. [ranks[q] EXCEPT !.level = l] \in G!Ranks
  BY <1>1 DEF G!Ranks
<1>3. [ranks[q] EXCEPT !.level = l].guild = ranks[q].guild
  BY <1>1
<1>4. G!Ranked(ranks, q, l) = [ranks EXCEPT ![q] = [ranks[q] EXCEPT !.level = l]]
  BY DEF G!Ranked
<1>5. QED BY <1>2, <1>3, <1>4

-----------------------------------------------------------------------------
LEMMA RankStep ==
    ASSUME G!GuildAssumption, GuildInv, NEW p \in GuildPlayers, NEW q \in GuildPlayers,
           \/ G!Move(p, q, G!Member, G!Vice) \/ G!Move(p, q, G!Vice, G!Member)
           \/ G!PassLeadership(p, q) \/ G!Kick(p, q)
    PROVE  GuildInv'
<1> DEFINE g == G!GuildOf(p)
           SameGuilds(f, h) == f \in [GuildPlayers -> G!Ranks] /\ \A r \in GuildPlayers : f[r].guild = h[r].guild
<1>r. \A f \in [GuildPlayers -> G!Ranks], s \in GuildPlayers, l \in G!Member..G!Leader :
         f[s].guild # 0 => SameGuilds(G!Ranked(f, s, l), f)
  BY RankedKeepsGuild
<1>t. rank \in [GuildPlayers -> G!Ranks] /\ row \in [GuildPlayers -> G!Ranks]
  BY DEF GuildInv, G!TypeOK
<1> USE G!GuildAssumption DEF GuildInv, G!TypeOK, G!RanksStand, G!GuildAssumption
<1>0. g \in guilds /\ g # 0 /\ G!Member \in G!Member..G!Leader /\ G!Vice \in G!Member..G!Leader
      /\ G!Leader \in G!Member..G!Leader /\ G!NoRank \in G!Ranks /\ G!NoRank.guild = 0
  BY DEF G!Move, G!PassLeadership, G!Kick, G!Commands, G!Member, G!Vice, G!Leader, G!NoRank, G!Ranks
<1>1. ASSUME NEW from, NEW to \in G!Member..G!Leader, G!Move(p, q, from, to) PROVE GuildInv'
  <2>1. CASE q \in guildOnline /\ rank' = G!Ranked(rank, q, to) /\ UNCHANGED row
    <3>1. rank[q].guild # 0
      BY <1>0, <1>1, <2>1 DEF G!Move, G!InGuild, G!RankOf
    <3>2. SameGuilds(rank', rank)
      BY <1>r, <1>t, <2>1, <3>1
    <3>3. QED BY <1>1, <2>1, <3>2 DEF G!Move, G!RankOf
  <2>2. CASE q \notin guildOnline /\ row' = G!Ranked(row, q, to) /\ UNCHANGED rank
    <3>1. row[q].guild # 0
      BY <1>0, <1>1, <2>2 DEF G!Move, G!InGuild, G!RankOf
    <3>2. SameGuilds(row', row)
      BY <1>r, <1>t, <2>2, <3>1
    <3>3. QED BY <1>1, <2>2, <3>2 DEF G!Move, G!RankOf
  <2>3. QED BY <1>1, <2>1, <2>2 DEF G!Move
<1>2. CASE G!PassLeadership(p, q)
  <2>0. rank[p].guild # 0 /\ p \in guildOnline
    BY <1>0, <1>2 DEF G!PassLeadership, G!GuildOf, G!Commands
  <2>1. CASE /\ q \in guildOnline /\ rank' = G!Ranked(G!Ranked(rank, q, G!Leader), p, G!Vice)
             /\ guildOwner' = [guildOwner EXCEPT ![g] = q] /\ UNCHANGED row
    <3> DEFINE passed == G!Ranked(rank, q, G!Leader)
    <3>1. rank[q].guild # 0
      BY <1>0, <1>2, <2>1 DEF G!PassLeadership, G!InGuild, G!RankOf
    <3>2. SameGuilds(passed, rank)
      BY <1>0, <1>r, <1>t, <3>1
    <3> HIDE DEF passed
    <3>3. SameGuilds(G!Ranked(passed, p, G!Vice), passed)
      BY <1>0, <1>r, <2>0, <3>2
    <3>4. rank' = G!Ranked(passed, p, G!Vice)
      BY <2>1 DEF passed
    <3>5. SameGuilds(rank', rank)
      BY <3>2, <3>3, <3>4
    <3>6. UNCHANGED <<guildOnline, invited, invRow, guilds, guildChannels>>
      BY <1>2 DEF G!PassLeadership
    <3>7. G!TypeOK'
      BY <1>0, <2>1, <3>5, <3>6
    <3>8. G!RanksStand'
      BY <2>1, <3>5, <3>6 DEF G!RankOf
    <3>9. QED BY <3>7, <3>8
  <2>2. CASE /\ q \notin guildOnline /\ row' = G!Ranked(row, q, G!Leader) /\ rank' = G!Ranked(rank, p, G!Vice)
             /\ UNCHANGED guildOwner
    <3>1. row[q].guild # 0
      BY <1>0, <1>2, <2>2 DEF G!PassLeadership, G!InGuild, G!RankOf
    <3>2. SameGuilds(row', row)
      BY <1>0, <1>r, <1>t, <2>2, <3>1
    <3>3. SameGuilds(rank', rank)
      BY <1>0, <1>r, <1>t, <2>0, <2>2
    <3>4. QED BY <1>2, <2>2, <3>2, <3>3 DEF G!PassLeadership, G!RankOf
  <2>3. QED BY <1>2, <2>1, <2>2 DEF G!PassLeadership
<1>3. CASE G!Kick(p, q)
  <2>1. CASE q \in guildOnline /\ G!LeaveGuild({q}) /\ UNCHANGED row
    BY <1>0, <1>3, <2>1 DEF G!Kick, G!LeaveGuild, G!RankOf
  <2>2. CASE q \notin guildOnline /\ row' = [row EXCEPT ![q] = G!NoRank] /\ UNCHANGED rank
    BY <1>0, <1>3, <2>2 DEF G!Kick, G!RankOf
  <2>3. QED BY <1>3, <2>1, <2>2 DEF G!Kick
<1>4. QED BY <1>0, <1>1, <1>2, <1>3

LEMMA GuildStep ==
    ASSUME G!GuildAssumption, GuildInv, NEW p \in GuildPlayers,
           \/ G!Create(p) \/ G!Disband(p) \/ G!Quit(p) \/ \E g \in Guilds : G!Join(p, g)
    PROVE  GuildInv'
<1> USE G!GuildAssumption DEF GuildInv, G!TypeOK, G!RanksStand, G!GuildAssumption, G!RankOf
<1>0. /\ G!Member \in G!Member..G!Leader /\ G!Leader \in G!Member..G!Leader
      /\ G!NoRank \in G!Ranks /\ G!NoRank.guild = 0
      /\ \A g \in Guilds, l \in G!Member..G!Leader : [guild |-> g, level |-> l] \in G!Ranks
  BY DEF G!Member, G!Leader, G!NoRank, G!Ranks
<1>1. CASE G!Create(p)
  <2>1. PICK id \in Guilds : guilds' = guilds \cup {id} /\ guildOwner' = [guildOwner EXCEPT ![id] = p]
    BY <1>1 DEF G!Create
  <2>2. PICK first \in guilds' :
          /\ rank' = [rank EXCEPT ![p] = [guild |-> first, level |-> G!Leader]]
          /\ row' = [row EXCEPT ![p] = rank'[p]]
    BY <1>1 DEF G!Create
  <2>3. UNCHANGED <<guildOnline, invRow, guildChannels>> /\ invited' = [invited EXCEPT ![p] = {}]
    BY <1>1 DEF G!Create
  <2>4. G!TypeOK'
    BY <1>0, <2>1, <2>2, <2>3
  <2>5. G!RanksStand'
    BY <1>0, <2>1, <2>2, <2>3
  <2>6. QED BY <2>4, <2>5
<1>2. ASSUME NEW g \in Guilds, G!Join(p, g) PROVE GuildInv'
  BY <1>0, <1>2 DEF G!Join
<1>3. CASE G!Disband(p)
  <2> DEFINE g == G!GuildOf(p)
  <2>1. /\ row' = [q \in GuildPlayers |-> IF row[q].guild = g THEN G!NoRank ELSE row[q]]
        /\ rank' = [q \in GuildPlayers |-> IF q \in guildOnline /\ rank[q].guild = g THEN G!NoRank ELSE rank[q]]
        /\ guilds' \in {guilds, guilds \ {g}} /\ UNCHANGED <<guildOnline, invited, guildChannels>>
    BY <1>3 DEF G!Disband, G!RowsWithout, G!LeaveGuild, G!GuildOf
  <2>2. invRow' \in [GuildPlayers -> SUBSET Guilds] /\ guildOwner' \in [Guilds -> GuildPlayers \cup {NoPlayer}]
    BY <1>3 DEF G!Disband
  <2> HIDE DEF g
  <2>3. G!TypeOK'
    BY <1>0, <2>1, <2>2
  <2>4. G!RanksStand'
    BY <1>0, <2>1
  <2>5. QED BY <2>3, <2>4
<1>4. CASE G!Quit(p)
  BY <1>0, <1>4 DEF G!Quit, G!LeaveGuild, G!database
<1>5. QED BY <1>1, <1>2, <1>3, <1>4

LEMMA PlayerStep ==
    ASSUME G!GuildAssumption, GuildInv, NEW p \in GuildPlayers, NEW q \in GuildPlayers,
           \/ G!Invite(p, q) \/ G!Revoke(p, q) \/ G!OpenChannel(p)
           \/ G!Login(p) \/ G!Logout(p) \/ G!AutoSave(p) \/ G!Crash
    PROVE  GuildInv'
<1> USE G!GuildAssumption DEF GuildInv, G!TypeOK, G!RanksStand, G!GuildAssumption, G!RankOf, G!memory, G!database
<1>0. G!NoRank \in G!Ranks /\ G!NoRank.guild = 0
  BY DEF G!NoRank, G!Ranks
<1>1. CASE G!Invite(p, q) \/ G!Revoke(p, q)
  <2>1. G!GuildOf(p) \in Guilds /\ UNCHANGED <<guildOnline, rank, row, guilds, guildOwner, guildChannels>>
    BY <1>1 DEF G!Invite, G!Revoke, G!Commands
  <2>2. invited' \in [GuildPlayers -> SUBSET Guilds] /\ invRow' \in [GuildPlayers -> SUBSET Guilds]
    BY <1>1, <2>1 DEF G!Invite, G!Revoke
  <2>3. QED BY <2>1, <2>2
<1>2. CASE G!OpenChannel(p)
  <2>1. rank[p] # G!NoRank
    BY <1>0, <1>2 DEF G!OpenChannel, G!GuildOf
  <2>2. rank[p].guild \in Guilds
    BY <2>1 DEF G!Ranks
  <2>3. QED BY <1>2, <2>2 DEF G!OpenChannel, G!GuildOf
<1>3. CASE G!Login(p)
  <2>1. G!LoginRank(p) \in G!Ranks /\ G!LoginRank(p).guild \in guilds \cup {0}
    BY <1>0 DEF G!LoginRank
  <2>2. QED BY <1>3, <2>1 DEF G!Login
<1>4. CASE G!Logout(p) \/ G!AutoSave(p)
  <2>1. G!SavedRank(p) \in G!Ranks /\ G!SavedRank(p).guild \in guilds \cup {0}
    BY <1>0 DEF G!SavedRank, G!GuildOf
  <2> HIDE DEF G!SavedRank
  <2>2. CASE G!Logout(p)
    <3>1. G!TypeOK'
      BY <1>0, <2>1, <2>2 DEF G!Logout, G!Save
    <3>2. G!RanksStand'
      BY <1>0, <2>1, <2>2 DEF G!Logout, G!Save
    <3>3. QED BY <3>1, <3>2
  <2>3. CASE G!AutoSave(p)
    <3>1. G!TypeOK'
      BY <2>1, <2>3 DEF G!AutoSave, G!Save
    <3>2. G!RanksStand'
      BY <2>1, <2>3 DEF G!AutoSave, G!Save
    <3>3. QED BY <3>1, <3>2
  <2>4. QED BY <1>4, <2>2, <2>3
<1>5. CASE G!Crash
  BY <1>0, <1>5 DEF G!Crash
<1>6. QED BY <1>1, <1>2, <1>3, <1>4, <1>5

LEMMA GuildInvariant ==
    ASSUME G!GuildAssumption
    PROVE  G!Spec => []GuildInv
<1>1. G!Init => GuildInv
  BY DEF G!Init, GuildInv, G!TypeOK, G!RanksStand, G!RankOf, G!NoRank, G!Ranks
<1>2. GuildInv /\ [G!Next]_(G!vars) => GuildInv'
  <2> SUFFICES ASSUME GuildInv, [G!Next]_(G!vars) PROVE GuildInv'
    OBVIOUS
  <2>1. CASE G!Crash
    <3>1. PICK p \in GuildPlayers : TRUE
      BY <2>1 DEF G!Crash, GuildInv, G!TypeOK
    <3>2. QED BY <2>1, PlayerStep
  <2>2. ASSUME NEW p \in GuildPlayers,
               \/ G!Create(p) \/ G!Disband(p) \/ G!Quit(p) \/ G!OpenChannel(p)
               \/ G!Login(p) \/ G!Logout(p) \/ G!AutoSave(p)
               \/ \E g \in Guilds : G!Join(p, g)
        PROVE  GuildInv'
    BY <2>2, GuildStep, PlayerStep
  <2>3. ASSUME NEW p \in GuildPlayers, NEW q \in GuildPlayers,
               \/ G!Invite(p, q) \/ G!Revoke(p, q) \/ G!PassLeadership(p, q) \/ G!Kick(p, q)
               \/ G!Move(p, q, G!Member, G!Vice) \/ G!Move(p, q, G!Vice, G!Member)
        PROVE  GuildInv'
    BY <2>3, RankStep, PlayerStep
  <2>4. CASE UNCHANGED G!vars
    BY <2>4 DEF G!vars, G!memory, G!database, GuildInv, G!TypeOK, G!RanksStand, G!RankOf
  <2>5. QED BY <2>1, <2>2, <2>3, <2>4 DEF G!Next
<1>3. QED BY <1>1, <1>2, PTL DEF G!Spec

-----------------------------------------------------------------------------
(* Parties, for any players and addresses                                  *)

\* Where no party is, nobody is listed.
NobodyListed ==
    \A a \in Addresses \ parties :
       leader[a] = NoPlayer /\ memberList[a] = {} /\ inviteList[a] = {}

\* The lists of a party that are those of `who' and the asked, all of them in `on'.
Listed(lead, members, asked, on, who, a) ==
    /\ lead[a] \in on /\ members[a] \subseteq on /\ asked[a] \subseteq on
    /\ lead[a] \notin members[a] /\ who \cap asked[a] = {}
    /\ \A p \in Partners : p \in who <=> p = lead[a] \/ p \in members[a]
    /\ members[a] # {} \/ asked[a] # {}

Mates(a) == {p \in Partners : partyOf[p] = a}

AllListed == \A a \in parties : Listed(leader, memberList, inviteList, partyOnline, Mates(a), a)

PartyInv == P!TypeOK /\ NobodyListed /\ P!PlayersKnown /\ P!UsersOnline /\ AllListed /\ P!InvitationsKnown

LEMMA PartyInvIs ==
    PartyInv =>
      /\ P!TypeOK /\ NobodyListed /\ P!PlayersKnown /\ P!UsersOnline
      /\ \A a \in parties : Listed(leader, memberList, inviteList, partyOnline, Mates(a), a)
      /\ \A r \in Partners : invitations[r] = {a \in parties : r \in inviteList[a]}
BY DEF PartyInv, AllListed, P!InvitationsKnown

\* Lists that leave the parties well that do not end, with players `on' in the game and
\* these invitations.
Fits(lead, members, asked, out, gone, on, held) ==
    /\ lead \in [Addresses -> Partners \cup {NoPlayer}] /\ members \in [Addresses -> SUBSET Partners]
    /\ asked \in [Addresses -> SUBSET Partners] /\ out \subseteq Partners /\ gone \subseteq parties
    /\ \A a \in Addresses \ parties :
         lead[a] = leader[a] /\ members[a] = memberList[a] /\ asked[a] = inviteList[a]
    /\ \A a \in parties \ gone : Listed(lead, members, asked, on, Mates(a) \ out, a)
    /\ held \in [Partners -> SUBSET Addresses]
    /\ \A p \in Partners : held[p] = {a \in parties \ gone : p \in asked[a]}

\* What Settle leaves, with such lists.
LEMMA SettleStep ==
    ASSUME P!PartyAssumption, PartyInv, NEW lead, NEW members, NEW asked, NEW out, NEW gone,
           Fits(lead, members, asked, out, gone, partyOnline', invitations'),
           P!Settle(lead, members, asked, out, gone),
           partyOnline' \subseteq Partners, partyAttached' \subseteq partyOnline', partyUsers' \in [Addresses -> SUBSET partyOnline']
    PROVE  PartyInv'
<1>0. /\ lead \in [Addresses -> Partners \cup {NoPlayer}] /\ members \in [Addresses -> SUBSET Partners]
      /\ asked \in [Addresses -> SUBSET Partners] /\ out \subseteq Partners /\ gone \subseteq parties
      /\ \A a \in Addresses \ parties :
           lead[a] = leader[a] /\ members[a] = memberList[a] /\ asked[a] = inviteList[a]
      /\ \A a \in parties \ gone : Listed(lead, members, asked, partyOnline', Mates(a) \ out, a)
      /\ invitations' \in [Partners -> SUBSET Addresses]
      /\ \A p \in Partners : invitations'[p] = {a \in parties \ gone : p \in asked[a]}
  BY Zenon DEF Fits
<1>1. P!TypeOK /\ NobodyListed /\ P!PlayersKnown
  BY DEF PartyInv
<1>2. /\ parties' = parties \ gone
      /\ leader' = [a \in Addresses |-> IF a \in gone THEN NoPlayer ELSE lead[a]]
      /\ memberList' = [a \in Addresses |-> IF a \in gone THEN {} ELSE members[a]]
      /\ inviteList' = [a \in Addresses |-> IF a \in gone THEN {} ELSE asked[a]]
      /\ partyOf' = [p \in Partners |-> IF p \in out \/ partyOf[p] \in gone THEN NoParty ELSE partyOf[p]]
  BY DEF P!Settle
<1>3. P!TypeOK'
  <2>1. parties' \subseteq Addresses /\ partyOf' \in [Partners -> Addresses \cup {NoParty}]
    BY <1>0, <1>1, <1>2 DEF P!TypeOK
  <2>2. leader' \in [Addresses -> Partners \cup {NoPlayer}]
    BY <1>0, <1>2
  <2>3. memberList' \in [Addresses -> SUBSET Partners] /\ inviteList' \in [Addresses -> SUBSET Partners]
    BY <1>0, <1>2
  <2>4. partyUsers' \in [Addresses -> SUBSET Partners]
    OBVIOUS
  <2>5. QED BY <1>0, <2>1, <2>2, <2>3, <2>4 DEF P!TypeOK
<1>4. NobodyListed'
  BY <1>0, <1>1, <1>2 DEF NobodyListed
<1>5. P!PlayersKnown'
  BY <1>0, <1>1, <1>2 DEF P!PlayersKnown
<1>6. P!UsersOnline'
  BY DEF P!UsersOnline
<1>7. ASSUME NEW a \in parties'
      PROVE  Listed(leader', memberList', inviteList', partyOnline', Mates(a)', a)
  <2>1. a \in Addresses /\ a \in parties \ gone
    BY <1>0, <1>1, <1>2 DEF P!TypeOK
  <2>2. leader'[a] = lead[a] /\ memberList'[a] = members[a] /\ inviteList'[a] = asked[a]
    BY <1>0, <1>2, <2>1
  <2>3. Mates(a)' = Mates(a) \ out
    BY <1>0, <1>1, <1>2, <2>1 DEF Mates, P!TypeOK, P!PartyAssumption
  <2>4. QED BY <1>0, <2>1, <2>2, <2>3 DEF Listed
<1>8. \A p \in Partners : invitations'[p] = {a \in parties' : p \in inviteList'[a]}
  <2>1. \A a \in parties' : a \in Addresses /\ inviteList'[a] = asked[a]
    BY <1>0, <1>1, <1>2 DEF P!TypeOK
  <2>2. QED BY <1>0, <1>2, <2>1
<1>9. QED BY <1>3, <1>4, <1>5, <1>6, <1>7, <1>8, Zenon DEF PartyInv, AllListed, P!InvitationsKnown

LEMMA PartyInvite ==
    ASSUME P!PartyAssumption, PartyInv, NEW p \in Partners, NEW q \in Partners, P!Invite(p, q), ~SelfInvites
    PROVE  PartyInv'
<1>1. /\ P!TypeOK /\ NobodyListed /\ P!PlayersKnown /\ P!UsersOnline
      /\ \A a \in parties : Listed(leader, memberList, inviteList, partyOnline, Mates(a), a)
      /\ \A r \in Partners : invitations[r] = {a \in parties : r \in inviteList[a]}
  BY PartyInvIs, Zenon
<1>2. p \in partyOnline /\ q \in partyOnline /\ p # q /\ partyOf[q] = NoParty
      /\ UNCHANGED <<partyOnline, partyAttached, memberList, partyUsers>>
  BY DEF P!Invite
<1>3. PICK a \in Addresses :
        /\ inviteList' = [inviteList EXCEPT ![a] = @ \cup {q}]
        /\ invitations' = [invitations EXCEPT ![q] = @ \cup {a}]
        /\ parties' = parties \cup {a} /\ partyOf' = [partyOf EXCEPT ![p] = a]
        /\ leader' = [leader EXCEPT ![a] = p]
        /\ a \in parties => partyOf[p] = a /\ leader[a] = p
        /\ a \notin parties => partyOf[p] = NoParty
  <2>1. CASE P!LeadsOwn(p) /\ P!InviteInto(partyOf[p], q) /\ UNCHANGED <<parties, leader, partyOf>>
    <3>1. partyOf[p] \in Addresses /\ partyOf[p] \in parties
      BY <1>1, <2>1 DEF P!LeadsOwn, P!PlayersKnown, P!TypeOK
    <3>2. leader = [leader EXCEPT ![partyOf[p]] = p] /\ partyOf = [partyOf EXCEPT ![p] = partyOf[p]]
      BY <1>1, <2>1 DEF P!LeadsOwn, P!TypeOK
    <3>3. QED BY <2>1, <3>1, <3>2 DEF P!LeadsOwn, P!InviteInto
  <2>2. CASE /\ partyOf[p] = NoParty
             /\ \E a \in Addresses \ parties :
                  /\ parties' = parties \cup {a} /\ leader' = [leader EXCEPT ![a] = p]
                  /\ partyOf' = [partyOf EXCEPT ![p] = a] /\ P!InviteInto(a, q)
    BY <2>2 DEF P!InviteInto
  <2>3. QED BY <2>1, <2>2 DEF P!Invite
<1>4. P!TypeOK' /\ P!PlayersKnown' /\ P!UsersOnline' /\ NobodyListed'
  <2>1. P!TypeOK'
    BY <1>1, <1>2, <1>3 DEF P!TypeOK
  <2>2. QED BY <1>1, <1>2, <1>3, <2>1 DEF P!TypeOK, P!PlayersKnown, P!UsersOnline, NobodyListed
<1>5. ASSUME NEW b \in parties'
      PROVE  Listed(leader', memberList', inviteList', partyOnline', Mates(b)', b)
  <2>1. CASE b # a
    <3>1. b \in parties /\ b \in Addresses /\ leader'[b] = leader[b] /\ inviteList'[b] = inviteList[b]
      BY <1>1, <1>3, <1>5, <2>1 DEF P!TypeOK
    <3>2. Mates(b)' = Mates(b)
      BY <1>1, <1>3, <2>1, <3>1 DEF Mates, P!TypeOK, P!PartyAssumption
    <3>3. QED BY <1>1, <1>2, <3>1, <3>2 DEF Listed
  <2>2. CASE b = a
    <3>1. leader'[a] = p /\ inviteList'[a] = inviteList[a] \cup {q} /\ memberList'[a] = memberList[a]
      BY <1>1, <1>2, <1>3 DEF P!TypeOK
    <3>2. CASE a \in parties
      <4>1. Mates(a)' = Mates(a) /\ q \notin Mates(a)
        BY <1>1, <1>2, <1>3, <3>2 DEF Mates, P!TypeOK, P!PartyAssumption
      <4>2. QED BY <1>1, <1>2, <1>3, <2>2, <3>1, <3>2, <4>1 DEF Listed
    <3>3. CASE a \notin parties
      <4>1. Mates(a)' = {p} /\ memberList[a] = {} /\ inviteList[a] = {}
        BY <1>1, <1>2, <1>3, <3>3 DEF Mates, P!TypeOK, P!PlayersKnown, NobodyListed, P!PartyAssumption
      <4>2. QED BY <1>2, <2>2, <3>1, <4>1 DEF Listed
    <3>4. QED BY <3>2, <3>3
  <2>3. QED BY <2>1, <2>2
<1>6. ASSUME NEW r \in Partners
      PROVE  invitations'[r] = {b \in parties' : r \in inviteList'[b]}
  <2>1. \A b \in parties' : b \in Addresses /\ (r \in inviteList'[b] <=> r \in inviteList[b] \/ (b = a /\ r = q))
    BY <1>1, <1>3 DEF P!TypeOK
  <2>2. a \notin parties => r \notin inviteList[a]
    BY <1>1, <1>3 DEF NobodyListed
  <2>3. invitations'[r] = invitations[r] \cup (IF r = q THEN {a} ELSE {})
    BY <1>1, <1>3 DEF P!TypeOK
  <2>4. QED BY <1>1, <1>3, <2>1, <2>2, <2>3
<1>7. QED BY <1>4, <1>5, <1>6, Zenon DEF PartyInv, AllListed, P!InvitationsKnown

LEMMA PartyJoin ==
    ASSUME P!PartyAssumption, PartyInv, NEW p \in Partners, NEW q \in Partners, P!Join(p, q)
    PROVE  PartyInv'
<1>1. /\ P!TypeOK /\ NobodyListed /\ P!PlayersKnown /\ P!UsersOnline
      /\ \A a \in parties : Listed(leader, memberList, inviteList, partyOnline, Mates(a), a)
      /\ \A r \in Partners : invitations[r] = {a \in parties : r \in inviteList[a]}
  BY PartyInvIs, Zenon
<1>2. PICK a \in parties :
        /\ a = partyOf[q] /\ p \in partyOnline /\ p \in inviteList[a] /\ partyOf[p] = NoParty
        /\ leader[a] = q
        /\ memberList' = [memberList EXCEPT ![a] = @ \cup {p}]
        /\ partyOf' = [partyOf EXCEPT ![p] = a]
        /\ invitations' = [invitations EXCEPT ![p] = @ \ {a}]
        /\ inviteList' = [inviteList EXCEPT ![a] = @ \ {p}]
        /\ UNCHANGED <<partyOnline, partyAttached, parties, leader, partyUsers>>
  BY <1>1 DEF P!Join, P!IsInviting, P!LeadsOwn, P!PlayersKnown
<1>3. a \in Addresses /\ p # q
  BY <1>1, <1>2 DEF P!TypeOK, P!PartyAssumption
<1>4. P!TypeOK' /\ P!PlayersKnown' /\ P!UsersOnline' /\ NobodyListed'
  <2>1. P!TypeOK'
    BY <1>1, <1>2 DEF P!TypeOK
  <2>2. QED BY <1>1, <1>2, <2>1 DEF P!TypeOK, P!PlayersKnown, P!UsersOnline, NobodyListed
<1>5. ASSUME NEW b \in parties'
      PROVE  Listed(leader', memberList', inviteList', partyOnline', Mates(b)', b)
  <2>1. CASE b # a
    <3>1. b \in parties /\ b \in Addresses /\ memberList'[b] = memberList[b] /\ inviteList'[b] = inviteList[b]
      BY <1>1, <1>2, <1>5, <2>1 DEF P!TypeOK
    <3>2. Mates(b)' = Mates(b)
      BY <1>1, <1>2, <2>1, <3>1 DEF Mates, P!TypeOK, P!PartyAssumption
    <3>3. QED BY <1>1, <1>2, <3>1, <3>2 DEF Listed
  <2>2. CASE b = a
    <3>1. inviteList'[a] = inviteList[a] \ {p} /\ memberList'[a] = memberList[a] \cup {p}
      BY <1>1, <1>2, <1>3 DEF P!TypeOK
    <3>2. Mates(a)' = Mates(a) \cup {p}
      BY <1>1, <1>2, <1>3 DEF Mates, P!TypeOK
    <3>3. QED BY <1>1, <1>2, <1>3, <2>2, <3>1, <3>2 DEF Listed
  <2>3. QED BY <2>1, <2>2
<1>6. ASSUME NEW r \in Partners
      PROVE  invitations'[r] = {b \in parties' : r \in inviteList'[b]}
  <2>1. \A b \in parties : b \in Addresses /\ (r \in inviteList'[b] <=> r \in inviteList[b] /\ ~(b = a /\ r = p))
    BY <1>1, <1>2 DEF P!TypeOK
  <2>2. invitations'[r] = invitations[r] \ (IF r = p THEN {a} ELSE {})
    BY <1>1, <1>2 DEF P!TypeOK
  <2>3. QED BY <1>1, <1>2, <2>1, <2>2
<1>7. QED BY <1>4, <1>5, <1>6, Zenon DEF PartyInv, AllListed, P!InvitationsKnown

LEMMA PartyPass ==
    ASSUME P!PartyAssumption, PartyInv, NEW p \in Partners, NEW q \in Partners, P!PassLeadership(p, q)
    PROVE  PartyInv'
<1>1. /\ P!TypeOK /\ NobodyListed /\ P!PlayersKnown /\ P!UsersOnline
      /\ \A a \in parties : Listed(leader, memberList, inviteList, partyOnline, Mates(a), a)
      /\ \A r \in Partners : invitations[r] = {a \in parties : r \in inviteList[a]}
  BY PartyInvIs, Zenon
<1>2. PICK a \in parties :
        /\ a = partyOf[p] /\ leader[a] = p /\ q \in memberList[a] /\ p \in partyOnline /\ q \in partyOnline
        /\ leader' = [leader EXCEPT ![a] = q]
        /\ memberList' = [memberList EXCEPT ![a] = (@ \ {q}) \cup {p}]
        /\ UNCHANGED <<partyOnline, partyAttached, partyOf, invitations, parties, inviteList, partyUsers>>
  BY <1>1 DEF P!PassLeadership, P!LeadsOwn, P!PlayersKnown
<1>3. P!TypeOK' /\ P!PlayersKnown' /\ P!UsersOnline' /\ NobodyListed'
  <2>1. P!TypeOK'
    BY <1>1, <1>2 DEF P!TypeOK
  <2>2. QED BY <1>1, <1>2, <2>1 DEF P!TypeOK, P!PlayersKnown, P!UsersOnline, NobodyListed
<1>4. ASSUME NEW b \in parties'
      PROVE  Listed(leader', memberList', inviteList', partyOnline', Mates(b)', b)
  <2>1. Mates(b)' = Mates(b) /\ b \in Addresses
    BY <1>1, <1>2 DEF Mates, P!TypeOK
  <2>2. CASE b # a
    BY <1>1, <1>2, <2>1, <2>2 DEF Listed, P!TypeOK
  <2>3. CASE b = a
    <3>1. leader'[a] = q /\ memberList'[a] = (memberList[a] \ {q}) \cup {p}
      BY <1>1, <1>2, <2>1, <2>3 DEF P!TypeOK
    <3>2. QED BY <1>1, <1>2, <2>1, <2>3, <3>1 DEF Listed
  <2>4. QED BY <2>2, <2>3
<1>5. QED BY <1>1, <1>2, <1>3, <1>4, Zenon DEF PartyInv, AllListed, P!InvitationsKnown

\* Lists from which p has been taken, and the parties of `from' that end by that.
LEMMA NotInvitingIs ==
    ASSUME PartyInv, NEW p \in Partners, NEW from \in SUBSET parties
    PROVE  /\ P!NotInviting(p, from) \in [Addresses -> SUBSET Partners]
           /\ \A a \in Addresses :
                P!NotInviting(p, from)[a] = IF a \in from THEN inviteList[a] \ {p} ELSE inviteList[a]
           /\ P!EndWithout(p, from) \subseteq from
           /\ \A a \in from : a \in P!EndWithout(p, from) <=> memberList[a] = {} /\ inviteList[a] \subseteq {p}
<1>1. inviteList \in [Addresses -> SUBSET Partners] /\ from \subseteq Addresses
  BY DEF PartyInv, P!TypeOK
<1>2. \A a \in Addresses : P!NotInviting(p, from)[a] = IF a \in from THEN inviteList[a] \ {p} ELSE inviteList[a]
  BY DEF P!NotInviting
<1>3. P!NotInviting(p, from) \in [Addresses -> SUBSET Partners]
  BY <1>1 DEF P!NotInviting
<1>4. \A a \in from : a \in P!EndWithout(p, from) <=> memberList[a] = {} /\ inviteList[a] \subseteq {p}
  BY <1>1, <1>2 DEF P!EndWithout, P!CanDisband
<1>5. QED BY <1>2, <1>3, <1>4 DEF P!EndWithout

LEMMA PartyRevoke ==
    ASSUME P!PartyAssumption, PartyInv, NEW p \in Partners, NEW q \in Partners, P!Revoke(p, q)
    PROVE  PartyInv'
<1>1. /\ P!TypeOK /\ NobodyListed /\ P!PlayersKnown /\ P!UsersOnline
      /\ \A a \in parties : Listed(leader, memberList, inviteList, partyOnline, Mates(a), a)
      /\ \A r \in Partners : invitations[r] = {a \in parties : r \in inviteList[a]}
  BY PartyInvIs, Zenon
<1>2. PICK a \in parties : a = partyOf[p] /\ a \in Addresses
  BY <1>1 DEF P!Revoke, P!IsInviting, P!LeadsOwn, P!PlayersKnown, P!TypeOK
<1> DEFINE asked == P!NotInviting(q, {a})
           gone == P!EndWithout(q, {a})
<1>3. /\ P!Settle(leader, memberList, asked, {}, gone)
      /\ invitations' = [P!Uninvited(gone, asked) EXCEPT ![q] = @ \ {a}]
      /\ partyUsers' = P!Silenced(gone, leader, memberList, {}, {})
      /\ UNCHANGED <<partyOnline, partyAttached>>
  BY <1>2 DEF P!Revoke
<1>4. /\ asked \in [Addresses -> SUBSET Partners]
      /\ \A b \in Addresses : asked[b] = IF b = a THEN inviteList[b] \ {q} ELSE inviteList[b]
      /\ gone \subseteq {a} /\ (a \in gone <=> memberList[a] = {} /\ inviteList[a] \subseteq {q})
  <2>1. PICK from \in SUBSET parties : from = {a}
    BY <1>2
  <2>2. /\ P!NotInviting(q, from) \in [Addresses -> SUBSET Partners]
        /\ \A b \in Addresses : P!NotInviting(q, from)[b] = IF b \in from THEN inviteList[b] \ {q} ELSE inviteList[b]
        /\ P!EndWithout(q, from) \subseteq from
        /\ \A b \in from : b \in P!EndWithout(q, from) <=> memberList[b] = {} /\ inviteList[b] \subseteq {q}
    BY NotInvitingIs
  <2>3. asked = P!NotInviting(q, from) /\ gone = P!EndWithout(q, from)
    BY <2>1
  <2> HIDE DEF asked, gone
  <2>4. QED BY <2>1, <2>2, <2>3
<1> HIDE DEF asked, gone
<1>5. /\ leader \in [Addresses -> Partners \cup {NoPlayer}] /\ memberList \in [Addresses -> SUBSET Partners]
      /\ partyOnline' \subseteq Partners /\ partyAttached' \subseteq partyOnline' /\ parties \subseteq Addresses
  BY <1>1, <1>3 DEF P!TypeOK
<1>6. partyUsers' \in [Addresses -> SUBSET partyOnline']
  BY <1>1, <1>3 DEF P!Silenced, P!UsersOnline
<1>7. ASSUME NEW b \in parties \ gone
      PROVE  Listed(leader, memberList, asked, partyOnline', Mates(b) \ {}, b)
  <2>1. Listed(leader, memberList, inviteList, partyOnline, Mates(b), b) /\ b \in Addresses /\ Mates(b) \ {} = Mates(b)
    BY <1>1, <1>5
  <2>2. asked[b] \subseteq inviteList[b] /\ (memberList[b] # {} \/ asked[b] # {})
    BY <1>4, <1>7, <2>1 DEF Listed
  <2>3. QED BY <1>3, <2>1, <2>2 DEF Listed
<1>8. \A r \in Partners : invitations[r] \subseteq Addresses
  BY <1>1 DEF P!TypeOK
<1>9. invitations' \in [Partners -> SUBSET Addresses]
  BY <1>3, <1>8 DEF P!Uninvited
<1>10. ASSUME NEW r \in Partners
       PROVE  invitations'[r] = {b \in parties \ gone : r \in asked[b]}
  <2>1. invitations'[r] = {b \in invitations[r] : ~(b \in gone /\ r \in asked[b])} \ (IF r = q THEN {a} ELSE {})
    BY <1>3 DEF P!Uninvited
  <2>2. a \in gone => memberList[a] = {} /\ inviteList[a] \subseteq {q}
    BY <1>4
  <2>3. QED BY <1>1, <1>4, <1>5, <2>1, <2>2
<1>11. Fits(leader, memberList, asked, {}, gone, partyOnline', invitations')
  <2>1. gone \subseteq parties
    BY <1>2, <1>4
  <2>2. \A b \in Addresses \ parties : asked[b] = inviteList[b]
    BY <1>2, <1>4
  <2>3. QED BY <1>4, <1>5, <1>7, <1>9, <1>10, <2>1, <2>2 DEF Fits
<1>12. QED BY <1>3, <1>5, <1>6, <1>11, SettleStep

\* The parties but p's own, when p has been taken from some lists of invitations.
LEMMA OthersFit ==
    ASSUME P!PartyAssumption, PartyInv, NEW p \in Partners, NEW from \in SUBSET parties,
           partyOnline' = partyOnline \/ (partyOnline' = partyOnline \ {p} /\ from = invitations[p]),
           NEW b \in parties, b \notin P!EndWithout(p, from), b # partyOf[p]
    PROVE  Listed(leader, memberList, P!NotInviting(p, from), partyOnline', Mates(b) \ {p}, b)
<1>1. Listed(leader, memberList, inviteList, partyOnline, Mates(b), b) /\ b \in Addresses
      /\ invitations[p] = {a \in parties : p \in inviteList[a]}
  BY PartyInvIs DEF P!TypeOK
<1>2. p \notin Mates(b) /\ Mates(b) \ {p} = Mates(b)
  BY DEF Mates
<1>3. P!NotInviting(p, from)[b] = IF b \in from THEN inviteList[b] \ {p} ELSE inviteList[b]
  BY <1>1 DEF P!NotInviting
<1>4. b \in from => ~(memberList[b] = {} /\ inviteList[b] \subseteq {p})
  BY NotInvitingIs
<1>5. P!NotInviting(p, from)[b] \subseteq inviteList[b] /\ (memberList[b] # {} \/ P!NotInviting(p, from)[b] # {})
  BY <1>1, <1>3, <1>4 DEF Listed
<1>6. leader[b] \in partyOnline' /\ memberList[b] \subseteq partyOnline' /\ P!NotInviting(p, from)[b] \subseteq partyOnline'
  BY <1>1, <1>2, <1>3, <1>5 DEF Listed
<1>7. QED BY <1>1, <1>2, <1>5, <1>6 DEF Listed

LEMMA PartyLeave ==
    ASSUME P!PartyAssumption, PartyInv, NEW p \in Partners, NEW from \in SUBSET parties, NEW off \in SUBSET Partners,
           partyOf[p] # NoParty, partyOf[p] \notin P!EndWithout(p, from),
           P!Leave(p, P!EndWithout(p, from), P!NotInviting(p, from), from, off),
           partyAttached' \subseteq partyOnline', partyOnline \ partyOnline' \subseteq off,
           partyOnline' = partyOnline \/ (partyOnline' = partyOnline \ {p} /\ from = invitations[p])
    PROVE  PartyInv'
<1>1. /\ P!TypeOK /\ NobodyListed /\ P!PlayersKnown /\ P!UsersOnline
      /\ \A a \in parties : Listed(leader, memberList, inviteList, partyOnline, Mates(a), a)
      /\ \A r \in Partners : invitations[r] = {a \in parties : r \in inviteList[a]}
  BY PartyInvIs, Zenon
<1>2. PICK a \in parties : a = partyOf[p] /\ a \in Addresses
  BY <1>1 DEF P!PlayersKnown, P!TypeOK
<1>3. /\ p = leader[a] \/ p \in memberList[a]
      /\ p \notin inviteList[a] /\ leader[a] \in partyOnline /\ memberList[a] \subseteq partyOnline
      /\ inviteList[a] \subseteq partyOnline /\ leader[a] \notin memberList[a]
  BY <1>1, <1>2 DEF Listed, Mates
<1>4. PICK next \in P!NextLeaders(p, a) :
        LET lead == [leader EXCEPT ![a] = next]
            members == [memberList EXCEPT ![a] = @ \ {p, next}]
            left == [P!NotInviting(p, from) EXCEPT ![a] = @ \ {p}]
            gone == P!EndWithout(p, from)
                    \cup IF P!MissingLeader(p, a) \/ P!CanDisband(members, left, a) THEN {a} ELSE {}
        IN /\ P!Settle(lead, members, left, {p}, gone)
           /\ invitations' = [P!Uninvited(gone, left) EXCEPT ![p] = @ \ from]
           /\ partyUsers' = P!Silenced(gone, lead, members, {p}, off)
  BY <1>2 DEF P!Leave
<1> DEFINE asked == P!NotInviting(p, from)
           ended == P!EndWithout(p, from)
           lead == [leader EXCEPT ![a] = next]
           members == [memberList EXCEPT ![a] = @ \ {p, next}]
           left == [asked EXCEPT ![a] = @ \ {p}]
           gone == ended \cup IF P!MissingLeader(p, a) \/ P!CanDisband(members, left, a) THEN {a} ELSE {}
<1>5. /\ P!Settle(lead, members, left, {p}, gone)
      /\ invitations' = [P!Uninvited(gone, left) EXCEPT ![p] = @ \ from]
      /\ partyUsers' = P!Silenced(gone, lead, members, {p}, off)
  BY <1>4
<1>6. /\ asked \in [Addresses -> SUBSET Partners]
      /\ \A b \in Addresses : asked[b] = IF b \in from THEN inviteList[b] \ {p} ELSE inviteList[b]
      /\ ended \subseteq from
  BY NotInvitingIs
<1>7. /\ leader[a] = p /\ ~P!MissingLeader(p, a) => next \in memberList[a]
      /\ ~(leader[a] = p /\ ~P!MissingLeader(p, a)) => next = leader[a]
  BY <1>4 DEF P!NextLeaders
<1>8. /\ leader \in [Addresses -> Partners \cup {NoPlayer}] /\ memberList \in [Addresses -> SUBSET Partners]
      /\ parties \subseteq Addresses /\ partyOnline \subseteq Partners /\ next \in Partners
  BY <1>1, <1>2, <1>3, <1>7 DEF P!TypeOK
<1> HIDE DEF asked, ended
<1>9. /\ lead \in [Addresses -> Partners \cup {NoPlayer}] /\ members \in [Addresses -> SUBSET Partners]
      /\ left \in [Addresses -> SUBSET Partners]
      /\ \A b \in Addresses \ {a} : lead[b] = leader[b] /\ members[b] = memberList[b] /\ left[b] = asked[b]
      /\ lead[a] = next /\ members[a] = memberList[a] \ {p, next} /\ left[a] = asked[a] \ {p}
  BY <1>2, <1>6, <1>8
<1>10. /\ gone \subseteq ended \cup {a} /\ ended \subseteq gone
       /\ a \in gone <=> a \in ended \/ P!MissingLeader(p, a) \/ (members[a] = {} /\ left[a] = {})
  BY DEF P!CanDisband
<1>11. \A b \in Addresses : /\ left[b] \subseteq inviteList[b] /\ inviteList[b] \subseteq left[b] \cup {p}
                            /\ p \in left[b] <=> p \in inviteList[b] /\ b \notin from
  <2>1. left[a] = inviteList[a] /\ p \notin left[a]
    <3>1. left[a] = asked[a] \ {p} /\ asked[a] = IF a \in from THEN inviteList[a] \ {p} ELSE inviteList[a]
      BY <1>2, <1>6, <1>9
    <3>2. p \notin inviteList[a]
      BY <1>3
    <3> HIDE DEF left
    <3>3. QED BY <3>1, <3>2
  <2>2. QED BY <1>3, <1>6, <1>9, <2>1
<1> HIDE DEF lead, members, left, gone
<1>12. ASSUME NEW b \in parties \ gone
       PROVE  Listed(lead, members, left, partyOnline', Mates(b) \ {p}, b)
  <2>1. b \in Addresses
    BY <1>8
  <2>2. CASE b # a
    <3>1. Listed(leader, memberList, asked, partyOnline', Mates(b) \ {p}, b)
      BY <1>2, <1>10, <1>12, <2>2, OthersFit DEF asked, ended
    <3>2. lead[b] = leader[b] /\ members[b] = memberList[b] /\ left[b] = asked[b]
      BY <1>9, <2>1, <2>2
    <3>3. QED BY <3>1, <3>2 DEF Listed
  <2>3. CASE b = a
    <3>1. ~P!MissingLeader(p, a) /\ ~(members[a] = {} /\ left[a] = {})
      BY <1>10, <1>12, <2>3
    <3>2. next # p /\ next \in partyOnline /\ \A r \in Partners : r = leader[a] \/ r \in memberList[a] <=>
                                     r = p \/ r = next \/ r \in members[a]
      BY <1>3, <1>7, <1>9, <3>1
    <3>3. \A r \in Partners : r \in Mates(a) \ {p} <=> r = lead[a] \/ r \in members[a]
      <4>1. \A r \in Partners : r \in Mates(a) <=> r = leader[a] \/ r \in memberList[a]
        BY <1>1 DEF Listed
      <4>2. QED BY <1>9, <3>2, <4>1
    <3>4. lead[a] \in partyOnline' /\ members[a] \subseteq partyOnline' /\ left[a] \subseteq partyOnline'
      BY <1>2, <1>3, <1>9, <1>11, <3>2
    <3>5. (Mates(a) \ {p}) \cap left[a] = {}
      BY <1>1, <1>2, <1>11 DEF Listed
    <3>6. lead[a] \notin members[a]
      BY <1>9
    <3>7. QED BY <2>3, <3>1, <3>3, <3>4, <3>5, <3>6 DEF Listed
  <2>4. QED BY <2>2, <2>3
<1>13. \A r \in Partners : invitations[r] \subseteq Addresses
  BY <1>1 DEF P!TypeOK
<1>14. invitations' \in [Partners -> SUBSET Addresses]
  BY <1>5, <1>13 DEF P!Uninvited
<1>15. ASSUME NEW r \in Partners
       PROVE  invitations'[r] = {b \in parties \ gone : r \in left[b]}
  <2>1. invitations'[r] = {b \in invitations[r] : ~(b \in gone /\ r \in left[b])} \ (IF r = p THEN from ELSE {})
    BY <1>5 DEF P!Uninvited
  <2>2. \A b : b \in invitations[r] <=> b \in parties /\ r \in inviteList[b]
    BY <1>1
  <2>3. ASSUME NEW b
        PROVE  b \in invitations'[r] <=> b \in parties \ gone /\ r \in left[b]
    <3>1. CASE b \in parties /\ r = p
      BY <1>8, <1>11, <2>1, <2>2, <3>1
    <3>2. CASE b \in parties /\ r # p
      BY <1>8, <1>11, <2>1, <2>2, <3>2
    <3>3. CASE b \notin parties
      BY <2>1, <2>2, <3>3
    <3>4. QED BY <3>1, <3>2, <3>3
  <2>4. QED BY <2>3
<1>16. partyUsers' \in [Addresses -> SUBSET partyOnline']
  <2>1. partyUsers \in [Addresses -> SUBSET Partners] /\ \A b \in Addresses : partyUsers[b] \subseteq partyOnline
    BY <1>1 DEF P!TypeOK, P!UsersOnline
  <2>2. \A b \in Addresses : partyUsers'[b] \subseteq partyUsers[b] \ off
    BY <1>5 DEF P!Silenced
  <2>3. partyUsers' = [b \in Addresses |-> partyUsers'[b]]
    BY <1>5 DEF P!Silenced
  <2>4. QED BY <2>1, <2>2, <2>3
<1>17. gone \subseteq parties
  BY <1>6, <1>10
<1>18. \A b \in Addresses \ parties :
          lead[b] = leader[b] /\ members[b] = memberList[b] /\ left[b] = inviteList[b]
  BY <1>2, <1>6, <1>9
<1>19. Fits(lead, members, left, {p}, gone, partyOnline', invitations')
  BY <1>9, <1>12, <1>14, <1>15, <1>17, <1>18 DEF Fits
<1>20. partyOnline' \subseteq Partners
  BY <1>8
<1>21. QED BY <1>5, <1>16, <1>19, <1>20, SettleStep

LEMMA PartyLeaveParty ==
    ASSUME P!PartyAssumption, PartyInv, NEW p \in Partners, P!LeaveParty(p)
    PROVE  PartyInv'
<1>1. partyOf[p] # NoParty /\ P!Leave(p, {}, inviteList, {}, {}) /\ UNCHANGED <<partyOnline, partyAttached>>
  BY DEF P!LeaveParty
<1>2. P!NotInviting(p, {}) = inviteList
  BY DEF P!NotInviting, PartyInv, P!TypeOK
<1>3. P!EndWithout(p, {}) = {}
  BY DEF P!EndWithout
<1>4. partyAttached \subseteq partyOnline
  BY DEF PartyInv, P!TypeOK
<1>5. QED BY <1>1, <1>2, <1>3, <1>4, PartyLeave

LEMMA PartyDisappear ==
    ASSUME P!PartyAssumption, PartyInv, NEW p \in Partners, P!Disappear(p)
    PROVE  PartyInv'
<1>1. /\ P!TypeOK /\ NobodyListed /\ P!PlayersKnown /\ P!UsersOnline
      /\ \A a \in parties : Listed(leader, memberList, inviteList, partyOnline, Mates(a), a)
      /\ \A r \in Partners : invitations[r] = {a \in parties : r \in inviteList[a]}
  BY PartyInvIs, Zenon
<1> DEFINE from == invitations[p]
           asked == P!NotInviting(p, from)
           gone == P!EndWithout(p, from)
<1>2. /\ partyOnline' = partyOnline \ {p} /\ partyAttached' = partyAttached \ {p} /\ partyAttached' \subseteq partyOnline'
      /\ partyOnline' \subseteq Partners /\ partyOnline \ partyOnline' \subseteq {p} /\ from \subseteq parties
  BY <1>1 DEF P!Disappear, P!TypeOK
<1>3. CASE partyOf[p] \notin {NoParty} \cup gone
  <2>1. P!Leave(p, gone, asked, from, {p})
    BY <1>3 DEF P!Disappear
  <2>2. QED BY <1>2, <1>3, <2>1, PartyLeave
<1>4. CASE partyOf[p] \in {NoParty} \cup gone
  <2>1. /\ P!Settle(leader, memberList, asked, {p}, gone)
        /\ invitations' = [P!Uninvited(gone, asked) EXCEPT ![p] = {}]
        /\ partyUsers' = P!Silenced(gone, leader, memberList, {}, {p})
    BY <1>4 DEF P!Disappear
  <2>2. /\ asked \in [Addresses -> SUBSET Partners]
        /\ \A b \in Addresses : asked[b] = IF b \in from THEN inviteList[b] \ {p} ELSE inviteList[b]
        /\ gone \subseteq from
    BY <1>2, NotInvitingIs
  <2>3. ASSUME NEW b \in parties \ gone
        PROVE  Listed(leader, memberList, asked, partyOnline', Mates(b) \ {p}, b)
    <3>1. b # partyOf[p]
      BY <1>1, <1>4, <2>3 DEF P!TypeOK, P!PartyAssumption
    <3>2. QED BY <1>2, <2>3, <3>1, OthersFit
  <2>4. invitations' \in [Partners -> SUBSET Addresses]
    BY <1>1, <2>1 DEF P!Uninvited, P!TypeOK
  <2> HIDE DEF asked, gone
  <2>5. ASSUME NEW r \in Partners
        PROVE  invitations'[r] = {b \in parties \ gone : r \in asked[b]}
    <3>1. \A b : b \in invitations'[r] <=> r # p /\ b \in invitations[r] /\ ~(b \in gone /\ r \in asked[b])
      BY <2>1 DEF P!Uninvited
    <3>2. \A b \in parties : /\ b \in Addresses /\ (b \in from <=> p \in inviteList[b])
                             /\ b \in invitations[r] <=> r \in inviteList[b]
      BY <1>1 DEF P!TypeOK
    <3>3. \A b \in parties : r \in asked[b] <=> r # p /\ r \in inviteList[b]
      BY <2>2, <3>2
    <3>4. invitations[r] \subseteq parties
      BY <1>1
    <3>5. QED BY <3>1, <3>2, <3>3, <3>4
  <2>6. partyUsers' \in [Addresses -> SUBSET partyOnline']
    <3>1. partyUsers \in [Addresses -> SUBSET Partners] /\ \A b \in Addresses : partyUsers[b] \subseteq partyOnline
      BY <1>1 DEF P!TypeOK, P!UsersOnline
    <3>2. \A b \in Addresses : partyUsers'[b] \subseteq partyUsers[b] \ {p}
      BY <2>1 DEF P!Silenced
    <3>3. partyUsers' = [b \in Addresses |-> partyUsers'[b]]
      BY <2>1 DEF P!Silenced
    <3>4. QED BY <1>2, <3>1, <3>2, <3>3
  <2>7. Fits(leader, memberList, asked, {p}, gone, partyOnline', invitations')
    <3>1. \A b \in Addresses \ parties : asked[b] = inviteList[b]
      BY <1>2, <2>2
    <3>2. gone \subseteq parties
      BY <1>2, <2>2
    <3>3. leader \in [Addresses -> Partners \cup {NoPlayer}] /\ memberList \in [Addresses -> SUBSET Partners]
      BY <1>1 DEF P!TypeOK
    <3>4. QED BY <2>2, <2>3, <2>4, <2>5, <3>1, <3>2, <3>3 DEF Fits
  <2>8. QED BY <1>2, <2>1, <2>6, <2>7, SettleStep
<1>5. QED BY <1>3, <1>4

\* Channels, logins and connections.
LEMMA PartySmall ==
    ASSUME PartyInv, NEW p \in Partners, P!OpenChannel(p) \/ P!CloseChannel(p) \/ P!Login(p) \/ P!LoseConnection(p)
    PROVE  PartyInv'
<1>1. /\ P!TypeOK /\ NobodyListed /\ P!PlayersKnown /\ P!UsersOnline /\ AllListed /\ P!InvitationsKnown
  BY DEF PartyInv
<1>2. UNCHANGED <<partyOf, invitations, parties, leader, memberList, inviteList>>
  BY DEF P!OpenChannel, P!CloseChannel, P!Login, P!LoseConnection
<1>3. partyOnline \subseteq partyOnline' /\ partyOnline' \subseteq Partners /\ partyAttached' \subseteq partyOnline'
  BY <1>1 DEF P!OpenChannel, P!CloseChannel, P!Login, P!LoseConnection, P!TypeOK
<1>4. partyUsers' \in [Addresses -> SUBSET partyOnline']
  <2>1. CASE p \in partyOnline /\ partyOnline' = partyOnline
             /\ \E a \in P!ChannelOf(p) : partyUsers' = [partyUsers EXCEPT ![a] = @ \cup {p}]
                                        \/ partyUsers' = [partyUsers EXCEPT ![a] = @ \ {p}]
    BY <1>1, <2>1 DEF P!TypeOK, P!UsersOnline
  <2>2. CASE UNCHANGED partyUsers
    BY <1>1, <1>3, <2>2 DEF P!TypeOK, P!UsersOnline
  <2>3. QED BY <2>1, <2>2 DEF P!OpenChannel, P!CloseChannel, P!Login, P!LoseConnection
<1>5. P!TypeOK' /\ P!UsersOnline'
  BY <1>1, <1>2, <1>3, <1>4 DEF P!TypeOK, P!UsersOnline
<1>6. NobodyListed' /\ P!PlayersKnown' /\ P!InvitationsKnown'
  BY <1>1, <1>2 DEF NobodyListed, P!PlayersKnown, P!InvitationsKnown
<1>7. AllListed'
  BY <1>1, <1>2, <1>3 DEF AllListed, Listed, Mates
<1>8. QED BY <1>5, <1>6, <1>7 DEF PartyInv

LEMMA PartyInvariant == ASSUME P!PartyAssumption, ~SelfInvites PROVE P!Spec => []PartyInv
<1>1. P!Init => PartyInv
  BY DEF P!Init, PartyInv, P!TypeOK, NobodyListed, P!PlayersKnown, P!UsersOnline, AllListed, P!InvitationsKnown
<1>2. PartyInv /\ [P!Next]_(P!vars) => PartyInv'
  <2> SUFFICES ASSUME PartyInv, [P!Next]_(P!vars) PROVE PartyInv'
    OBVIOUS
  <2>1. CASE UNCHANGED P!vars
    BY <2>1 DEF P!vars, PartyInv, P!TypeOK, NobodyListed, P!PlayersKnown, P!UsersOnline, AllListed, P!InvitationsKnown,
                Listed, Mates
  <2>2. ASSUME NEW p \in Partners, NEW q \in Partners,
               P!Invite(p, q) \/ P!Join(p, q) \/ P!Revoke(p, q) \/ P!PassLeadership(p, q)
        PROVE  PartyInv'
    BY <2>2, PartyInvite, PartyJoin, PartyRevoke, PartyPass
  <2>3. ASSUME NEW p \in Partners,
               P!LeaveParty(p) \/ P!OpenChannel(p) \/ P!CloseChannel(p)
               \/ P!Disappear(p) \/ P!Login(p) \/ P!LoseConnection(p)
        PROVE  PartyInv'
    BY <2>3, PartyLeaveParty, PartySmall, PartyDisappear
  <2>4. QED BY <2>1, <2>2, <2>3 DEF P!Next
<1>3. QED BY <1>1, <1>2, PTL DEF P!Spec

LEMMA PartyImplied == ASSUME PartyInv PROVE P!TypeOK /\ P!PartiesAgree
<1>1. ASSUME NEW a \in parties
      PROVE  /\ leader[a] \in partyOnline /\ memberList[a] \subseteq partyOnline /\ inviteList[a] \subseteq partyOnline
             /\ leader[a] \notin memberList[a]
             /\ P!InParty(a) = {p \in Partners : partyOf[p] = a} /\ P!InParty(a) \cap inviteList[a] = {}
             /\ memberList[a] # {} \/ inviteList[a] # {}
  <2>1. Listed(leader, memberList, inviteList, partyOnline, Mates(a), a)
    BY DEF PartyInv, AllListed
  <2>2. P!InParty(a) = Mates(a)
    BY <2>1 DEF Listed, P!InParty, Mates
  <2>3. QED BY <2>1, <2>2 DEF Listed, Mates
<1>2. QED BY <1>1 DEF PartyInv, P!PartiesAgree, P!PartyKnown

-----------------------------------------------------------------------------
(* The waiting list, for any clients, privileges, places and steps of time *)

Entries == [who : Clients, left : 0..W!Horizon]

\* Each has one entry at most, and premium accounts are in front.
Ordered(list) ==
    /\ list \in Seq(Entries)
    /\ \A i, j \in 1..Len(list) : list[i].who = list[j].who => i = j
    /\ \A i, j \in 1..Len(list) : list[j].who \in Subscribers /\ i <= j => list[i].who \in Subscribers

\* Who may still come back in time has an entry for as long as that.
HasTurn(list, c) == \E i \in 1..Len(list) : list[i].who = c /\ list[i].left >= told[c] + 15 - since[c]
PlacesLast == \A c \in Clients \ waitOnline : told[c] > 0 /\ since[c] < told[c] + 15 => HasTurn(waitList, c)

InsideTold == \A c \in waitOnline : told[c] = 0

WaitInv == W!TypeOK /\ Ordered(waitList) /\ IsFiniteSet(waitOnline) /\ PlacesLast /\ InsideTold

\* Who is on r is on list, in the same order.
Among(r, list) ==
    /\ \A k \in 1..Len(r) : \E i \in 1..Len(list) : r[k].who = list[i].who
    /\ \A k, l \in 1..Len(r), i, j \in 1..Len(list) :
         k < l /\ r[k].who = list[i].who /\ r[l].who = list[j].who => i < j

LEMMA AmongItself ==
    ASSUME NEW list, Ordered(list)
    PROVE  Among(list, list)
BY DEF Among, Ordered

LEMMA AmongTwice ==
    ASSUME NEW r, NEW s, NEW list, Among(r, s), Among(s, list)
    PROVE  Among(r, list)
<1>1. \A k \in 1..Len(r) : \E i \in 1..Len(s) : r[k].who = s[i].who
  BY DEF Among
<1>2. \A k \in 1..Len(s) : \E i \in 1..Len(list) : s[k].who = list[i].who
  BY DEF Among
<1>3. ASSUME NEW k \in 1..Len(r), NEW l \in 1..Len(r), NEW i \in 1..Len(list), NEW j \in 1..Len(list),
             k < l, r[k].who = list[i].who, r[l].who = list[j].who
      PROVE  i < j
  <2>1. PICK p \in 1..Len(s) : r[k].who = s[p].who
    BY <1>1
  <2>2. PICK q \in 1..Len(s) : r[l].who = s[q].who
    BY <1>1
  <2>3. p < q
    BY <1>3, <2>1, <2>2 DEF Among
  <2>4. QED BY <1>3, <2>1, <2>2, <2>3 DEF Among
<1>4. \A k \in 1..Len(r) : \E i \in 1..Len(list) : r[k].who = list[i].who
  BY <1>1, <1>2
<1>5. QED BY <1>3, <1>4 DEF Among

LEMMA SublistAmong ==
    ASSUME NEW list, Ordered(list), NEW r, NEW g, NEW places, places \subseteq 1..Len(list),
           Sublist(g, r, list, places)
    PROVE  Among(r, list)
<1>1. \A k \in 1..Len(r) : g[k] \in 1..Len(list) /\ r[k].who = list[g[k]].who
  BY DEF Sublist
<1>2. ASSUME NEW k \in 1..Len(r), NEW l \in 1..Len(r), NEW i \in 1..Len(list), NEW j \in 1..Len(list),
             k < l, r[k].who = list[i].who, r[l].who = list[j].who
      PROVE  i < j
  <2>1. g[k] = i /\ g[l] = j
    BY <1>1, <1>2 DEF Ordered
  <2>2. g[k] < g[l]
    BY <1>2 DEF Sublist
  <2>3. QED BY <2>1, <2>2
<1>3. \A k \in 1..Len(r) : \E i \in 1..Len(list) : r[k].who = list[i].who
  BY <1>1
<1>4. QED BY <1>2, <1>3 DEF Among

LEMMA ShorterList ==
    ASSUME NEW list, Ordered(list), NEW places, places \subseteq 1..Len(list)
    PROVE  /\ Ordered(OnlyAt(list, places))
           /\ \E g : Sublist(g, OnlyAt(list, places), list, places)
<1> DEFINE r == OnlyAt(list, places)
<1>1. list \in Seq(Entries)
  BY DEF Ordered
<1>2. r \in Seq(Entries) /\ \E g : Sublist(g, r, list, places)
  BY <1>1, OnlyAtIs
<1> HIDE DEF r
<1>3. PICK g : Sublist(g, r, list, places)
  BY <1>2
<1>4. /\ \A i \in 1..Len(r) : g[i] \in 1..Len(list) /\ r[i] = list[g[i]]
      /\ \A i, j \in 1..Len(r) : i < j => g[i] < g[j]
  BY <1>3 DEF Sublist
<1>5. Len(r) \in Nat /\ Len(list) \in Nat
  BY <1>1, <1>2
<1>6. \A i, j \in 1..Len(r) : r[i].who = r[j].who => i = j
  <2> SUFFICES ASSUME NEW i \in 1..Len(r), NEW j \in 1..Len(r), r[i].who = r[j].who PROVE i = j
    OBVIOUS
  <2>1. g[i] = g[j]
    BY <1>4 DEF Ordered
  <2>2. ~(i < j) /\ ~(j < i)
    BY <1>4, <1>5, <2>1
  <2>3. QED BY <1>5, <2>2
<1>7. \A i, j \in 1..Len(r) : r[j].who \in Subscribers /\ i <= j => r[i].who \in Subscribers
  <2> SUFFICES ASSUME NEW i \in 1..Len(r), NEW j \in 1..Len(r), r[j].who \in Subscribers, i <= j
               PROVE  r[i].who \in Subscribers
    OBVIOUS
  <2>1. g[i] <= g[j]
    <3>1. i < j \/ i = j
      BY <1>5
    <3>2. QED BY <1>4, <1>5, <3>1
  <2>2. QED BY <1>4, <2>1 DEF Ordered
<1>8. Ordered(r)
  BY <1>2, <1>6, <1>7 DEF Ordered
<1>9. QED BY <1>2, <1>8 DEF r

LEMMA InsertedIs ==
    ASSUME NEW list \in Seq(Entries), NEW n \in 1..Len(list)+1, NEW e \in Entries
    PROVE  /\ W!InsertAt(list, n, e) \in Seq(Entries) /\ Len(W!InsertAt(list, n, e)) = Len(list) + 1
           /\ W!InsertAt(list, n, e)[n] = e
           /\ \A i \in 1..Len(list) : i < n => W!InsertAt(list, n, e)[i] = list[i]
           /\ \A i \in 1..Len(list) : i >= n => W!InsertAt(list, n, e)[i + 1] = list[i]
<1> DEFINE a == SubSeq(list, 1, n - 1)
           b == SubSeq(list, n, Len(list))
           r == a \o <<e>> \o b
<1>1. Len(list) \in Nat /\ n \in Nat /\ n - 1 \in Nat
  OBVIOUS
<1>2. a \in Seq(Entries) /\ Len(a) = n - 1 /\ \A i \in 1..n-1 : a[i] = list[i]
  OBVIOUS
<1>3. b \in Seq(Entries) /\ Len(b) = Len(list) - n + 1 /\ \A i \in 1..Len(b) : b[i] = list[i + n - 1]
  OBVIOUS
<1>4. W!InsertAt(list, n, e) = r
  BY DEF W!InsertAt
<1> HIDE DEF a, b
<1> DEFINE q == a \o <<e>>
<1>5. q \in Seq(Entries) /\ Len(q) = n /\ q[n] = e /\ \A i \in 1..n-1 : q[i] = list[i]
  BY <1>1, <1>2
<1>6. r = q \o b
  OBVIOUS
<1> HIDE DEF q, r
<1>7. r \in Seq(Entries) /\ Len(r) = Len(list) + 1
  <2>1. r \in Seq(Entries) /\ Len(r) = Len(q) + Len(b)
    BY <1>3, <1>5, <1>6
  <2>2. QED BY <1>1, <1>3, <1>5, <2>1
<1>8. /\ \A i \in 1..Len(q) : r[i] = q[i]
      /\ \A i \in 1..Len(b) : r[Len(q) + i] = b[i]
  BY <1>3, <1>5, <1>6
<1>9. ASSUME NEW i \in 1..Len(list), i >= n PROVE r[i + 1] = list[i]
  <2>0. PICK m \in Nat : m = Len(list)
    BY <1>1
  <2>1. i + 1 - n \in 1..Len(b) /\ i + 1 = n + (i + 1 - n) /\ (i + 1 - n) + n - 1 = i
    <3>1. Len(b) = m - n + 1 /\ i \in 1..m /\ n \in 1..m+1
      BY <1>3, <2>0
    <3>2. i \in Int /\ n \in Int /\ m \in Int /\ i <= m
      BY <3>1
    <3>3. i + 1 - n \in Int /\ 1 <= i + 1 - n /\ i + 1 - n <= m - n + 1
      BY <1>9, <3>2
    <3>4. i + 1 = n + (i + 1 - n) /\ (i + 1 - n) + n - 1 = i
      BY <3>2
    <3>5. i + 1 - n \in 1..(m - n + 1)
      BY <3>2, <3>3
    <3>6. QED BY <3>1, <3>4, <3>5
  <2>2. r[i + 1] = b[i + 1 - n]
    BY <1>5, <1>8, <2>1
  <2>3. QED BY <1>3, <2>1, <2>2
<1>10. r[n] = e /\ \A i \in 1..Len(list) : i < n => r[i] = list[i]
  <2>1. n \in 1..Len(q) /\ \A i \in 1..Len(list) : i < n => i \in 1..n-1 /\ i \in 1..Len(q)
    BY <1>1, <1>5
  <2>2. QED BY <1>5, <1>8, <2>1
<1>11. QED BY <1>4, <1>7, <1>9, <1>10

LEMMA TimesAre ==
    /\ \A list \in Seq(Entries) : \A i \in 1..Len(list) :
         list[i].who \in Clients /\ list[i].left \in Int /\ 0 <= list[i].left /\ list[i].left <= W!Horizon
    /\ \A f \in [Clients -> {0, 5, 10, 20, 60, 120}], c \in Clients : f[c] \in Int
    /\ \A f \in [Clients -> 0..W!Horizon], c \in Clients : f[c] \in Int /\ 0 <= f[c] /\ f[c] <= W!Horizon
<1>1. \A e \in Entries : e.who \in Clients /\ e.left \in Int /\ 0 <= e.left /\ e.left <= W!Horizon
  BY DEF Entries, W!Horizon
<1>2. \A list \in Seq(Entries) : \A i \in 1..Len(list) : list[i] \in Entries
  OBVIOUS
<1>3. \A f \in [Clients -> {0, 5, 10, 20, 60, 120}], c \in Clients : f[c] \in Int
  OBVIOUS
<1>4. \A f \in [Clients -> 0..W!Horizon], c \in Clients : f[c] \in Int /\ 0 <= f[c] /\ f[c] <= W!Horizon
  BY DEF W!Horizon
<1>5. QED BY <1>1, <1>2, <1>3, <1>4

LEMMA ListsAre ==
    ASSUME W!WaitAssumption, WaitInv
    PROVE  /\ Ordered(waitList) /\ waitList \in Seq(Entries)
           /\ told \in [Clients -> {0, 5, 10, 20, 60, 120}] /\ since \in [Clients -> 0..W!Horizon] /\ waitOnline \subseteq Clients
           /\ Ordered(W!Cleanup)
           /\ \E g : Sublist(g, W!Cleanup, waitList, {i \in DOMAIN waitList : waitList[i].left > 0})
           /\ \A c \in Clients \ waitOnline : told[c] > 0 /\ since[c] < told[c] + 15 => HasTurn(W!Cleanup, c)
<1> DEFINE fresh == {i \in DOMAIN waitList : waitList[i].left > 0}
<1>1. Ordered(waitList) /\ waitList \in Seq(Entries) /\ fresh \subseteq 1..Len(waitList)
  BY DEF WaitInv, Ordered
<1>2. W!Cleanup = OnlyAt(waitList, fresh)
  BY DEF W!Cleanup, W!OnlyAt, OnlyAt
<1>3. told \in [Clients -> {0, 5, 10, 20, 60, 120}] /\ since \in [Clients -> 0..W!Horizon] /\ waitOnline \subseteq Clients
  BY DEF WaitInv, W!TypeOK
<1>4. Ordered(W!Cleanup) /\ \E g : Sublist(g, W!Cleanup, waitList, fresh)
  <2> HIDE DEF fresh
  <2>1. QED BY <1>1, <1>2, ShorterList
<1>5. ASSUME NEW c \in Clients \ waitOnline, told[c] > 0, since[c] < told[c] + 15 PROVE HasTurn(W!Cleanup, c)
  <2>1. PICK i \in 1..Len(waitList) : waitList[i].who = c /\ waitList[i].left >= told[c] + 15 - since[c]
    BY <1>5 DEF WaitInv, PlacesLast, HasTurn
  <2>2. waitList[i].left > 0
    <3>1. waitList[i].left \in Int /\ told[c] \in Int /\ since[c] \in Int
      BY <1>1, <1>3, <1>5, TimesAre
    <3>2. QED BY <1>5, <2>1, <3>1
  <2>3. i \in fresh
    BY <1>1, <2>2
  <2>4. PICK g : Sublist(g, W!Cleanup, waitList, fresh)
    BY <1>4
  <2>5. PICK k \in 1..Len(W!Cleanup) : g[k] = i
    BY <2>3, <2>4 DEF Sublist
  <2>6. W!Cleanup[k] = waitList[i]
    BY <2>4, <2>5 DEF Sublist
  <2>7. QED BY <2>1, <2>5, <2>6 DEF HasTurn
<1>6. QED BY <1>1, <1>3, <1>4, <1>5

\* Where a premium account is inserted.
LEMMA Smallest ==
    ASSUME NEW free, free \subseteq Nat, free # {}
    PROVE  \E i \in free : \A j \in free : i <= j
<1> DEFINE T == {n \in Nat : \A i \in free : i <= n => \E k \in free : \A j \in free : k <= j}
<1>1. 0 \in T
  BY DEF T
<1>2. ASSUME NEW n \in Nat, n \in T PROVE n + 1 \in T
  <2> SUFFICES ASSUME NEW i \in free, i <= n + 1 PROVE \E k \in free : \A j \in free : k <= j
    BY DEF T
  <2>1. CASE \E j \in free : j <= n
    BY <1>2, <2>1 DEF T
  <2>2. CASE \A j \in free : ~(j <= n)
    <3>1. \A j \in free : i <= j
      BY <2>2
    <3>2. QED BY <3>1
  <2>3. QED BY <2>1, <2>2
<1> HIDE DEF T
<1>3. \A n \in Nat : n \in T
  BY <1>1, <1>2, SetOfNaturals
<1>4. PICK i \in free : TRUE
  OBVIOUS
<1>5. i \in T /\ i <= i
  BY <1>3, <1>4
<1>6. QED BY <1>5 DEF T

\* All premium accounts are before the place, and only they, or it is the end.
PlaceFor(list, c, slot) ==
    /\ slot \in 1..Len(list)+1
    /\ \A i \in 1..Len(list) : c \in Subscribers => (i < slot <=> list[i].who \in Subscribers)
    /\ c \notin Subscribers => slot = Len(list) + 1

LEMMA SlotIs ==
    ASSUME NEW list, Ordered(list), NEW c, NEW slot,
           slot = IF c \in Subscribers THEN W!PremiumSlot(list) ELSE Len(list) + 1
    PROVE  PlaceFor(list, c, slot)
<1> DEFINE free == {i \in DOMAIN list : list[i].who \notin Subscribers}
<1>1. Len(list) \in Nat /\ DOMAIN list = 1..Len(list) /\ list \in Seq(Entries)
  BY DEF Ordered
<1>2. CASE c \notin Subscribers
  BY <1>1, <1>2 DEF PlaceFor
<1>3. CASE c \in Subscribers /\ free = {}
  <2>1. slot = Len(list) + 1
    BY <1>3 DEF W!PremiumSlot
  <2>2. \A i \in 1..Len(list) : list[i].who \in Subscribers /\ i < slot
    BY <1>1, <1>3, <2>1
  <2> HIDE DEF free
  <2>3. QED BY <1>1, <1>3, <2>1, <2>2 DEF PlaceFor
<1>4. CASE c \in Subscribers /\ free # {}
  <2>1. slot = CHOOSE i \in free : \A j \in free : i <= j
    BY <1>4 DEF W!PremiumSlot
  <2>2. free \subseteq 1..Len(list) /\ free \subseteq Nat
    BY <1>1
  <2>3. slot \in free /\ \A j \in free : slot <= j
    <3> HIDE DEF free
    <3>1. \E i \in free : \A j \in free : i <= j
      BY <1>4, <2>2, Smallest
    <3>2. QED BY <2>1, <3>1
  <2>4. ASSUME NEW i \in 1..Len(list), i < slot PROVE list[i].who \in Subscribers
    <3>1. i \notin free
      <4> HIDE DEF free
      <4>1. QED BY <1>1, <2>2, <2>3, <2>4
    <3>2. QED BY <1>1, <3>1
  <2>5. ASSUME NEW i \in 1..Len(list), ~(i < slot) PROVE list[i].who \notin Subscribers
    <3>1. list[slot].who \notin Subscribers /\ slot \in 1..Len(list)
      BY <1>1, <2>3
    <3>2. slot <= i
      BY <1>1, <2>5, <3>1
    <3>3. QED BY <3>1, <3>2 DEF Ordered
  <2>6. slot \in 1..Len(list)+1
    <3> HIDE DEF free
    <3>1. QED BY <1>1, <2>2, <2>3
  <2> HIDE DEF free
  <2>7. QED BY <1>4, <2>4, <2>5, <2>6 DEF PlaceFor
<1>5. QED BY <1>2, <1>3, <1>4

\* A list into which one is inserted.
Inserted(r, list, n, e) ==
    /\ r \in Seq(Entries) /\ Len(r) = Len(list) + 1 /\ r[n] = e
    /\ \A k \in 1..Len(r) :
         \/ k < n /\ k \in 1..Len(list) /\ r[k] = list[k]
         \/ k = n
         \/ k > n /\ k - 1 \in 1..Len(list) /\ r[k] = list[k - 1]
    /\ \A i \in 1..Len(list) : \E k \in 1..Len(r) : r[k] = list[i]

LEMMA JoinedIs ==
    ASSUME NEW list \in Seq(Entries), NEW n \in 1..Len(list)+1, NEW e \in Entries
    PROVE  Inserted(W!InsertAt(list, n, e), list, n, e)
<1> DEFINE r == W!InsertAt(list, n, e)
           m == Len(list)
<1>1. /\ r \in Seq(Entries) /\ Len(r) = m + 1 /\ r[n] = e
      /\ \A i \in 1..m : i < n => r[i] = list[i]
      /\ \A i \in 1..m : i >= n => r[i + 1] = list[i]
  BY InsertedIs
<1>2. m \in Nat
  OBVIOUS
<1> HIDE DEF r, m
<1>3. n \in 1..m+1
  BY DEF m
<1>4. ASSUME NEW k \in 1..m+1
      PROVE  \/ k < n /\ k \in 1..m /\ r[k] = list[k]
             \/ k = n
             \/ k > n /\ k - 1 \in 1..m /\ r[k] = list[k - 1]
  <2>1. CASE k < n
    BY <1>1, <1>2, <1>3, <2>1
  <2>2. CASE k > n
    <3>1. k - 1 \in 1..m /\ k - 1 >= n /\ (k - 1) + 1 = k
      BY <1>2, <1>3, <2>2
    <3>2. QED BY <1>1, <2>2, <3>1
  <2>3. QED BY <1>2, <1>3, <2>1, <2>2
<1>5. ASSUME NEW i \in 1..m PROVE \E k \in 1..m+1 : r[k] = list[i]
  <2>1. i \in 1..m+1 /\ i + 1 \in 1..m+1
    BY <1>2
  <2>2. i < n \/ i >= n
    BY <1>2, <1>3
  <2>3. QED BY <1>1, <2>1, <2>2
<1>6. Inserted(r, list, n, e)
  BY <1>1, <1>4, <1>5 DEF Inserted, m
<1>7. QED BY <1>6 DEF r

LEMMA JoinedOrdered ==
    ASSUME NEW list, Ordered(list), NEW c \in Clients, ~W!InList(list, c), NEW n, PlaceFor(list, c, n),
           NEW e \in Entries, e.who = c, NEW r, Inserted(r, list, n, e)
    PROVE  Ordered(r)
<1> DEFINE m == Len(list)
<1>1. /\ m \in Nat /\ n \in 1..m+1 /\ Len(r) = m + 1 /\ r[n] = e /\ r \in Seq(Entries)
      /\ \A i \in 1..m : list[i].who # c
  BY DEF Ordered, PlaceFor, Inserted, W!InList
<1>2. \A k \in 1..m+1 : \/ k < n /\ k \in 1..m /\ r[k] = list[k]
                        \/ k = n
                        \/ k > n /\ k - 1 \in 1..m /\ r[k] = list[k - 1]
  BY DEF Inserted
<1>3. /\ \A i, j \in 1..m : list[i].who = list[j].who => i = j
      /\ \A i, j \in 1..m : list[j].who \in Subscribers /\ i <= j => list[i].who \in Subscribers
  BY DEF Ordered
<1>4. /\ \A i \in 1..m : c \in Subscribers => (i < n <=> list[i].who \in Subscribers)
      /\ c \notin Subscribers => n = m + 1
  BY DEF PlaceFor
<1> HIDE DEF m
<1>5. ASSUME NEW k \in 1..m+1, NEW l \in 1..m+1, r[k].who = r[l].who PROVE k = l
  <2>1. CASE k = n
    BY <1>1, <1>2, <1>5, <2>1
  <2>2. CASE l = n
    BY <1>1, <1>2, <1>5, <2>2
  <2>3. CASE k # n /\ l # n
    <3>1. PICK p \in 1..m : r[k] = list[p] /\ ((p = k /\ k < n) \/ (p = k - 1 /\ k > n))
      BY <1>2, <2>3
    <3>2. PICK q \in 1..m : r[l] = list[q] /\ ((q = l /\ l < n) \/ (q = l - 1 /\ l > n))
      BY <1>2, <2>3
    <3>3. p = q
      BY <1>3, <1>5, <3>1, <3>2
    <3>4. QED BY <1>1, <3>1, <3>2, <3>3
  <2>4. QED BY <2>1, <2>2, <2>3
<1>6. ASSUME NEW k \in 1..m+1, NEW l \in 1..m+1, r[l].who \in Subscribers, k <= l PROVE r[k].who \in Subscribers
  <2>1. CASE c \notin Subscribers
    <3>1. l \in 1..m /\ r[l] = list[l]
      BY <1>1, <1>2, <1>4, <1>6, <2>1
    <3>2. k \in 1..m /\ r[k] = list[k]
      BY <1>1, <1>2, <1>4, <1>6, <2>1, <3>1
    <3>3. QED BY <1>3, <1>6, <3>1, <3>2
  <2>2. CASE c \in Subscribers
    <3>1. ~(l > n)
      <4> SUFFICES ASSUME l > n PROVE FALSE
        OBVIOUS
      <4>1. l - 1 \in 1..m /\ r[l] = list[l - 1] /\ ~(l - 1 < n)
        BY <1>1, <1>2
      <4>2. QED BY <1>4, <1>6, <2>2, <4>1
    <3>2. k < n \/ k = n
      BY <1>1, <1>6, <3>1
    <3>3. CASE k < n
      <4>1. k \in 1..m /\ r[k] = list[k]
        BY <1>1, <1>2, <3>3
      <4>2. QED BY <1>4, <2>2, <3>3, <4>1
    <3>4. QED BY <1>1, <2>2, <3>2, <3>3
  <2>3. QED BY <2>1, <2>2
<1>7. QED BY <1>1, <1>5, <1>6 DEF Ordered

-----------------------------------------------------------------------------
(* What a login makes of a list                                            *)

LEMMA TimesTold ==
    /\ \A n \in Nat : W!getTime(n) \in {5, 10, 20, 60, 120} /\ W!getTimeout(n) = W!getTime(n) + 15
    /\ \A n \in Nat, c \in Clients : W!Entry(c, n) \in Entries /\ W!Entry(c, n).who = c
                                     /\ W!Entry(c, n).left = W!getTime(n) + 15
<1>1. \A n \in Nat : W!getTime(n) \in {5, 10, 20, 60, 120} /\ W!getTimeout(n) = W!getTime(n) + 15
  BY DEF W!getTime, W!getTimeout
<1>2. \A n \in Nat : W!getTimeout(n) \in 0..135
  BY <1>1
<1>3. ASSUME NEW n \in Nat, NEW c \in Clients
      PROVE  W!Entry(c, n) \in Entries /\ W!Entry(c, n).who = c /\ W!Entry(c, n).left = W!getTimeout(n)
  BY <1>2 DEF W!Entry, Entries, W!Horizon
<1>4. QED BY <1>1, <1>3

\* The others keep their entries.
Keeps(r, list, c) ==
    \A i \in 1..Len(list) : list[i].who # c => \E k \in 1..Len(r) : r[k] = list[i]

\* Who is in front of whom: only premium accounts get in front of others.
Joins(r, list, c) ==
    \A k, l \in 1..Len(r) : k < l =>
       /\ r[k].who = c => c \in Subscribers /\ r[l].who \notin Subscribers
       /\ r[k].who # c /\ r[l].who # c =>
            \E p, q \in 1..Len(list) : p < q /\ list[p].who = r[k].who /\ list[q].who = r[l].who

LEMMA SlotInIs ==
    ASSUME NEW list, Ordered(list), NEW c, W!InList(list, c)
    PROVE  /\ W!SlotIn(list, c) \in 1..Len(list) /\ list[W!SlotIn(list, c)].who = c
           /\ \A i \in 1..Len(list) : list[i].who = c => i = W!SlotIn(list, c)
<1>1. DOMAIN list = 1..Len(list)
  BY DEF Ordered
<1>2. QED BY <1>1 DEF W!SlotIn, W!InList, Ordered

LEMMA LeavesIs ==
    ASSUME NEW list, Ordered(list), NEW c, W!InList(list, c), NEW r,
           r = OnlyAt(list, DOMAIN list \ {W!SlotIn(list, c)})
    PROVE  Ordered(r) /\ Keeps(r, list, c) /\ Among(r, list)
<1> DEFINE rest == DOMAIN list \ {W!SlotIn(list, c)}
<1>1. DOMAIN list = 1..Len(list)
  BY DEF Ordered
<1>2. rest \subseteq 1..Len(list) /\ \A i \in 1..Len(list) : list[i].who # c => i \in rest
  BY <1>1, SlotInIs
<1>3. Ordered(r) /\ \E g : Sublist(g, r, list, rest)
  <2> HIDE DEF rest
  <2>1. r = OnlyAt(list, rest)
    BY DEF rest
  <2>2. QED BY <1>2, <2>1, ShorterList
<1> HIDE DEF rest
<1>4. PICK g : Sublist(g, r, list, rest)
  BY <1>3
<1>5. Among(r, list)
  BY <1>2, <1>4, SublistAmong
<1>6. ASSUME NEW i \in 1..Len(list), list[i].who # c PROVE \E k \in 1..Len(r) : r[k] = list[i]
  <2>1. PICK k \in 1..Len(r) : g[k] = i
    BY <1>2, <1>4, <1>6 DEF Sublist
  <2>2. r[k] = list[i]
    BY <1>4, <2>1 DEF Sublist
  <2>3. QED BY <2>2
<1>7. QED BY <1>3, <1>5, <1>6 DEF Keeps

\* The list where the entry of c is renewed.
Renewed(list, c) == [list EXCEPT ![W!SlotIn(list, c)] = W!Entry(c, W!SlotIn(list, c))]

LEMMA StaysIs ==
    ASSUME NEW list, Ordered(list), NEW c \in Clients, W!InList(list, c), NEW r, NEW slot,
           slot = W!SlotIn(list, c), r = Renewed(list, c)
    PROVE  /\ Ordered(r) /\ Keeps(r, list, c) /\ Among(r, list)
           /\ slot \in 1..Len(r) /\ r[slot] = W!Entry(c, slot) /\ slot \in Nat
<1>1. list \in Seq(Entries) /\ slot \in 1..Len(list) /\ list[slot].who = c /\ slot \in Nat
  BY SlotInIs DEF Ordered
<1>2. W!Entry(c, slot) \in Entries /\ W!Entry(c, slot).who = c
  BY <1>1, TimesTold
<1> DEFINE e == W!Entry(c, slot)
<1> HIDE DEF e
<1>3. /\ r \in Seq(Entries) /\ Len(r) = Len(list) /\ r[slot] = e
      /\ \A i \in 1..Len(list) : i # slot => r[i] = list[i]
  BY <1>1, <1>2 DEF e, Renewed
<1>4. \A i \in 1..Len(list) : r[i].who = list[i].who
  BY <1>1, <1>2, <1>3 DEF e
<1>5. Ordered(r)
  BY <1>3, <1>4 DEF Ordered
<1>6. Keeps(r, list, c)
  BY <1>1, <1>3 DEF Keeps
<1>7. Among(r, list)
  BY <1>3, <1>4 DEF Among, Ordered
<1>8. QED BY <1>1, <1>3, <1>5, <1>6, <1>7 DEF e

LEMMA JoinsIs ==
    ASSUME NEW list, Ordered(list), NEW c \in Clients, ~W!InList(list, c), NEW r, NEW slot,
           slot = IF c \in Subscribers THEN W!PremiumSlot(list) ELSE Len(list) + 1,
           r = W!InsertAt(list, slot, W!Entry(c, slot))
    PROVE  /\ Ordered(r) /\ Keeps(r, list, c) /\ Joins(r, list, c)
           /\ slot \in 1..Len(r) /\ r[slot] = W!Entry(c, slot) /\ slot \in Nat
<1> DEFINE m == Len(list)
           e == W!Entry(c, slot)
<1>1. list \in Seq(Entries) /\ m \in Nat /\ PlaceFor(list, c, slot)
  BY SlotIs DEF Ordered
<1>2. slot \in 1..m+1 /\ slot \in Nat
  BY <1>1 DEF PlaceFor
<1>3. e \in Entries /\ e.who = c
  BY <1>2, TimesTold
<1>4. Inserted(r, list, slot, e)
  BY <1>1, <1>2, <1>3, JoinedIs
<1> HIDE DEF e
<1>5. Ordered(r)
  BY <1>1, <1>3, <1>4, JoinedOrdered
<1>6. Keeps(r, list, c)
  BY <1>4 DEF Keeps, Inserted
<1>7. /\ Len(r) = m + 1 /\ r[slot].who = c
      /\ \A k \in 1..m+1 : \/ k < slot /\ k \in 1..m /\ r[k] = list[k]
                           \/ k = slot
                           \/ k > slot /\ k - 1 \in 1..m /\ r[k] = list[k - 1]
      /\ \A i \in 1..m : list[i].who # c
  BY <1>1, <1>3, <1>4 DEF Inserted, W!InList, Ordered
<1>8. /\ \A i \in 1..m : c \in Subscribers => (i < slot <=> list[i].who \in Subscribers)
      /\ c \notin Subscribers => slot = m + 1
  BY <1>1 DEF PlaceFor
<1> HIDE DEF m
<1>9. ASSUME NEW k \in 1..m+1, NEW l \in 1..m+1, k < l, r[k].who = c
      PROVE  c \in Subscribers /\ r[l].who \notin Subscribers
  <2>1. k = slot
    BY <1>7, <1>9
  <2>2. l - 1 \in 1..m /\ r[l] = list[l - 1] /\ ~(l - 1 < slot)
    BY <1>1, <1>2, <1>7, <1>9, <2>1
  <2>3. c \in Subscribers
    BY <1>1, <1>8, <1>9, <2>1
  <2>4. QED BY <1>8, <2>2, <2>3
<1>10. ASSUME NEW k \in 1..m+1, NEW l \in 1..m+1, k < l, r[k].who # c, r[l].who # c
       PROVE  \E p, q \in 1..m : p < q /\ list[p].who = r[k].who /\ list[q].who = r[l].who
  <2>1. k # slot /\ l # slot
    BY <1>7, <1>10
  <2>2. PICK p \in 1..m : r[k] = list[p] /\ ((p = k /\ k < slot) \/ (p = k - 1 /\ k > slot))
    BY <1>7, <2>1
  <2>3. PICK q \in 1..m : r[l] = list[q] /\ ((q = l /\ l < slot) \/ (q = l - 1 /\ l > slot))
    BY <1>7, <2>1
  <2>4. p < q
    BY <1>1, <1>2, <1>10, <2>2, <2>3
  <2>5. QED BY <2>2, <2>3, <2>4
<1>11. Joins(r, list, c)
  BY <1>7, <1>9, <1>10 DEF Joins, m
<1>12. slot \in 1..Len(r) /\ r[slot] = e
  BY <1>2, <1>4, <1>7 DEF Inserted
<1>13. QED BY <1>2, <1>5, <1>6, <1>11, <1>12 DEF e

-----------------------------------------------------------------------------
(* The steps                                                               *)

LEMMA WaitTyped ==
    ASSUME Ordered(waitList'), waitOnline' \subseteq Clients,
           told' \in [Clients -> {0, 5, 10, 20, 60, 120}], since' \in [Clients -> 0..W!Horizon]
    PROVE  W!TypeOK'
<1>1. waitList' \in Seq(Entries) /\ DOMAIN waitList' = 1..Len(waitList')
  BY DEF Ordered
<1>2. QED BY <1>1 DEF W!TypeOK, Ordered, Entries

LEMMA WaitStarts ==
    ASSUME W!WaitAssumption, W!Init
    PROVE  WaitInv
<1> USE DEF W!Init
<1>1. Len(waitList) = 0 /\ waitList \in Seq(Entries) /\ 1..0 = {}
  OBVIOUS
<1>2. Ordered(waitList)
  BY <1>1 DEF Ordered
<1>3. W!TypeOK
  <2>1. waitOnline \subseteq Clients /\ told \in [Clients -> {0, 5, 10, 20, 60, 120}] /\ since \in [Clients -> 0..W!Horizon]
    BY DEF W!Horizon
  <2>2. DOMAIN waitList = 1..Len(waitList)
    BY <1>1
  <2>3. QED BY <1>1, <1>2, <2>1, <2>2 DEF W!TypeOK, Ordered, Entries
<1>4. IsFiniteSet(waitOnline)
  BY FS_EmptySet
<1>5. PlacesLast /\ InsideTold
  BY DEF PlacesLast, InsideTold
<1>6. QED BY <1>2, <1>3, <1>4, <1>5 DEF WaitInv

LEMMA TickLists ==
    ASSUME W!WaitAssumption, WaitInv, W!Tick
    PROVE  /\ waitList' \in Seq(Entries) /\ Len(waitList') = Len(waitList)
           /\ \A i \in 1..Len(waitList) :
                /\ waitList'[i].who = waitList[i].who
                /\ waitList'[i].left = IF waitList[i].left > Step THEN waitList[i].left - Step ELSE 0
<1> DEFINE Aged(e) == [e EXCEPT !.left = IF @ > Step THEN @ - Step ELSE 0]
<1>1. waitList' = [i \in DOMAIN waitList |-> Aged(waitList[i])]
  BY DEF W!Tick
<1>2. ASSUME NEW e \in Entries
      PROVE  /\ Aged(e) \in Entries /\ Aged(e).who = e.who
             /\ Aged(e).left = IF e.left > Step THEN e.left - Step ELSE 0
  <2>1. e.left \in 0..135 /\ e.who \in Clients /\ Step \in Nat /\ e = [who |-> e.who, left |-> e.left]
    BY <1>2 DEF Entries, W!Horizon, W!WaitAssumption
  <2>2. Aged(e) = [who |-> e.who, left |-> IF e.left > Step THEN e.left - Step ELSE 0]
    BY <2>1
  <2>3. (IF e.left > Step THEN e.left - Step ELSE 0) \in 0..135
    BY <2>1
  <2> HIDE DEF Aged
  <2>4. QED BY <2>1, <2>2, <2>3 DEF Entries, W!Horizon
<1> HIDE DEF Aged
<1>3. waitList \in Seq(Entries)
  BY ListsAre
<1>4. waitList' \in Seq(Entries) /\ Len(waitList') = Len(waitList) /\ \A i \in 1..Len(waitList) : waitList'[i] = Aged(waitList[i])
  BY <1>1, <1>2, <1>3
<1>5. QED BY <1>2, <1>3, <1>4

LEMMA TickKeeps ==
    ASSUME W!WaitAssumption, WaitInv, W!Tick
    PROVE  WaitInv'
<1>1. /\ waitList' \in Seq(Entries) /\ Len(waitList') = Len(waitList)
      /\ \A i \in 1..Len(waitList) :
                /\ waitList'[i].who = waitList[i].who
                /\ waitList'[i].left = IF waitList[i].left > Step THEN waitList[i].left - Step ELSE 0
  BY TickLists
<1>2. /\ Ordered(waitList) /\ waitList \in Seq(Entries)
      /\ told \in [Clients -> {0, 5, 10, 20, 60, 120}] /\ since \in [Clients -> 0..W!Horizon]
      /\ waitOnline \subseteq Clients /\ told' = told /\ waitOnline' = waitOnline /\ Step \in Nat
  BY ListsAre DEF W!Tick, W!WaitAssumption
<1>3. Ordered(waitList')
  BY <1>1, <1>2 DEF Ordered
<1>4. since' = [c \in Clients |-> IF c \in waitOnline \/ told[c] = 0 THEN since[c]
                                  ELSE IF since[c] + Step < W!Horizon THEN since[c] + Step ELSE W!Horizon]
  BY DEF W!Tick
<1>5. since' \in [Clients -> 0..W!Horizon]
  <2>1. ASSUME NEW c \in Clients
        PROVE (IF c \in waitOnline \/ told[c] = 0 THEN since[c]
               ELSE IF since[c] + Step < W!Horizon THEN since[c] + Step ELSE W!Horizon) \in 0..W!Horizon
    <3>1. since[c] \in 0..135 /\ Step \in Nat
      BY <1>2 DEF W!Horizon
    <3>2. QED BY <3>1 DEF W!Horizon
  <2>2. QED BY <1>4, <2>1
<1>6. W!TypeOK'
  BY <1>2, <1>3, <1>5, WaitTyped
<1>7. ASSUME NEW c \in Clients \ waitOnline', told'[c] > 0, since'[c] < told'[c] + 15 PROVE HasTurn(waitList, c)'
  <2>1. c \in Clients /\ c \notin waitOnline /\ told[c] \in {0, 5, 10, 20, 60, 120} /\ since[c] \in 0..135 /\ Step \in Nat
        /\ told'[c] = told[c] /\ told[c] > 0
    BY <1>2, <1>7 DEF W!Horizon
  <2>2. since'[c] = since[c] + Step
    <3>1. since'[c] = IF since[c] + Step < 135 THEN since[c] + Step ELSE 135
      BY <1>4, <2>1 DEF W!Horizon
    <3>2. QED BY <1>7, <2>1, <3>1
  <2>3. since[c] < told[c] + 15
    BY <1>7, <2>1, <2>2
  <2>4. PICK i \in 1..Len(waitList) : waitList[i].who = c /\ waitList[i].left >= told[c] + 15 - since[c]
    BY <2>1, <2>3 DEF WaitInv, PlacesLast, HasTurn
  <2>5. waitList[i].left \in Int
    BY <1>2, TimesAre
  <2>6. waitList'[i].left >= told'[c] + 15 - since'[c]
    <3>1. waitList'[i].left = IF waitList[i].left > Step THEN waitList[i].left - Step ELSE 0
      BY <1>1
    <3>2. told[c] \in Int /\ since[c] \in Int /\ Step \in Int
      BY <1>2, <2>1, TimesAre
    <3>3. told[c] + 15 - since[c] > Step
      BY <1>7, <2>1, <2>2, <3>2
    <3>4. waitList[i].left > Step
      BY <2>4, <2>5, <3>2, <3>3
    <3>5. waitList'[i].left = waitList[i].left - Step
      BY <3>1, <3>4
    <3>6. QED BY <2>1, <2>2, <2>4, <2>5, <3>2, <3>5
  <2>7. i \in 1..Len(waitList') /\ waitList'[i].who = c
    BY <1>1, <2>4
  <2>8. QED BY <2>6, <2>7 DEF HasTurn
<1>8. PlacesLast'
  BY <1>7 DEF PlacesLast
<1>9. IsFiniteSet(waitOnline') /\ InsideTold'
  BY <1>2 DEF WaitInv, InsideTold
<1>10. QED BY <1>3, <1>6, <1>8, <1>9 DEF WaitInv

LEMMA LogoutKeeps ==
    ASSUME W!WaitAssumption, WaitInv, NEW c \in Clients, W!Logout(c)
    PROVE  WaitInv'
<1>1. /\ Ordered(waitList) /\ waitList \in Seq(Entries)
      /\ told \in [Clients -> {0, 5, 10, 20, 60, 120}] /\ since \in [Clients -> 0..W!Horizon]
      /\ waitOnline \subseteq Clients /\ told' = told /\ since' = since /\ waitList' = waitList
      /\ c \in waitOnline /\ waitOnline' = waitOnline \ {c}
  BY ListsAre DEF W!Logout
<1>2. Ordered(waitList') /\ waitOnline' \subseteq Clients
  BY <1>1
<1>3. W!TypeOK'
  BY <1>1, <1>2, WaitTyped
<1>4. IsFiniteSet(waitOnline')
  BY <1>1, FS_RemoveElement DEF WaitInv
<1>5. InsideTold'
  BY <1>1 DEF WaitInv, InsideTold
<1>6. ASSUME NEW d \in Clients \ waitOnline', told'[d] > 0, since'[d] < told'[d] + 15 PROVE HasTurn(waitList, d)'
  <2>1. told[c] = 0
    BY <1>1 DEF WaitInv, InsideTold
  <2>2. d # c
    BY <1>1, <1>6, <2>1
  <2>3. HasTurn(waitList, d)
    BY <1>1, <1>6, <2>2 DEF WaitInv, PlacesLast
  <2>4. QED BY <1>1, <2>3 DEF HasTurn
<1>7. PlacesLast'
  BY <1>6 DEF PlacesLast
<1>8. QED BY <1>2, <1>3, <1>4, <1>5, <1>7 DEF WaitInv

\* After a login the others still have their entries.
OthersHave(c) ==
    \A d \in Clients \ waitOnline : d # c /\ told[d] > 0 /\ since[d] < told[d] + 15 =>
       \E k \in 1..Len(waitList') : waitList'[k].who = d /\ waitList'[k].left >= told[d] + 15 - since[d]

LEMMA KeptForOthers ==
    ASSUME W!WaitAssumption, WaitInv, NEW c, Keeps(waitList', W!Cleanup, c)
    PROVE  OthersHave(c)
<1> SUFFICES ASSUME NEW d \in Clients \ waitOnline, d # c, told[d] > 0, since[d] < told[d] + 15
             PROVE  \E k \in 1..Len(waitList') : waitList'[k].who = d /\ waitList'[k].left >= told[d] + 15 - since[d]
  BY DEF OthersHave
<1>1. PICK i \in 1..Len(W!Cleanup) : W!Cleanup[i].who = d /\ W!Cleanup[i].left >= told[d] + 15 - since[d]
  <2>1. HasTurn(W!Cleanup, d)
    BY ListsAre
  <2>2. QED BY <2>1 DEF HasTurn
<1>2. PICK k \in 1..Len(waitList') : waitList'[k] = W!Cleanup[i]
  BY <1>1 DEF Keeps
<1>3. QED BY <1>1, <1>2

LEMMA SinceLogin ==
    ASSUME W!WaitAssumption, WaitInv, NEW c \in Clients, W!Login(c)
    PROVE  /\ since' \in [Clients -> 0..W!Horizon] /\ since'[c] = 0
           /\ \A d \in Clients : d # c => since'[d] = since[d]
<1>1. since \in [Clients -> 0..W!Horizon] /\ since' = [since EXCEPT ![c] = 0] /\ 0 \in 0..W!Horizon
  BY ListsAre DEF W!Login, W!Horizon
<1>2. QED BY <1>1

LEMMA EnterKeeps ==
    ASSUME W!WaitAssumption, WaitInv, NEW c \in Clients, W!Login(c), W!Enter(c), Ordered(waitList'), OthersHave(c)
    PROVE  WaitInv'
<1>1. /\ told \in [Clients -> {0, 5, 10, 20, 60, 120}] /\ waitOnline \subseteq Clients
      /\ told' = [told EXCEPT ![c] = 0] /\ waitOnline' = waitOnline \cup {c}
  BY ListsAre DEF W!Enter
<1>2. told' \in [Clients -> {0, 5, 10, 20, 60, 120}] /\ told'[c] = 0 /\ \A d \in Clients : d # c => told'[d] = told[d]
  BY <1>1
<1>3. W!TypeOK'
  BY <1>1, <1>2, SinceLogin, WaitTyped
<1>4. IsFiniteSet(waitOnline')
  BY <1>1, FS_AddElement DEF WaitInv
<1>5. InsideTold'
  BY <1>1, <1>2 DEF WaitInv, InsideTold
<1>6. ASSUME NEW d \in Clients \ waitOnline', told'[d] > 0, since'[d] < told'[d] + 15 PROVE HasTurn(waitList, d)'
  <2>1. d # c /\ d \in Clients \ waitOnline /\ told'[d] = told[d] /\ since'[d] = since[d]
    BY <1>1, <1>2, <1>6, SinceLogin
  <2>2. QED BY <1>6, <2>1 DEF OthersHave, HasTurn
<1>7. PlacesLast'
  BY <1>6 DEF PlacesLast
<1>8. QED BY <1>3, <1>4, <1>5, <1>7 DEF WaitInv

LEMMA StayKeeps ==
    ASSUME W!WaitAssumption, WaitInv, NEW c \in Clients, W!Login(c), NEW slot \in Nat, W!StayOut(c, slot),
           Ordered(waitList'), OthersHave(c), \E k \in 1..Len(waitList') : waitList'[k] = W!Entry(c, slot)
    PROVE  WaitInv'
<1>1. /\ told \in [Clients -> {0, 5, 10, 20, 60, 120}] /\ waitOnline \subseteq Clients
      /\ told' = [told EXCEPT ![c] = W!getTime(slot)] /\ waitOnline' = waitOnline /\ c \notin waitOnline
  BY ListsAre DEF W!StayOut, W!Login
<1>2. W!getTime(slot) \in {0, 5, 10, 20, 60, 120} /\ W!Entry(c, slot).who = c /\ W!Entry(c, slot).left = W!getTime(slot) + 15
  <2>1. W!getTime(slot) \in {5, 10, 20, 60, 120}
    BY TimesTold
  <2>2. QED BY <2>1, TimesTold
<1>3. told' \in [Clients -> {0, 5, 10, 20, 60, 120}] /\ told'[c] = W!getTime(slot) /\ \A d \in Clients : d # c => told'[d] = told[d]
  <2> DEFINE times == {0, 5, 10, 20, 60, 120}
  <2>1. told \in [Clients -> times] /\ W!getTime(slot) \in times
    BY <1>1, <1>2
  <2> HIDE DEF times
  <2>2. told' \in [Clients -> times] /\ told'[c] = W!getTime(slot) /\ \A d \in Clients : d # c => told'[d] = told[d]
    BY <1>1, <2>1
  <2>3. QED BY <2>2 DEF times
<1>4. W!TypeOK'
  BY <1>1, <1>3, SinceLogin, WaitTyped
<1>5. IsFiniteSet(waitOnline') /\ InsideTold'
  BY <1>1, <1>3 DEF WaitInv, InsideTold
<1>6. ASSUME NEW d \in Clients \ waitOnline', told'[d] > 0, since'[d] < told'[d] + 15 PROVE HasTurn(waitList, d)'
  <2>1. CASE d = c
    <3>1. PICK k \in 1..Len(waitList') : waitList'[k] = W!Entry(c, slot)
      OBVIOUS
    <3>2. waitList'[k].who = d /\ waitList'[k].left = told'[d] + 15 /\ since'[d] = 0
      BY <1>2, <1>3, <2>1, <3>1, SinceLogin
    <3>3. told'[d] \in Int
      BY <1>3, <1>6, TimesAre
    <3>4. waitList'[k].left >= told'[d] + 15 - since'[d]
      BY <3>2, <3>3
    <3>5. QED BY <3>2, <3>4 DEF HasTurn
  <2>2. CASE d # c
    <3>1. d \in Clients \ waitOnline /\ told'[d] = told[d] /\ since'[d] = since[d]
      BY <1>1, <1>3, <1>6, <2>2, SinceLogin
    <3>2. QED BY <1>6, <2>2, <3>1 DEF OthersHave, HasTurn
  <2>3. QED BY <2>1, <2>2
<1>7. PlacesLast'
  BY <1>6 DEF PlacesLast
<1>8. QED BY <1>4, <1>5, <1>7 DEF WaitInv

\* The ways through login.
Enters(list, c) ==
    /\ W!InList(list, c) /\ W!HasRoom(W!SlotIn(list, c)) /\ waitList' = OnlyAt(list, DOMAIN list \ {W!SlotIn(list, c)})
    /\ W!Enter(c)
Waits(list, c) ==
    /\ W!InList(list, c) /\ ~W!HasRoom(W!SlotIn(list, c))
    /\ waitList' = Renewed(list, c)
    /\ W!StayOut(c, W!SlotIn(list, c))

LEMMA LoginWays ==
    ASSUME NEW c, W!Login(c)
    PROVE  \/ W!Passes(c) /\ W!Enter(c) /\ waitList' = waitList
           \/ ~W!Passes(c) /\ Enters(W!Cleanup, c)
           \/ ~W!Passes(c) /\ Waits(W!Cleanup, c)
           \/ ~W!Passes(c) /\ ~W!InList(W!Cleanup, c) /\ W!Join(W!Cleanup, c)
BY DEF W!Login, W!TryAgain, Enters, Waits, Renewed, W!OnlyAt, OnlyAt

LEMMA LoginKeeps ==
    ASSUME W!WaitAssumption, WaitInv, NEW c \in Clients, W!Login(c)
    PROVE  WaitInv'
<1>1. Ordered(waitList) /\ Ordered(W!Cleanup)
  BY ListsAre
<1>2. CASE W!Enter(c) /\ waitList' = waitList
  <2>1. OthersHave(c)
    BY <1>2 DEF WaitInv, PlacesLast, HasTurn, OthersHave
  <2>2. QED BY <1>1, <1>2, <2>1, EnterKeeps
<1>3. CASE Enters(W!Cleanup, c)
  <2>1. Ordered(waitList') /\ Keeps(waitList', W!Cleanup, c)
    BY <1>1, <1>3, LeavesIs DEF Enters
  <2>2. QED BY <1>3, <2>1, KeptForOthers, EnterKeeps DEF Enters
<1>4. CASE Waits(W!Cleanup, c)
  <2> DEFINE slot == W!SlotIn(W!Cleanup, c)
  <2>0. slot = W!SlotIn(W!Cleanup, c) /\ waitList' = Renewed(W!Cleanup, c) /\ W!InList(W!Cleanup, c)
    BY <1>4 DEF Waits
  <2>2. W!StayOut(c, slot)
    BY <1>4 DEF Waits
  <2> HIDE DEF slot
  <2>1. /\ Ordered(waitList') /\ Keeps(waitList', W!Cleanup, c) /\ slot \in 1..Len(waitList')
        /\ waitList'[slot] = W!Entry(c, slot) /\ slot \in Nat
    BY <1>1, <2>0, StaysIs
  <2>3. QED BY <2>1, <2>2, KeptForOthers, StayKeeps
<1>5. CASE ~W!InList(W!Cleanup, c) /\ W!Join(W!Cleanup, c)
  <2> DEFINE slot == IF c \in Subscribers THEN W!PremiumSlot(W!Cleanup) ELSE Len(W!Cleanup) + 1
  <2>0. W!StayOut(c, slot) /\ waitList' = W!InsertAt(W!Cleanup, slot, W!Entry(c, slot))
    BY <1>5 DEF W!Join
  <2>1. /\ Ordered(waitList') /\ Keeps(waitList', W!Cleanup, c) /\ slot \in 1..Len(waitList')
        /\ waitList'[slot] = W!Entry(c, slot) /\ slot \in Nat
    BY <1>1, <1>5, <2>0, JoinsIs
  <2> HIDE DEF slot
  <2>2. QED BY <2>0, <2>1, KeptForOthers, StayKeeps
<1>6. QED BY <1>2, <1>3, <1>4, <1>5, LoginWays

LEMMA WaitHolds ==
    ASSUME W!WaitAssumption, WaitInv, [W!Next]_(W!vars)
    PROVE  WaitInv'
<1>1. CASE W!Tick
  BY <1>1, TickKeeps
<1>2. ASSUME NEW c \in Clients, W!Login(c) PROVE WaitInv'
  BY <1>2, LoginKeeps
<1>3. ASSUME NEW c \in Clients, W!Logout(c) PROVE WaitInv'
  BY <1>3, LogoutKeeps
<1>4. CASE UNCHANGED W!vars
  BY <1>4 DEF W!vars, WaitInv, W!TypeOK, PlacesLast, InsideTold, HasTurn
<1>5. QED BY <1>1, <1>2, <1>3, <1>4 DEF W!Next

\* Who comes back in time finds its place.
LEMMA PlacesAreKept ==
    ASSUME W!WaitAssumption, WaitInv
    PROVE  W!TypeOK /\ W!KeepsPlace
<1>1. DOMAIN waitList = 1..Len(waitList)
  BY DEF WaitInv, Ordered
<1>2. ASSUME NEW c \in Clients \ waitOnline, told[c] > 0, since[c] < told[c] + 15 PROVE c \in W!Waiting
  BY <1>1, <1>2 DEF WaitInv, PlacesLast, HasTurn, W!Waiting
<1>3. QED BY <1>2 DEF W!KeepsPlace, WaitInv

-----------------------------------------------------------------------------
(* Places are taken in turn                                                *)

\* Those in front of who is found on the list are not more than its slot says.
LEMMA BeforeFew ==
    ASSUME W!WaitAssumption, WaitInv, NEW c, W!InList(W!Cleanup, c), NEW i \in DOMAIN waitList,
           waitList[i].who = c, waitList[i].left > 0
    PROVE  /\ Cardinality({j \in 1..(i - 1) : waitList[j].left > 0}) \in Nat
           /\ Cardinality({j \in 1..(i - 1) : waitList[j].left > 0}) <= W!SlotIn(W!Cleanup, c) - 1
<1> DEFINE fresh == {j \in DOMAIN waitList : waitList[j].left > 0}
           ahead == {j \in 1..(i - 1) : waitList[j].left > 0}
           slot == W!SlotIn(W!Cleanup, c)
<1>1. /\ Ordered(waitList) /\ waitList \in Seq(Entries) /\ Ordered(W!Cleanup) /\ DOMAIN waitList = 1..Len(waitList)
      /\ Len(W!Cleanup) \in Nat
  BY ListsAre DEF Ordered
<1>2. PICK g : Sublist(g, W!Cleanup, waitList, fresh)
  BY ListsAre
<1>3. slot \in 1..Len(W!Cleanup) /\ W!Cleanup[slot].who = c
  BY <1>1, SlotInIs
<1>4. i \in fresh /\ i \in 1..Len(waitList) /\ fresh \subseteq 1..Len(waitList) /\ ahead \subseteq fresh
      /\ \A j \in ahead : j < i
  BY <1>1
<1> HIDE DEF fresh, ahead, slot
<1>5. g \in [1..Len(W!Cleanup) -> fresh] /\ g[slot] = i
  <2>1. g \in [1..Len(W!Cleanup) -> fresh] /\ W!Cleanup[slot] = waitList[g[slot]]
    BY <1>2, <1>3 DEF Sublist
  <2>2. g[slot] \in 1..Len(waitList) /\ waitList[g[slot]].who = waitList[i].who
    BY <1>3, <1>4, <2>1
  <2>3. QED BY <1>1, <1>4, <2>1, <2>2 DEF Ordered
<1> DEFINE h == [k \in 1..slot-1 |-> g[k]]
           T == {g[k] : k \in 1..slot-1}
<1>6. ahead \subseteq T
  <2> SUFFICES ASSUME NEW j \in ahead PROVE j \in T
    OBVIOUS
  <2>1. PICK k \in 1..Len(W!Cleanup) : g[k] = j
    BY <1>2, <1>4 DEF Sublist
  <2>2. ~(slot < k) /\ k # slot
    <3>1. j < i /\ j \in Nat /\ i \in Nat
      BY <1>4
    <3>2. k # slot
      BY <1>5, <2>1, <3>1
    <3>3. ~(slot < k)
      <4>1. slot < k => g[slot] < g[k]
        BY <1>2, <1>3, <2>1 DEF Sublist
      <4>2. QED BY <1>5, <2>1, <3>1, <4>1
    <3>4. QED BY <3>2, <3>3
  <2>3. k \in 1..slot-1
    BY <1>1, <1>3, <2>1, <2>2
  <2>4. QED BY <2>1, <2>3
<1>7. IsFiniteSet(1..slot-1) /\ Cardinality(1..slot-1) = slot - 1
  <2>1. slot - 1 \in Int /\ 1 \in Int /\ slot - 1 >= 0
    BY <1>1, <1>3
  <2>2. (IF 1 > slot - 1 THEN 0 ELSE (slot - 1) - 1 + 1) = slot - 1
    BY <2>1
  <2>3. QED BY <2>1, <2>2, FS_Interval
<1>8. h \in Surjection(1..slot-1, T)
  BY DEF Surjection
<1> HIDE DEF h, T
<1>9. IsFiniteSet(T) /\ Cardinality(T) <= slot - 1
  BY <1>7, <1>8, FS_Surjection
<1>10. IsFiniteSet(ahead) /\ Cardinality(ahead) <= Cardinality(T)
  BY <1>6, <1>9, FS_Subset
<1>11. Cardinality(ahead) \in Nat /\ Cardinality(T) \in Nat /\ slot \in Nat
  BY <1>1, <1>3, <1>9, <1>10, FS_CardinalityType
<1>12. Cardinality(ahead) <= slot - 1
  BY <1>9, <1>10, <1>11
<1>13. QED BY <1>11, <1>12 DEF ahead, slot

LEMMA EntersRightly ==
    ASSUME W!WaitAssumption, WaitInv, NEW d \in Clients, W!Login(d)
    PROVE  W!EntersIntoAPlace
<1> SUFFICES ASSUME NEW c \in Clients \ Always, c \in waitOnline' \ waitOnline, ~(SkipWait /\ c \in Subscribers)
             PROVE  /\ Cardinality(waitOnline') <= Places
                    /\ \A i \in DOMAIN waitList :
                         waitList[i].who = c /\ waitList[i].left > 0 =>
                            Cardinality(waitOnline') + Cardinality({j \in 1..(i - 1) : waitList[j].left > 0}) <= Places
  BY DEF W!EntersIntoAPlace, W!Cardinality, Cardinality
<1>1. d \notin waitOnline /\ IsFiniteSet(waitOnline) /\ Cardinality(waitOnline) \in Nat /\ Places \in Nat
  BY FS_CardinalityType DEF W!Login, WaitInv, W!WaitAssumption
<1>2. W!Enter(d) => c = d /\ Cardinality(waitOnline') = Cardinality(waitOnline) + 1
  <2>1. IsFiniteSet(waitOnline) => Cardinality(waitOnline \cup {d}) = IF d \in waitOnline THEN Cardinality(waitOnline) ELSE Cardinality(waitOnline) + 1
    BY FS_AddElement
  <2>2. QED BY <1>1, <2>1 DEF W!Enter
<1>3. CASE W!Passes(d) /\ W!Enter(d)
  <2>1. waitList = <<>> /\ Cardinality(waitOnline) < Places
    BY <1>2, <1>3 DEF W!Passes, W!Cardinality, Cardinality
  <2>2. DOMAIN waitList = {}
    BY <2>1
  <2>3. Cardinality(waitOnline') <= Places
    BY <1>1, <1>2, <1>3, <2>1
  <2>4. QED BY <2>2, <2>3
<1>4. CASE Enters(W!Cleanup, d)
  <2> DEFINE slot == W!SlotIn(W!Cleanup, d)
  <2>1. Cardinality(waitOnline) + slot <= Places /\ W!InList(W!Cleanup, d) /\ W!Enter(d)
    BY <1>4 DEF Enters, W!HasRoom, W!Cardinality, Cardinality
  <2>2. slot \in 1..Len(W!Cleanup) /\ Len(W!Cleanup) \in Nat
    BY <2>1, ListsAre, SlotInIs DEF Ordered
  <2>3. Cardinality(waitOnline') <= Places
    <3> HIDE DEF slot
    <3>1. slot \in Nat /\ slot >= 1
      BY <2>2
    <3>2. QED BY <1>1, <1>2, <2>1, <3>1
  <2>4. ASSUME NEW i \in DOMAIN waitList, waitList[i].who = c, waitList[i].left > 0
        PROVE  Cardinality(waitOnline') + Cardinality({j \in 1..(i - 1) : waitList[j].left > 0}) <= Places
    <3> DEFINE few == Cardinality({j \in 1..(i - 1) : waitList[j].left > 0})
    <3>1. few \in Nat /\ few <= slot - 1
      BY <1>2, <2>1, <2>4, BeforeFew
    <3> HIDE DEF few, slot
    <3>2. slot \in Nat
      BY <2>2
    <3>3. Cardinality(waitOnline') + few <= Places
      BY <1>1, <1>2, <2>1, <3>1, <3>2
    <3>4. QED BY <3>3 DEF few
  <2> HIDE DEF slot
  <2>5. QED BY <2>3, <2>4
<1>5. CASE Waits(W!Cleanup, d) \/ W!Join(W!Cleanup, d)
  BY <1>5 DEF Waits, W!Join, W!StayOut
<1>6. QED BY <1>3, <1>4, <1>5, LoginWays

\* A list of some of another's, in their order, lets nobody overtake.
LEMMA AmongOvertakesNot ==
    ASSUME NEW r, NEW list, DOMAIN r = 1..Len(r), DOMAIN list = 1..Len(list), Len(list) \in Nat, Among(r, list),
           NEW a, NEW b, W!Before(list, a, b)
    PROVE  ~W!Before(r, b, a)
<1> SUFFICES ASSUME W!Before(r, b, a) PROVE FALSE
  OBVIOUS
<1>1. PICK i \in 1..Len(list), j \in 1..Len(list) : i < j /\ list[i].who = a /\ list[j].who = b
  BY DEF W!Before
<1>2. PICK k \in 1..Len(r), l \in 1..Len(r) : k < l /\ r[k].who = b /\ r[l].who = a
  BY DEF W!Before
<1>3. j < i
  BY <1>1, <1>2 DEF Among
<1>4. QED BY <1>1, <1>3

\* Whom cleanup leaves on the list.
LEMMA CleanupAmong ==
    ASSUME W!WaitAssumption, WaitInv
    PROVE  /\ Among(W!Cleanup, waitList)
           /\ \A i \in 1..Len(waitList) : waitList[i].left > 0 => \E k \in 1..Len(W!Cleanup) : W!Cleanup[k] = waitList[i]
<1> DEFINE fresh == {i \in DOMAIN waitList : waitList[i].left > 0}
<1>1. Ordered(waitList) /\ fresh \subseteq 1..Len(waitList) /\ \A i \in 1..Len(waitList) : waitList[i].left > 0 => i \in fresh
  BY ListsAre DEF Ordered
<1>2. PICK g : Sublist(g, W!Cleanup, waitList, fresh)
  BY ListsAre
<1> HIDE DEF fresh
<1>3. Among(W!Cleanup, waitList)
  BY <1>1, <1>2, SublistAmong
<1>4. ASSUME NEW i \in 1..Len(waitList), waitList[i].left > 0
      PROVE  \E k \in 1..Len(W!Cleanup) : W!Cleanup[k] = waitList[i]
  <2>1. PICK k \in 1..Len(W!Cleanup) : g[k] = i
    BY <1>1, <1>2, <1>4 DEF Sublist
  <2>2. W!Cleanup[k] = waitList[i]
    BY <1>2, <2>1 DEF Sublist
  <2>3. QED BY <2>2
<1>5. QED BY <1>3, <1>4

LEMMA JoinOvertakesNot ==
    ASSUME W!WaitAssumption, WaitInv, NEW c, ~W!InList(W!Cleanup, c), Joins(waitList', W!Cleanup, c),
           DOMAIN (waitList') = 1..Len(waitList'), NEW a, NEW b, W!Before(waitList, a, b), b \in Subscribers => a \in Subscribers
    PROVE  ~W!Before(waitList', b, a)
<1> SUFFICES ASSUME W!Before(waitList', b, a) PROVE FALSE
  OBVIOUS
<1>0. /\ DOMAIN waitList = 1..Len(waitList) /\ Len(waitList) \in Nat /\ DOMAIN W!Cleanup = 1..Len(W!Cleanup)
      /\ Ordered(waitList)
  BY ListsAre DEF Ordered
<1>1. PICK i \in 1..Len(waitList), j \in 1..Len(waitList) :
         i < j /\ waitList[i].who = a /\ waitList[j].who = b /\ waitList[i].left > 0
  BY <1>0 DEF W!Before
<1>2. PICK k \in 1..Len(waitList'), l \in 1..Len(waitList') : k < l /\ waitList'[k].who = b /\ waitList'[l].who = a
  BY DEF W!Before
<1>3. a # c
  <2>1. PICK m \in 1..Len(W!Cleanup) : W!Cleanup[m] = waitList[i]
    BY <1>1, CleanupAmong
  <2>2. QED BY <1>0, <1>1, <2>1 DEF W!InList
<1>4. b # c
  BY <1>2 DEF Joins
<1>5. PICK p \in 1..Len(W!Cleanup), q \in 1..Len(W!Cleanup) : p < q /\ W!Cleanup[p].who = b /\ W!Cleanup[q].who = a
  BY <1>2, <1>3, <1>4 DEF Joins
<1>6. j < i
  BY <1>1, <1>5, CleanupAmong DEF Among
<1>7. QED BY <1>0, <1>1, <1>6

LEMMA NextOvertakesNot ==
    ASSUME W!WaitAssumption, WaitInv, [W!Next]_(W!vars)
    PROVE  W!NoOvertaking
<1> SUFFICES ASSUME NEW a \in Clients, NEW b \in Clients, W!Before(waitList, a, b), b \in Subscribers => a \in Subscribers
             PROVE  ~W!Before(waitList', b, a)
  BY DEF W!NoOvertaking
<1>1. /\ DOMAIN waitList = 1..Len(waitList) /\ Len(waitList) \in Nat /\ Ordered(waitList) /\ Ordered(W!Cleanup)
      /\ waitList \in Seq(Entries)
  BY ListsAre DEF Ordered
<1>2. WaitInv'
  BY WaitHolds
<1>3. DOMAIN (waitList') = 1..Len(waitList')
  BY <1>2 DEF WaitInv, Ordered
<1>4. Among(waitList', waitList) => ~W!Before(waitList', b, a)
  BY <1>1, <1>3, AmongOvertakesNot
<1>5. waitList' = waitList => Among(waitList', waitList)
  BY <1>1, AmongItself
<1>6. CASE W!Tick
  <2>1. Len(waitList') = Len(waitList) /\ \A i \in 1..Len(waitList) : waitList'[i].who = waitList[i].who
    BY <1>6, TickLists
  <2>2. Among(waitList', waitList)
    BY <1>1, <2>1 DEF Among, Ordered
  <2>3. QED BY <1>4, <2>2
<1>7. ASSUME NEW c \in Clients, W!Login(c) PROVE ~W!Before(waitList', b, a)
  <2>1. CASE Enters(W!Cleanup, c)
    <3>1. Among(waitList', W!Cleanup)
      BY <1>1, <2>1, LeavesIs DEF Enters
    <3>2. QED BY <1>4, <3>1, CleanupAmong, AmongTwice
  <2>2. CASE Waits(W!Cleanup, c)
    <3>1. Among(waitList', W!Cleanup)
      BY <1>1, <2>2, StaysIs DEF Waits
    <3>2. QED BY <1>4, <3>1, CleanupAmong, AmongTwice
  <2>3. CASE ~W!InList(W!Cleanup, c) /\ W!Join(W!Cleanup, c)
    <3> DEFINE slot == IF c \in Subscribers THEN W!PremiumSlot(W!Cleanup) ELSE Len(W!Cleanup) + 1
    <3>1. waitList' = W!InsertAt(W!Cleanup, slot, W!Entry(c, slot))
      BY <2>3 DEF W!Join
    <3>2. Joins(waitList', W!Cleanup, c)
      BY <1>1, <2>3, <3>1, JoinsIs
    <3>3. QED BY <1>3, <2>3, <3>2, JoinOvertakesNot
  <2>4. CASE waitList' = waitList
    BY <1>4, <1>5, <2>4
  <2>5. QED BY <1>7, <2>1, <2>2, <2>3, <2>4, LoginWays
<1>8. CASE \/ UNCHANGED W!vars
           \/ \E c \in Clients : W!Logout(c)
  BY <1>4, <1>5, <1>8 DEF W!vars, W!Logout
<1>9. QED BY <1>6, <1>7, <1>8 DEF W!Next

LEMMA NextEntersRightly ==
    ASSUME W!WaitAssumption, WaitInv, [W!Next]_(W!vars)
    PROVE  W!EntersIntoAPlace
<1>1. ASSUME NEW d \in Clients, W!Login(d) PROVE W!EntersIntoAPlace
  BY <1>1, EntersRightly
<1>2. CASE waitOnline' \subseteq waitOnline
  BY <1>2 DEF W!EntersIntoAPlace
<1>3. CASE W!Tick \/ UNCHANGED W!vars
  BY <1>2, <1>3 DEF W!Tick, W!vars
<1>4. ASSUME NEW d \in Clients, W!Logout(d) PROVE W!EntersIntoAPlace
  BY <1>2, <1>4 DEF W!Logout
<1>5. QED BY <1>1, <1>3, <1>4 DEF W!Next

-----------------------------------------------------------------------------
(* The composition: a step is one of a component, or leaves it alone       *)

LEMMA PlayersHaveChat == PlayersSpec => Spec
<1>1. PlayersInit => Init
  BY DEF PlayersInit
<1>2. [PlayersNext]_playersVars => [Next]_vars
  BY DEF PlayersNext, playersVars, vars, channelVars, reportVars
<1>3. QED BY <1>1, <1>2, PTL DEF PlayersSpec, Spec

LEMMA PlayersHaveWaitList == PlayersSpec => W!Spec
<1>1. PlayersInit => W!Init
  BY DEF PlayersInit
<1>2. [PlayersNext]_playersVars => [W!Next]_(W!vars)
  BY DEF PlayersNext, playersVars, wVars, W!vars
<1>3. QED BY <1>1, <1>2, PTL DEF PlayersSpec, W!Spec

LEMMA PlayersHaveGuilds == PlayersSpec => G!Spec
<1>1. PlayersInit => G!Init
  BY DEF PlayersInit
<1>2. [PlayersNext]_playersVars => [G!Next]_(G!vars)
  BY DEF PlayersNext, playersVars, gVars, G!vars, G!memory, G!database
<1>3. QED BY <1>1, <1>2, PTL DEF PlayersSpec, G!Spec

LEMMA PlayersHaveParties == PlayersSpec => P!Spec
<1>1. PlayersInit => P!Init
  BY DEF PlayersInit
<1>2. [PlayersNext]_playersVars => [P!Next]_(P!vars)
  BY DEF PlayersNext, playersVars, pVars, P!vars
<1>3. QED BY <1>1, <1>2, PTL DEF PlayersSpec, P!Spec

\* A private channel has one owner in the game, its users are pointers to players in
\* the game, and each is its owner or invited; the two players of a report are in the
\* game.
THEOREM TalkersAreLive == PlayersSpec => []TalkersLive
<1>1. ChatInv => TalkersLive
  BY DEF ChatInv, TalkersLive
<1>2. ChatAssumption
  BY PlayersAssumption DEF PlayersAssumption
<1>3. QED BY <1>1, <1>2, PlayersHaveChat, ChatInvariant, PTL

\* For any clients, privileges and number of places, and any steps of time: whoever is
\* told to wait and comes back within 15 seconds of its time is still on the list,
\* whatever cleanup, logins, refusals and logouts there were in between.
THEOREM PlacesAreAlwaysKept == PlayersSpec => []KeepsPlace
<1>1. W!WaitAssumption
  BY PlayersAssumption DEF PlayersAssumption
<1>2. W!Init => WaitInv
  BY <1>1, WaitStarts
<1>3. WaitInv /\ [W!Next]_(W!vars) => WaitInv'
  BY <1>1, WaitHolds
<1>4. WaitInv => KeepsPlace
  BY <1>1, PlacesAreKept DEF KeepsPlace
<1>5. QED BY <1>2, <1>3, <1>4, PlayersHaveWaitList, PTL DEF W!Spec

\* Whoever needs the list enters only into a place that leaves one for each who waits
\* before him, and nobody is overtaken on the list by one of his own kind, nor a premium
\* account by one that is not, in any step.
THEOREM PlacesAreTakenInTurn == PlayersSpec => PlacesInTurn
<1>1. W!WaitAssumption
  BY PlayersAssumption DEF PlayersAssumption
<1>2. W!Init => WaitInv
  BY <1>1, WaitStarts
<1>3. WaitInv /\ [W!Next]_(W!vars) => WaitInv'
  BY <1>1, WaitHolds
<1>4. WaitInv /\ [W!Next]_(W!vars) => W!EntersIntoAPlace /\ W!NoOvertaking
  BY <1>1, NextEntersRightly, NextOvertakesNot
<1>5. QED
  BY <1>2, <1>3, <1>4, PlayersHaveWaitList, PTL DEF W!Spec, PlacesInTurn, W!PlacesInTurn

\* No disbanding, save or crash leaves a rank of a guild that is not there.
THEOREM RanksAlwaysStand == PlayersSpec => []RanksStand
<1>1. GuildInv => RanksStand
  BY DEF GuildInv, RanksStand
<1>2. G!GuildAssumption
  BY PlayersAssumption DEF PlayersAssumption
<1>3. QED BY <1>1, <1>2, PlayersHaveGuilds, GuildInvariant, PTL

\* Players and parties know the same of each other and a channel's users are in the game,
\* through every refusal, change of leaders, logout and death, as long as nobody asks
\* for an invitation of himself, which would have him lead a party that invites him.
THEOREM PartiesAlwaysAgree == ~SelfInvites /\ PlayersSpec => []PartiesAgree
<1>1. PartyInv => PartiesAgree
  BY PartyImplied DEF PartiesAgree
<1>2. P!PartyAssumption
  BY PlayersAssumption DEF PlayersAssumption
<1>3. CASE ~SelfInvites
  BY <1>1, <1>2, <1>3, PlayersHaveParties, PartyInvariant, PTL
<1>4. CASE SelfInvites
  BY <1>4, PTL
<1>5. QED BY <1>3, <1>4

-----------------------------------------------------------------------------
(* Sessions, for any set of protocols: the inductive invariant             *)
(*                                                                         *)
(* The queue of the dispatcher is what the argument turns on: each task is *)
(* in it once, a protocol's close is its last, and the close of the client *)
(* that is replaced comes before the connect of the one that replaces it.  *)

\* A task in a queue, the order of two, and a queue that holds each once.
Has(q, t) == \E i \in 1..Len(q) : q[i] = t
NotAfter(q, t, u) == \A i, j \in 1..Len(q) : q[i] = t /\ q[j] = u => i < j
Distinct(q) == \A i, j \in 1..Len(q) : q[i] = q[j] => i = j

\* A protocol that has not logged in.
Fresh(q, pl, ec, ac, ev, p) ==
    /\ pl[p] = 0 /\ ec[p] = 0 /\ p \notin ac /\ p \notin ev
    /\ ~Has(q, S!Task("connect", p)) /\ ~Has(q, S!Task("logout", p))

\* The tasks of a protocol: its close is the last, and its connect waits for a player.
Queued(q, cn, pl, ec, ac, ev, p) ==
    /\ Has(q, S!Task("login", p)) => cn[p] \in {"login", "request"} /\ Fresh(q, pl, ec, ac, ev, p)
    /\ cn[p] = "accepted" => Fresh(q, pl, ec, ac, ev, p)
    /\ Has(q, S!Task("close", p)) <=> cn[p] = "request"
    /\ Has(q, S!Task("logout", p)) => cn[p] \in {"login", "request"} /\ p \in ac /\ pl[p] # 0
    /\ NotAfter(q, S!Task("login", p), S!Task("close", p))
    /\ NotAfter(q, S!Task("logout", p), S!Task("close", p))
    /\ Has(q, S!Task("connect", p)) => ec[p] # 0 /\ p \notin ev
    /\ p \in ev => ec[p] # 0
QueueSound(q, cn, pl, ec, ac, ev) ==
    Distinct(q) /\ \A p \in Protocols : Queued(q, cn, pl, ec, ac, ev, p)

\* A protocol that is to connect is referred to once and has no player yet; one whose
\* connection is open is the client of its player.
ProtocolSound(p) ==
    /\ protoRef[p] = IF eventConnect[p] # 0 THEN 1 ELSE 0
    /\ eventConnect[p] # 0 => conn[p] # "deleted" /\ player[p] = 0
    /\ conn[p] = "deleted" => player[p] = 0
    /\ player[p] # 0 /\ conn[p] \in S!Open => client[player[p]] = p
    /\ player[p] # 0 /\ p \in accepts => stage[player[p]] \in {"inGame", "removed"}

Counted(o) ==
    /\ stage[o] # "deleted" =>
          thingRef[o] = S!One(stage[o] = "inGame") + S!One(o \in checks)
                        + Cardinality(S!Holders(o)) + releaseThings[o]
    /\ stage[o] = "deleted" => o \notin checks /\ S!Holders(o) = {} /\ releaseThings[o] = 0
    /\ stage[o] = "none" => thingRef[o] = 0 /\ o \notin isConnecting
    /\ client[o] # NoPlayer => player[client[o]] = o

\* p is on its way to o, whose last client will be gone by then.
Comes(p, o) ==
    /\ eventConnect[p] = o
    /\ client[o] # NoPlayer =>
         \/ /\ conn[client[o]] = "request"
            /\ NotAfter(queue, S!Task("close", client[o]), S!Task("connect", p))
         \/ conn[client[o]] = "releasing" /\ client[o] \in before[p] /\ p \in events

\* Protocols that have logged in or never will; each made one object at most, and objects
\* are taken in order.
LoggedIn == {p \in Protocols : conn[p] # "accepted" /\ ~Has(queue, S!Task("login", p))}
RoomLeft == \E k \in 0..Cardinality(LoggedIn) : \A o \in S!Objects : stage[o] # "none" <=> o <= k

TasksSound == QueueSound(queue, conn, player, eventConnect, accepts, events)
ProtocolsSound == \A p \in Protocols : ProtocolSound(p)
ObjectsCounted == \A o \in S!Objects : Counted(o)
OneInGame == \A a, b \in S!InGame : a = b
SomebodyComes == \A o \in S!InGame \cap isConnecting : \E p \in Protocols : Comes(p, o)

SessionInv == /\ S!TypeOK /\ TasksSound /\ ProtocolsSound /\ ObjectsCounted /\ OneInGame
        /\ SomebodyComes /\ RoomLeft

-----------------------------------------------------------------------------
(* Queues of tasks                                                         *)

LEMMA TaskIs ==
    /\ \A a, b, p, q : S!Task(a, p) = S!Task(b, q) <=> a = b /\ p = q
    /\ \A p \in Protocols : \A a \in {"login", "logout", "connect", "close"} : S!Task(a, p) \in S!Tasks
<1>1. ASSUME NEW a, NEW b, NEW p, NEW q PROVE S!Task(a, p) = S!Task(b, q) <=> a = b /\ p = q
  <2>1. S!Task(a, p).op = a /\ S!Task(a, p).who = p /\ S!Task(b, q).op = b /\ S!Task(b, q).who = q
    BY DEF S!Task
  <2>2. QED BY <2>1
<1>2. QED BY <1>1 DEF S!Task, S!Tasks

LEMMA Appended ==
    ASSUME NEW q \in Seq(S!Tasks), NEW t \in S!Tasks
    PROVE  /\ Append(q, t) \in Seq(S!Tasks)
           /\ \A u : Has(Append(q, t), u) <=> Has(q, u) \/ u = t
           /\ Distinct(q) /\ ~Has(q, t) => Distinct(Append(q, t))
           /\ \A u, v : u # t /\ NotAfter(q, u, v) => NotAfter(Append(q, t), u, v)
           /\ \A v : v # t /\ ~Has(q, v) => NotAfter(Append(q, t), t, v)
<1> DEFINE r == Append(q, t)
<1>1. r \in Seq(S!Tasks) /\ Len(r) = Len(q) + 1 /\ r[Len(r)] = t /\ Len(q) \in Nat
  OBVIOUS
<1>2. \A i \in 1..Len(q) : r[i] = q[i]
  OBVIOUS
<1>3. 1..Len(r) = (1..Len(q)) \cup {Len(r)} /\ Len(r) \notin 1..Len(q)
  BY <1>1
<1>4. \A i \in 1..Len(q) : i < Len(r)
  BY <1>1
<1> HIDE DEF r
<1>5. ASSUME NEW u PROVE Has(r, u) <=> Has(q, u) \/ u = t
  BY <1>1, <1>2, <1>3 DEF Has
<1>6. ASSUME Distinct(q), ~Has(q, t) PROVE Distinct(r)
  BY <1>1, <1>2, <1>3, <1>6 DEF Has, Distinct
<1>7. ASSUME NEW u, NEW v, u # t, NotAfter(q, u, v) PROVE NotAfter(r, u, v)
  BY <1>1, <1>2, <1>3, <1>4, <1>7 DEF NotAfter
<1>8. ASSUME NEW v, v # t, ~Has(q, v) PROVE NotAfter(r, t, v)
  BY <1>1, <1>2, <1>3, <1>8 DEF NotAfter, Has
<1>9. QED BY <1>1, <1>5, <1>6, <1>7, <1>8 DEF r

LEMMA TailOf ==
    ASSUME NEW q \in Seq(S!Tasks), q # <<>>, Distinct(q)
    PROVE  /\ Tail(q) \in Seq(S!Tasks) /\ Distinct(Tail(q)) /\ Has(q, Head(q))
           /\ \A u : Has(Tail(q), u) <=> Has(q, u) /\ u # Head(q)
           /\ \A u, v : NotAfter(q, u, v) => NotAfter(Tail(q), u, v)
           /\ \A u : NotAfter(q, u, Head(q)) => ~Has(q, u)
<1> DEFINE r == Tail(q)
<1>1. r \in Seq(S!Tasks) /\ Len(q) \in Nat \ {0} /\ Len(r) = Len(q) - 1 /\ Head(q) = q[1]
  OBVIOUS
<1>2. \A i \in 1..Len(r) : r[i] = q[i + 1]
  OBVIOUS
<1> HIDE DEF r
<1>3. \A i \in 1..Len(q) : i = 1 \/ i - 1 \in 1..Len(r)
  BY <1>1
<1>4. \A i \in 1..Len(r) : i + 1 \in 1..Len(q) /\ i + 1 # 1 /\ i \in Int
  BY <1>1
<1>5. \A i \in 1..Len(q) : i - 1 \in 1..Len(r) => r[i - 1] = q[i]
  BY <1>1, <1>2
<1>6. Distinct(r)
  BY <1>1, <1>2, <1>4 DEF Distinct
<1>7. Has(q, Head(q))
  BY <1>1 DEF Has
<1>8. ASSUME NEW u PROVE Has(r, u) <=> Has(q, u) /\ u # Head(q)
  <2>1. ASSUME Has(r, u) PROVE Has(q, u) /\ u # Head(q)
    <3>1. PICK i \in 1..Len(r) : r[i] = u
      BY <2>1 DEF Has
    <3>2. q[i + 1] = u /\ i + 1 \in 1..Len(q) /\ i + 1 # 1 /\ 1 \in 1..Len(q)
      BY <1>1, <1>2, <1>4, <3>1
    <3>3. QED BY <1>1, <3>2 DEF Has, Distinct
  <2>2. ASSUME Has(q, u), u # Head(q) PROVE Has(r, u)
    BY <1>1, <1>3, <1>5, <2>2 DEF Has
  <2>3. QED BY <2>1, <2>2
<1>9. ASSUME NEW u, NEW v, NotAfter(q, u, v) PROVE NotAfter(r, u, v)
  <2>1. ASSUME NEW i \in 1..Len(r), NEW j \in 1..Len(r), r[i] = u, r[j] = v PROVE i < j
    <3>1. q[i + 1] = u /\ q[j + 1] = v /\ i + 1 \in 1..Len(q) /\ j + 1 \in 1..Len(q)
      BY <1>2, <1>4, <2>1
    <3>2. i + 1 < j + 1
      BY <1>9, <3>1 DEF NotAfter
    <3>3. QED BY <3>2
  <2>2. QED BY <2>1 DEF NotAfter
<1>10. ASSUME NEW u, NotAfter(q, u, Head(q)) PROVE ~Has(q, u)
  BY <1>1, <1>10 DEF NotAfter, Has
<1>11. QED BY <1>1, <1>6, <1>7, <1>8, <1>9, <1>10 DEF r

-----------------------------------------------------------------------------
(* What steps have in common                                               *)

LEMMA ObjectsAre ==
    ASSUME S!SessionAssumption PROVE S!Objects \subseteq Nat \ {0} /\ NoPlayer \notin Protocols
BY DEF S!Objects, S!SessionAssumption

\* The operators of FiniteSets that the component Session refers to are those themselves.
LEMMA SameSets ==
    /\ \A T : S!Cardinality(T) = Cardinality(T)
    /\ \A T : S!IsFiniteSet(T) <=> IsFiniteSet(T)
BY DEF S!Cardinality, Cardinality, S!IsFiniteSet, IsFiniteSet

LEMMA ProtocolsFinite ==
    ASSUME S!SessionAssumption
    PROVE  IsFiniteSet(Protocols) /\ S!Objects = 1..Cardinality(Protocols)
BY SameSets DEF S!SessionAssumption, S!Objects

\* Counting holders.
LEMMA HoldersCount ==
    ASSUME S!SessionAssumption
    PROVE  \A o : /\ Cardinality(S!Holders(o)) \in Nat
                  /\ Cardinality(S!Holders(o)) = 0 <=> S!Holders(o) = {}
<1>1. ASSUME NEW o PROVE IsFiniteSet(S!Holders(o))
  BY FS_Subset, ProtocolsFinite DEF S!Holders
<1>2. QED BY <1>1, FS_CardinalityType, FS_EmptySet

LEMMA OneMore ==
    ASSUME S!SessionAssumption, S!TypeOK, NEW p \in Protocols, NEW o \in S!Objects, player[p] = 0,
           player' = [player EXCEPT ![p] = o]
    PROVE  /\ Cardinality(S!Holders(o)') = Cardinality(S!Holders(o)) + 1
           /\ \A a \in S!Objects \ {o} : S!Holders(a)' = S!Holders(a)
<1>1. IsFiniteSet(S!Holders(o)) /\ p \notin S!Holders(o)
  BY FS_Subset, ObjectsAre, ProtocolsFinite DEF S!Holders
<1>2. S!Holders(o)' = S!Holders(o) \cup {p}
  BY DEF S!Holders, S!TypeOK
<1>3. \A a \in S!Objects \ {o} : S!Holders(a)' = S!Holders(a)
  BY ObjectsAre DEF S!Holders, S!TypeOK
<1>4. QED BY <1>1, <1>2, <1>3, FS_AddElement

LEMMA OneLess ==
    ASSUME S!SessionAssumption, S!TypeOK, NEW p \in Protocols, player' = [player EXCEPT ![p] = 0]
    PROVE  /\ \A o : o = player[p] /\ o # 0 => Cardinality(S!Holders(o)) = Cardinality(S!Holders(o)') + 1
           /\ \A a \in S!Objects \ {player[p]} : S!Holders(a)' = S!Holders(a)
           /\ player[p] = 0 => player' = player
<1>1. ASSUME NEW o, o = player[p], o # 0 PROVE Cardinality(S!Holders(o)) = Cardinality(S!Holders(o)') + 1
  <2>1. IsFiniteSet(S!Holders(o)') /\ p \notin S!Holders(o)'
    BY <1>1, FS_Subset, ProtocolsFinite DEF S!Holders, S!TypeOK
  <2>2. S!Holders(o) = S!Holders(o)' \cup {p}
    BY <1>1 DEF S!Holders, S!TypeOK
  <2>3. QED BY <2>1, <2>2, FS_AddElement
<1>2. \A a \in S!Objects \ {player[p]} : S!Holders(a)' = S!Holders(a)
  BY ObjectsAre DEF S!Holders, S!TypeOK
<1>3. player[p] = 0 => player' = player
  BY DEF S!TypeOK
<1>4. QED BY <1>1, <1>2, <1>3

\* What the head of the queue leaves.
LEMMA Taken ==
    ASSUME S!TypeOK, TasksSound, NEW op \in {"login", "logout", "connect", "close"},
           NEW p \in Protocols, S!IsNext(op, p)
    PROVE  /\ Tail(queue) \in Seq(S!Tasks) /\ Distinct(Tail(queue)) /\ Has(queue, S!Task(op, p))
           /\ \A u : Has(Tail(queue), u) <=> Has(queue, u) /\ u # S!Task(op, p)
           /\ \A u, v : NotAfter(queue, u, v) => NotAfter(Tail(queue), u, v)
           /\ \A u : NotAfter(queue, u, S!Task(op, p)) => ~Has(queue, u)
<1>1. queue \in Seq(S!Tasks) /\ queue # <<>> /\ Distinct(queue) /\ Head(queue) = S!Task(op, p)
  BY DEF S!TypeOK, TasksSound, QueueSound, S!IsNext
<1>2. QED BY <1>1, TailOf

\* Connections that only open further, or are asked to close.
ConnMoves == \A x \in Protocols :
    \/ conn'[x] = conn[x]
    \/ conn[x] \in S!Open /\ conn'[x] \in {"login", "request"}
OrderKept == \A x, y \in Protocols :
    conn[x] = "request" /\ NotAfter(queue, S!Task("close", x), S!Task("connect", y)) =>
        NotAfter(queue', S!Task("close", x), S!Task("connect", y))
LoginsTaken == \A x \in Protocols : Has(queue', S!Task("login", x)) =>
    Has(queue, S!Task("login", x)) \/ conn[x] = "accepted"

ConnType == [Protocols -> S!Open \cup {"request", "releasing", "deleted"}]

LEMMA Disconnected ==
    ASSUME S!TypeOK, NEW p \in Protocols, NEW q \in Seq(S!Tasks), NEW pl, NEW ec, NEW ac, NEW ev,
           QueueSound(q, conn, pl, ec, ac, ev), S!Disconnect(p, q)
    PROVE  /\ queue' \in Seq(S!Tasks) /\ conn' \in ConnType
           /\ QueueSound(queue', conn', pl, ec, ac, ev)
           /\ conn'[p] \notin S!Open
           /\ \A x \in Protocols : \/ conn'[x] = conn[x]
                                   \/ x = p /\ conn[x] \in S!Open /\ conn'[x] = "request"
           /\ \A x, op : op # "close" => (Has(queue', S!Task(op, x)) <=> Has(q, S!Task(op, x)))
           /\ \A x, u : conn[x] = "request" /\ NotAfter(q, S!Task("close", x), u) =>
                            NotAfter(queue', S!Task("close", x), u)
<1>0. conn \in ConnType
  BY DEF S!TypeOK, ConnType
<1>1. CASE conn[p] \notin S!Open
  <2>1. conn' = conn /\ queue' = q
    BY <1>1 DEF S!Disconnect
  <2>2. QED BY <1>0, <1>1, <2>1, Zenon
<1>2. CASE conn[p] \in S!Open
  <2> DEFINE t == S!Task("close", p)
  <2>1. conn' = [conn EXCEPT ![p] = "request"] /\ queue' = Append(q, t)
    BY <1>2 DEF S!Disconnect
  <2>2. conn' \in ConnType /\ conn'[p] = "request" /\ \A x \in Protocols \ {p} : conn'[x] = conn[x]
    BY <1>0, <2>1 DEF ConnType
  <2>3. t \in S!Tasks /\ \A a, x : S!Task(a, x) = t <=> a = "close" /\ x = p
    BY TaskIs
  <2>4. Distinct(q) /\ \A x \in Protocols : Queued(q, conn, pl, ec, ac, ev, x)
    BY DEF QueueSound
  <2>5. ~Has(q, t)
    BY <1>2, <2>4 DEF Queued, S!Open
  <2> HIDE DEF t
  <2>6. /\ queue' \in Seq(S!Tasks) /\ Distinct(queue')
        /\ \A u : Has(queue', u) <=> Has(q, u) \/ u = t
        /\ \A u, v : u # t /\ NotAfter(q, u, v) => NotAfter(queue', u, v)
    BY <2>1, <2>3, <2>4, <2>5, Appended
  <2>7. ASSUME NEW x \in Protocols PROVE Queued(queue', conn', pl, ec, ac, ev, x)
    <3>1. CASE x # p
      <4>1. Queued(q, conn, pl, ec, ac, ev, x) /\ conn'[x] = conn[x]
        BY <2>2, <2>4, <3>1
      <4>2. \A a : Has(queue', S!Task(a, x)) <=> Has(q, S!Task(a, x))
        BY <2>3, <2>6, <3>1
      <4>3. \A a : NotAfter(q, S!Task(a, x), S!Task("close", x)) => NotAfter(queue', S!Task(a, x), S!Task("close", x))
        BY <2>3, <2>6, <3>1
      <4>4. QED BY <4>1, <4>2, <4>3 DEF Queued, Fresh
    <3>2. CASE x = p
      <4>1. Queued(q, conn, pl, ec, ac, ev, p)
        BY <2>4
      <4>2. Has(queue', S!Task("close", p)) /\ conn'[p] = "request"
        BY <2>2, <2>6 DEF t
      <4>3. \A a : a # "close" => (Has(queue', S!Task(a, p)) <=> Has(q, S!Task(a, p)))
        BY <2>3, <2>6
      <4>4. \A a : a # "close" /\ NotAfter(q, S!Task(a, p), S!Task("close", p)) => NotAfter(queue', S!Task(a, p), S!Task("close", p))
        BY <2>3, <2>6
      <4>5. Queued(queue', conn', pl, ec, ac, ev, p)
        BY <1>2, <4>1, <4>2, <4>3, <4>4 DEF Queued, Fresh, S!Open
      <4>6. QED BY <3>2, <4>5
    <3>3. QED BY <3>1, <3>2
  <2>8. QueueSound(queue', conn', pl, ec, ac, ev)
    BY <2>6, <2>7 DEF QueueSound
  <2>9. \A x, op : op # "close" => (Has(queue', S!Task(op, x)) <=> Has(q, S!Task(op, x)))
    BY <2>3, <2>6
  <2>10. ASSUME NEW x, NEW u, conn[x] = "request", NotAfter(q, S!Task("close", x), u)
         PROVE  NotAfter(queue', S!Task("close", x), u)
    BY <1>2, <2>3, <2>6, <2>10 DEF S!Open
  <2>11. conn'[p] \notin S!Open
    BY <2>2 DEF S!Open
  <2>12. \A x \in Protocols : \/ conn'[x] = conn[x]
                              \/ x = p /\ conn[x] \in S!Open /\ conn'[x] = "request"
    BY <1>2, <2>2
  <2>13. QED BY <2>2, <2>6, <2>8, <2>9, <2>10, <2>11, <2>12
<1>3. QED BY <1>1, <1>2

LEMMA ComesKept ==
    ASSUME S!TypeOK, SomebodyComes, ConnMoves, OrderKept, S!InGame' \subseteq S!InGame,
           isConnecting' = isConnecting, eventConnect' = eventConnect, before' = before,
           events' = events, client' = client
    PROVE  SomebodyComes'
<1>1. ASSUME NEW o \in (S!InGame \cap isConnecting)' PROVE \E p \in Protocols : Comes(p, o)'
  <2>1. PICK p \in Protocols : Comes(p, o)
    BY DEF SomebodyComes
  <2>2. PICK c : c = client[o]
    OBVIOUS
  <2>3. CASE c = NoPlayer
    BY <2>1, <2>2, <2>3 DEF Comes
  <2>4. CASE c # NoPlayer
    <3>1. c \in Protocols
      BY <2>2, <2>4 DEF S!TypeOK, S!InGame
    <3>2. CASE conn[c] = "request" /\ NotAfter(queue, S!Task("close", c), S!Task("connect", p))
      <4>1. conn'[c] = "request" /\ NotAfter(queue', S!Task("close", c), S!Task("connect", p))
        BY <3>1, <3>2 DEF ConnMoves, OrderKept, S!Open
      <4>2. QED BY <2>1, <2>2, <4>1 DEF Comes
    <3>3. CASE conn[c] = "releasing" /\ c \in before[p] /\ p \in events
      <4>1. conn'[c] = "releasing"
        BY <3>1, <3>3 DEF ConnMoves, S!Open
      <4>2. QED BY <2>1, <2>2, <3>3, <4>1 DEF Comes
    <3>4. QED BY <2>1, <2>2, <2>4, <3>2, <3>3 DEF Comes
  <2>5. QED BY <2>3, <2>4
<1>2. QED BY <1>1 DEF SomebodyComes

LEMMA ProtocolsKept ==
    ASSUME S!TypeOK, ProtocolsSound, ConnMoves, player' = player, accepts' = accepts,
           protoRef' = protoRef, eventConnect' = eventConnect, client' = client,
           \A o \in S!Objects : stage[o] \in {"inGame", "removed"} => stage'[o] \in {"inGame", "removed"}
    PROVE  ProtocolsSound'
<1>1. ASSUME NEW p \in Protocols PROVE ProtocolSound(p)'
  <2>1. ProtocolSound(p) /\ player[p] \in S!Objects \cup {0}
    BY DEF ProtocolsSound, S!TypeOK
  <2>2. conn'[p] = conn[p] \/ (conn[p] \in S!Open /\ conn'[p] # "deleted")
    BY DEF ConnMoves, S!Open
  <2>3. QED BY <2>1, <2>2 DEF ProtocolSound
<1>2. QED BY <1>1 DEF ProtocolsSound

LEMMA RoomKept ==
    ASSUME S!SessionAssumption, S!TypeOK, RoomLeft, LoggedIn \subseteq LoggedIn',
           \A o \in S!Objects : stage'[o] = "none" <=> stage[o] = "none"
    PROVE  RoomLeft'
<1>1. IsFiniteSet(LoggedIn') /\ IsFiniteSet(LoggedIn)
  BY FS_Subset, ProtocolsFinite DEF LoggedIn
<1>2. Cardinality(LoggedIn) <= Cardinality(LoggedIn') /\ Cardinality(LoggedIn) \in Nat /\ Cardinality(LoggedIn') \in Nat
  BY <1>1, FS_Subset, FS_CardinalityType
<1>3. PICK k \in 0..Cardinality(LoggedIn) : \A o \in S!Objects : stage[o] # "none" <=> o <= k
  BY DEF RoomLeft
<1>4. k \in 0..Cardinality(LoggedIn')
  BY <1>2
<1>5. \A o \in S!Objects : stage'[o] # "none" <=> o <= k
  BY <1>3
<1>6. QED BY <1>4, <1>5 DEF RoomLeft

\* Nothing about the objects changes, and no other protocol holds one.
LEMMA ObjectsKept ==
    ASSUME ObjectsCounted, OneInGame, player' = player, UNCHANGED S!objects
    PROVE  ObjectsCounted' /\ OneInGame'
BY DEF ObjectsCounted, Counted, S!Holders, OneInGame, S!InGame, S!objects

\* Who leaves the game is held by the cleanup instead.
LEMMA RemovedCounted ==
    ASSUME S!SessionAssumption, S!TypeOK, ObjectsCounted, OneInGame, NEW o \in S!InGame, S!RemoveCreature(o),
           player' = player, thingRef' = thingRef, client' = client, isConnecting' = isConnecting,
           checks' = checks
    PROVE  /\ ObjectsCounted' /\ OneInGame' /\ S!InGame' \subseteq S!InGame
           /\ stage' \in [S!Objects -> {"none", "made", "inGame", "removed", "deleted"}]
           /\ releaseThings' \in [S!Objects -> Nat]
           /\ \A a \in S!Objects : stage'[a] = "none" <=> stage[a] = "none"
           /\ \A a \in S!Objects : stage[a] \in {"inGame", "removed"} => stage'[a] \in {"inGame", "removed"}
<1>1. /\ stage[o] = "inGame" /\ o \in S!Objects
      /\ stage' = [stage EXCEPT ![o] = "removed"] /\ releaseThings' = [releaseThings EXCEPT ![o] = @ + 1]
  BY DEF S!InGame, S!RemoveCreature
<1>2. ASSUME NEW a \in S!Objects PROVE Counted(a)'
  <2>1. Counted(a) /\ S!Holders(a)' = S!Holders(a)
    BY DEF ObjectsCounted, S!Holders
  <2>2. CASE a # o
    <3>1. stage'[a] = stage[a] /\ releaseThings'[a] = releaseThings[a]
      BY <1>1, <2>2 DEF S!TypeOK
    <3>2. QED BY <2>1, <3>1 DEF Counted, S!One
  <2>3. CASE a = o
    <3>1. /\ stage[a] = "inGame" /\ stage'[a] = "removed" /\ releaseThings'[a] = releaseThings[a] + 1
          /\ releaseThings[a] \in Nat /\ Cardinality(S!Holders(a)) \in Nat
      BY <1>1, <2>3, HoldersCount DEF S!TypeOK
    <3>2. S!One(a \in checks) \in Nat
      BY DEF S!One
    <3>3. thingRef[a] = 1 + S!One(a \in checks) + Cardinality(S!Holders(a)) + releaseThings[a]
      BY <2>1, <3>1 DEF Counted, S!One
    <3>4. thingRef'[a] = S!One(stage'[a] = "inGame") + S!One(a \in checks') + Cardinality(S!Holders(a)') + releaseThings'[a]
      BY <2>1, <3>1, <3>2, <3>3 DEF S!One
    <3>5. QED BY <2>1, <3>1, <3>4 DEF Counted
  <2>4. QED BY <2>2, <2>3
<1>3. S!InGame' \subseteq S!InGame
  BY <1>1 DEF S!InGame, S!TypeOK
<1>4. OneInGame'
  BY <1>3 DEF OneInGame
<1>5. /\ stage' \in [S!Objects -> {"none", "made", "inGame", "removed", "deleted"}]
      /\ releaseThings' \in [S!Objects -> Nat]
      /\ \A a \in S!Objects : stage'[a] = "none" <=> stage[a] = "none"
      /\ \A a \in S!Objects : stage[a] \in {"inGame", "removed"} => stage'[a] \in {"inGame", "removed"}
  BY <1>1 DEF S!TypeOK
<1>6. QED BY <1>2, <1>3, <1>4, <1>5 DEF ObjectsCounted

LEMMA LoggedInGrows ==
    ASSUME ConnMoves, LoginsTaken PROVE LoggedIn \subseteq LoggedIn'
BY DEF ConnMoves, LoginsTaken, LoggedIn

\* Steps that leave the objects and who holds them as they are.
LEMMA QuietStep ==
    ASSUME S!SessionAssumption, SessionInv, UNCHANGED S!objects,
           UNCHANGED <<player, accepts, protoRef, eventConnect, before>>, events' \subseteq events,
           queue' \in Seq(S!Tasks), conn' \in ConnType, ConnMoves, LoginsTaken,
           QueueSound(queue', conn', player, eventConnect, accepts, events'), SomebodyComes'
    PROVE  SessionInv'
<1>1. S!TypeOK /\ ProtocolsSound /\ ObjectsCounted /\ OneInGame /\ RoomLeft
  BY DEF SessionInv
<1>2. stage' = stage /\ client' = client /\ thingRef' = thingRef
  BY DEF S!objects
<1>3. S!TypeOK'
  BY <1>1 DEF S!TypeOK, ConnType, S!objects
<1>4. TasksSound'
  BY DEF TasksSound
<1>5. ProtocolsSound'
  BY <1>1, <1>2, ProtocolsKept
<1>6. ObjectsCounted' /\ OneInGame'
  BY <1>1, ObjectsKept
<1>7. RoomLeft'
  BY <1>1, <1>2, LoggedInGrows, RoomKept
<1>8. QED BY Zenon, <1>3, <1>4, <1>5, <1>6, <1>7 DEF SessionInv

\* A task other than a close that is put into the queue.
LEMMA Posted ==
    ASSUME S!TypeOK, TasksSound, NEW op \in {"login", "logout", "connect"}, NEW p \in Protocols,
           ~Has(queue, S!Task(op, p)), queue' = Append(queue, S!Task(op, p)),
           op = "login" => conn[p] = "accepted",
           \A x \in Protocols \ {p} : conn'[x] = conn[x] /\ (x \in events' <=> x \in events)
    PROVE  /\ queue' \in Seq(S!Tasks) /\ LoginsTaken /\ OrderKept
           /\ \A a : Has(queue', S!Task(a, p)) <=> Has(queue, S!Task(a, p)) \/ a = op
           /\ \A a : a # op /\ NotAfter(queue, S!Task(a, p), S!Task("close", p)) =>
                NotAfter(queue', S!Task(a, p), S!Task("close", p))
           /\ ~Has(queue, S!Task("close", p)) => NotAfter(queue', S!Task(op, p), S!Task("close", p))
           /\ Queued(queue', conn', player, eventConnect, accepts, events', p) =>
                QueueSound(queue', conn', player, eventConnect, accepts, events')
<1> DEFINE t == S!Task(op, p)
<1>1. /\ t \in S!Tasks /\ queue \in Seq(S!Tasks) /\ Distinct(queue)
      /\ \A a, x : S!Task(a, x) = t <=> a = op /\ x = p
  BY TaskIs DEF S!TypeOK, TasksSound, QueueSound
<1>2. \A x \in Protocols : Queued(queue, conn, player, eventConnect, accepts, events, x)
  BY DEF TasksSound, QueueSound
<1>3. queue' = Append(queue, t) /\ ~Has(queue, t)
  OBVIOUS
<1> HIDE DEF t
<1>4. /\ queue' \in Seq(S!Tasks) /\ Distinct(queue')
      /\ \A u : Has(queue', u) <=> Has(queue, u) \/ u = t
      /\ \A u, v : u # t /\ NotAfter(queue, u, v) => NotAfter(queue', u, v)
      /\ \A v : v # t /\ ~Has(queue, v) => NotAfter(queue', t, v)
  BY <1>1, <1>3, Appended
<1>5. ASSUME NEW x \in Protocols \ {p}
      PROVE  Queued(queue', conn', player, eventConnect, accepts, events', x)
  <2>1. \A a : Has(queue', S!Task(a, x)) <=> Has(queue, S!Task(a, x))
    BY <1>1, <1>4
  <2>2. \A a : NotAfter(queue, S!Task(a, x), S!Task("close", x)) => NotAfter(queue', S!Task(a, x), S!Task("close", x))
    BY <1>1, <1>4
  <2>3. QED BY <1>2, <2>1, <2>2 DEF Queued, Fresh
<1>6. LoginsTaken /\ OrderKept
  BY <1>1, <1>4 DEF LoginsTaken, OrderKept
<1>7. \A a : Has(queue', S!Task(a, p)) <=> Has(queue, S!Task(a, p)) \/ a = op
  BY <1>1, <1>4
<1>8. \A a : a # op /\ NotAfter(queue, S!Task(a, p), S!Task("close", p)) =>
          NotAfter(queue', S!Task(a, p), S!Task("close", p))
  BY <1>1, <1>4
<1>9. ~Has(queue, S!Task("close", p)) => NotAfter(queue', t, S!Task("close", p))
  BY <1>1, <1>4
<1>10. Queued(queue', conn', player, eventConnect, accepts, events', p) =>
          QueueSound(queue', conn', player, eventConnect, accepts, events')
  BY <1>4, <1>5 DEF QueueSound
<1>11. QED BY <1>4, <1>6, <1>7, <1>8, <1>9, <1>10 DEF t

LEMMA FirstPacketStep ==
    ASSUME S!SessionAssumption, SessionInv, NEW p \in Protocols, S!FirstPacket(p) PROVE SessionInv'
<1>1. /\ S!TypeOK /\ TasksSound /\ SomebodyComes
      /\ Queued(queue, conn, player, eventConnect, accepts, events, p)
  BY DEF SessionInv, TasksSound, QueueSound
<1>2. /\ conn[p] = "accepted" /\ conn' = [conn EXCEPT ![p] = "login"] /\ queue' = Append(queue, S!Task("login", p))
      /\ UNCHANGED S!objects /\ UNCHANGED <<player, accepts, protoRef, eventConnect, events, before>>
  BY DEF S!FirstPacket, S!KeepObjects
<1>3. /\ conn'[p] = "login" /\ conn' \in ConnType /\ conn[p] \in S!Open
      /\ \A x \in Protocols \ {p} : conn'[x] = conn[x]
  BY <1>1, <1>2 DEF S!TypeOK, ConnType, S!Open
<1>4. ~Has(queue, S!Task("login", p)) /\ ~Has(queue, S!Task("close", p))
  BY <1>1, <1>2 DEF Queued
<1>5. /\ queue' \in Seq(S!Tasks) /\ LoginsTaken /\ OrderKept
      /\ \A a : Has(queue', S!Task(a, p)) <=> Has(queue, S!Task(a, p)) \/ a = "login"
      /\ \A a : a # "login" /\ NotAfter(queue, S!Task(a, p), S!Task("close", p)) =>
           NotAfter(queue', S!Task(a, p), S!Task("close", p))
      /\ NotAfter(queue', S!Task("login", p), S!Task("close", p))
      /\ Queued(queue', conn', player, eventConnect, accepts, events', p) =>
           QueueSound(queue', conn', player, eventConnect, accepts, events')
  BY <1>1, <1>2, <1>3, <1>4, Posted
<1>6. Queued(queue', conn', player, eventConnect, accepts, events', p)
  BY <1>1, <1>2, <1>3, <1>5 DEF Queued, Fresh
<1>7. ConnMoves
  BY <1>3 DEF ConnMoves
<1>8. SomebodyComes'
  BY <1>1, <1>2, <1>5, <1>7, ComesKept DEF S!objects, S!InGame
<1>9. QED BY <1>2, <1>3, <1>5, <1>6, <1>7, <1>8, QuietStep

LEMMA LogoutPacketStep ==
    ASSUME S!SessionAssumption, SessionInv, NEW p \in Protocols, S!LogoutPacket(p) PROVE SessionInv'
<1>1. /\ S!TypeOK /\ TasksSound /\ SomebodyComes
      /\ Queued(queue, conn, player, eventConnect, accepts, events, p)
  BY DEF SessionInv, TasksSound, QueueSound
<1>2. /\ conn[p] = "login" /\ player[p] # 0 /\ p \in accepts /\ queue' = Append(queue, S!Task("logout", p))
      /\ UNCHANGED conn /\ UNCHANGED S!objects
      /\ UNCHANGED <<player, accepts, protoRef, eventConnect, events, before>>
  BY DEF S!LogoutPacket, S!protocols
<1>3. conn \in ConnType
  BY <1>1 DEF S!TypeOK, ConnType
<1>4. ~Has(queue, S!Task("logout", p)) /\ ~Has(queue, S!Task("close", p)) /\ ~Has(queue, S!Task("login", p))
  <2>1. queue \in Seq(S!Tasks)
    BY <1>1 DEF S!TypeOK
  <2>2. DOMAIN queue = 1..Len(queue)
    BY <2>1
  <2>3. ~Has(queue, S!Task("logout", p))
    BY <2>2 DEF Has, S!LogoutPacket
  <2>4. QED BY <1>1, <1>2, <2>3 DEF Queued, Fresh
<1>5. /\ queue' \in Seq(S!Tasks) /\ LoginsTaken /\ OrderKept
      /\ \A a : Has(queue', S!Task(a, p)) <=> Has(queue, S!Task(a, p)) \/ a = "logout"
      /\ \A a : a # "logout" /\ NotAfter(queue, S!Task(a, p), S!Task("close", p)) =>
           NotAfter(queue', S!Task(a, p), S!Task("close", p))
      /\ NotAfter(queue', S!Task("logout", p), S!Task("close", p))
      /\ Queued(queue', conn', player, eventConnect, accepts, events', p) =>
           QueueSound(queue', conn', player, eventConnect, accepts, events')
  BY <1>1, <1>2, <1>4, Posted
<1>6. Queued(queue', conn', player, eventConnect, accepts, events', p)
  BY <1>1, <1>2, <1>4, <1>5 DEF Queued, Fresh
<1>7. ConnMoves
  BY <1>2 DEF ConnMoves
<1>8. SomebodyComes'
  BY <1>1, <1>2, <1>5, <1>7, ComesKept DEF S!objects, S!InGame
<1>9. QED BY <1>2, <1>3, <1>5, <1>6, <1>7, <1>8, QuietStep

LEMMA FireStep ==
    ASSUME S!SessionAssumption, SessionInv, NEW p \in Protocols, S!Fire(p) PROVE SessionInv'
<1>1. /\ S!TypeOK /\ TasksSound /\ SomebodyComes
      /\ Queued(queue, conn, player, eventConnect, accepts, events, p)
  BY DEF SessionInv, TasksSound, QueueSound
<1>2. /\ p \in events /\ before[p] = {} /\ events' = events \ {p} /\ queue' = Append(queue, S!Task("connect", p))
      /\ UNCHANGED S!objects /\ UNCHANGED <<conn, player, accepts, protoRef, eventConnect, before>>
  BY DEF S!Fire, S!KeepObjects
<1>3. conn \in ConnType
  BY <1>1 DEF S!TypeOK, ConnType
<1>4. ~Has(queue, S!Task("connect", p)) /\ eventConnect[p] # 0
  BY <1>1, <1>2 DEF Queued
<1>5. /\ queue' \in Seq(S!Tasks) /\ LoginsTaken /\ OrderKept
      /\ \A a : Has(queue', S!Task(a, p)) <=> Has(queue, S!Task(a, p)) \/ a = "connect"
      /\ \A a : a # "connect" /\ NotAfter(queue, S!Task(a, p), S!Task("close", p)) =>
           NotAfter(queue', S!Task(a, p), S!Task("close", p))
      /\ Queued(queue', conn', player, eventConnect, accepts, events', p) =>
           QueueSound(queue', conn', player, eventConnect, accepts, events')
  BY <1>1, <1>2, <1>4, Posted
<1>6. Queued(queue', conn', player, eventConnect, accepts, events', p)
  BY <1>1, <1>2, <1>4, <1>5 DEF Queued, Fresh
<1>7. ConnMoves
  BY <1>2 DEF ConnMoves
<1>8. ASSUME NEW o \in (S!InGame \cap isConnecting)' PROVE \E x \in Protocols : Comes(x, o)'
  <2>1. client' = client /\ o \in S!InGame \cap isConnecting
    BY <1>2 DEF S!objects, S!InGame
  <2>2. PICK x \in Protocols : Comes(x, o)
    BY <1>1, <2>1 DEF SomebodyComes
  <2>3. Comes(x, o)'
    <3>1. CASE client[o] = NoPlayer
      BY <1>2, <2>1, <2>2, <3>1 DEF Comes
    <3>2. CASE client[o] # NoPlayer /\ conn[client[o]] = "request"
      <4>1. client[o] \in Protocols
        BY <1>1, <2>1, <3>2 DEF S!TypeOK, S!InGame
      <4>2. NotAfter(queue, S!Task("close", client[o]), S!Task("connect", x))
        BY <2>2, <3>2 DEF Comes
      <4>3. NotAfter(queue', S!Task("close", client[o]), S!Task("connect", x))
        BY <1>5, <3>2, <4>1, <4>2 DEF OrderKept
      <4>4. QED BY <1>2, <2>1, <2>2, <3>2, <4>3 DEF Comes
    <3>3. CASE conn[client[o]] = "releasing" /\ client[o] \in before[x] /\ x \in events
      BY <1>2, <2>1, <2>2, <3>3 DEF Comes
    <3>4. QED BY <2>2, <3>1, <3>2, <3>3 DEF Comes
  <2>4. QED BY <2>3
<1>9. SomebodyComes'
  BY <1>8 DEF SomebodyComes
<1>10. QED BY <1>2, <1>3, <1>5, <1>6, <1>7, <1>9, QuietStep

LEMMA LoseConnectionStep ==
    ASSUME S!SessionAssumption, SessionInv, NEW p \in Protocols, S!LoseConnection(p) PROVE SessionInv'
<1>1. /\ S!TypeOK /\ TasksSound /\ SomebodyComes /\ queue \in Seq(S!Tasks)
      /\ QueueSound(queue, conn, player, eventConnect, accepts, events)
  BY DEF SessionInv, S!TypeOK, TasksSound
<1>2. /\ S!Disconnect(p, queue)
      /\ UNCHANGED S!objects /\ UNCHANGED <<player, accepts, protoRef, eventConnect, events, before>>
  BY DEF S!LoseConnection, S!KeepObjects
<1>3. /\ queue' \in Seq(S!Tasks) /\ conn' \in ConnType
      /\ QueueSound(queue', conn', player, eventConnect, accepts, events)
      /\ \A x \in Protocols : \/ conn'[x] = conn[x]
                              \/ x = p /\ conn[x] \in S!Open /\ conn'[x] = "request"
      /\ \A x, op : op # "close" => (Has(queue', S!Task(op, x)) <=> Has(queue, S!Task(op, x)))
      /\ \A x, u : conn[x] = "request" /\ NotAfter(queue, S!Task("close", x), u) =>
                       NotAfter(queue', S!Task("close", x), u)
  BY <1>1, <1>2, Disconnected, Zenon
<1>4. ConnMoves /\ LoginsTaken /\ OrderKept
  BY <1>3 DEF ConnMoves, LoginsTaken, OrderKept
<1>5. SomebodyComes'
  BY <1>1, <1>2, <1>4, ComesKept DEF S!objects, S!InGame
<1>6. QED BY <1>2, <1>3, <1>4, <1>5, QuietStep

-----------------------------------------------------------------------------
(* Leaving the game                                                        *)

\* Steps in which at most one player leaves the game and a connection may be closed.
LEMMA LeavingStep ==
    ASSUME S!SessionAssumption, SessionInv, NEW o \in S!Objects, stage[o] \in {"inGame", "removed"},
           stage[o] = "removed" => UNCHANGED <<stage, releaseThings>>,
           stage[o] # "removed" => S!RemoveCreature(o),
           UNCHANGED <<player, accepts, protoRef, eventConnect, events, before>>,
           UNCHANGED <<thingRef, client, isConnecting, checks>>,
           queue' \in Seq(S!Tasks), conn' \in ConnType, ConnMoves, LoginsTaken, OrderKept,
           QueueSound(queue', conn', player, eventConnect, accepts, events)
    PROVE  SessionInv'
<1>1. S!TypeOK /\ ProtocolsSound /\ ObjectsCounted /\ OneInGame /\ SomebodyComes /\ RoomLeft
  BY DEF SessionInv
<1>2. /\ ObjectsCounted' /\ OneInGame' /\ S!InGame' \subseteq S!InGame
      /\ stage' \in [S!Objects -> {"none", "made", "inGame", "removed", "deleted"}]
      /\ releaseThings' \in [S!Objects -> Nat]
      /\ \A a \in S!Objects : stage'[a] = "none" <=> stage[a] = "none"
      /\ \A a \in S!Objects : stage[a] \in {"inGame", "removed"} => stage'[a] \in {"inGame", "removed"}
  <2>1. CASE stage[o] = "removed"
    BY <1>1, <2>1, ObjectsKept DEF S!objects, S!InGame, S!TypeOK
  <2>2. CASE stage[o] # "removed"
    <3>1. o \in S!InGame
      BY <2>2 DEF S!InGame
    <3>2. QED BY <1>1, <2>2, <3>1, RemovedCounted
  <2>3. QED BY <2>1, <2>2
<1>3. S!TypeOK'
  BY <1>1, <1>2 DEF S!TypeOK, ConnType
<1>4. TasksSound'
  BY DEF TasksSound
<1>5. ProtocolsSound'
  BY <1>1, <1>2, ProtocolsKept
<1>6. SomebodyComes'
  BY <1>1, <1>2, ComesKept
<1>7. RoomLeft'
  BY <1>1, <1>2, LoggedInGrows, RoomKept
<1>8. QED BY Zenon, <1>2, <1>3, <1>4, <1>5, <1>6, <1>7 DEF SessionInv

\* Nothing happens to the protocols and their tasks.
LEMMA StillProtocols ==
    ASSUME S!TypeOK, TasksSound, UNCHANGED <<conn, queue>>
    PROVE  /\ queue' \in Seq(S!Tasks) /\ conn' \in ConnType /\ ConnMoves /\ LoginsTaken /\ OrderKept
           /\ QueueSound(queue', conn', player, eventConnect, accepts, events)
BY DEF S!TypeOK, ConnType, ConnMoves, LoginsTaken, OrderKept, TasksSound

LEMMA DieStep ==
    ASSUME S!SessionAssumption, SessionInv, NEW o \in S!Objects, S!Die(o) PROVE SessionInv'
<1>1. S!TypeOK /\ TasksSound
  BY DEF SessionInv
<1>2. /\ stage[o] = "inGame" /\ S!RemoveCreature(o) /\ UNCHANGED <<conn, queue>>
      /\ UNCHANGED <<player, accepts, protoRef, eventConnect, events, before>>
      /\ UNCHANGED <<thingRef, client, isConnecting, checks>>
  BY DEF S!Die, S!protocols
<1>3. QED BY <1>1, <1>2, StillProtocols, LeavingStep

\* What the disconnection of p leaves, taken from a queue that is all there is or all but
\* its head.
LEMMA DisconnectMoves ==
    ASSUME S!TypeOK, NEW p \in Protocols, NEW q \in Seq(S!Tasks), S!Disconnect(p, q),
           QueueSound(q, conn, player, eventConnect, accepts, events),
           \A u : Has(q, u) => Has(queue, u),
           \A u, v : NotAfter(queue, u, v) => NotAfter(q, u, v)
    PROVE  /\ queue' \in Seq(S!Tasks) /\ conn' \in ConnType /\ ConnMoves /\ LoginsTaken /\ OrderKept
           /\ QueueSound(queue', conn', player, eventConnect, accepts, events)
<1>1. /\ queue' \in Seq(S!Tasks) /\ conn' \in ConnType
      /\ QueueSound(queue', conn', player, eventConnect, accepts, events)
      /\ \A x \in Protocols : \/ conn'[x] = conn[x]
                              \/ x = p /\ conn[x] \in S!Open /\ conn'[x] = "request"
      /\ \A x, op : op # "close" => (Has(queue', S!Task(op, x)) <=> Has(q, S!Task(op, x)))
      /\ \A x, u : conn[x] = "request" /\ NotAfter(q, S!Task("close", x), u) =>
                       NotAfter(queue', S!Task("close", x), u)
  BY Disconnected, Zenon
<1>2. ConnMoves
  BY <1>1 DEF ConnMoves
<1>3. LoginsTaken
  BY <1>1 DEF LoginsTaken
<1>4. OrderKept
  BY <1>1 DEF OrderKept
<1>5. QED BY <1>1, <1>2, <1>3, <1>4

LEMMA KickStep ==
    ASSUME S!SessionAssumption, SessionInv, NEW o \in S!Objects, S!Kick(o) PROVE SessionInv'
<1>1. /\ S!TypeOK /\ TasksSound /\ queue \in Seq(S!Tasks)
      /\ QueueSound(queue, conn, player, eventConnect, accepts, events)
  BY DEF SessionInv, TasksSound, S!TypeOK
<1>2. CASE client[o] = NoPlayer
  <2>1. /\ stage[o] = "inGame" /\ S!RemoveCreature(o) /\ UNCHANGED <<conn, queue>>
        /\ UNCHANGED <<player, accepts, protoRef, eventConnect, events, before>>
        /\ UNCHANGED <<thingRef, client, isConnecting, checks>>
    BY <1>2 DEF S!Kick, S!protocols
  <2>2. QED BY <1>1, <2>1, StillProtocols, LeavingStep
<1>3. CASE client[o] # NoPlayer
  <2>1. stage[o] = "inGame" /\ S!LeaveGame(client[o], o, queue)
    BY <1>3 DEF S!Kick
  <2>2. PICK p \in Protocols : p = client[o]
    BY <1>1, <1>3 DEF S!TypeOK
  <2>3. /\ S!Disconnect(p, queue) /\ S!RemoveCreature(o)
        /\ UNCHANGED <<player, accepts, protoRef, eventConnect, events, before>>
        /\ UNCHANGED <<thingRef, client, isConnecting, checks>>
    BY <2>1, <2>2 DEF S!LeaveGame
  <2>4. /\ queue' \in Seq(S!Tasks) /\ conn' \in ConnType /\ ConnMoves /\ LoginsTaken /\ OrderKept
        /\ QueueSound(queue', conn', player, eventConnect, accepts, events)
    BY <1>1, <2>3, DisconnectMoves
  <2>5. QED BY <2>1, <2>3, <2>4, LeavingStep
<1>4. QED BY <1>2, <1>3

LEMMA LogoutStep ==
    ASSUME S!SessionAssumption, SessionInv, NEW p \in Protocols, S!Logout(p) PROVE SessionInv'
<1>1. S!TypeOK /\ TasksSound /\ ProtocolsSound /\ SomebodyComes /\ conn \in ConnType
  BY DEF SessionInv, S!TypeOK, ConnType
<1>2. S!IsNext("logout", p)
  BY DEF S!Logout
<1>3. \A x \in Protocols : Queued(queue, conn, player, eventConnect, accepts, events, x)
  BY <1>1 DEF TasksSound, QueueSound
<1>4. /\ Tail(queue) \in Seq(S!Tasks) /\ Distinct(Tail(queue)) /\ Has(queue, S!Task("logout", p))
      /\ \A u : Has(Tail(queue), u) <=> Has(queue, u) /\ u # S!Task("logout", p)
      /\ \A u, v : NotAfter(queue, u, v) => NotAfter(Tail(queue), u, v)
  BY <1>1, <1>2, Taken
<1>5. PICK q : q = Tail(queue)
  OBVIOUS
<1>6. /\ q \in Seq(S!Tasks) /\ \A u : Has(q, u) => Has(queue, u)
      /\ \A u, v : NotAfter(queue, u, v) => NotAfter(q, u, v)
  BY <1>4, <1>5
<1>7. \A a, x : a # "logout" => (Has(q, S!Task(a, x)) <=> Has(queue, S!Task(a, x)))
  BY <1>4, <1>5, TaskIs
<1>8. ASSUME NEW x \in Protocols PROVE Queued(q, conn, player, eventConnect, accepts, events, x)
  BY <1>3, <1>6, <1>7 DEF Queued, Fresh
<1>9. QueueSound(q, conn, player, eventConnect, accepts, events)
  BY <1>4, <1>5, <1>8 DEF QueueSound
<1>10. CASE player[p] # 0 /\ S!LeaveGame(p, player[p], q)
  <2>1. PICK o \in S!Objects : o = player[p]
    BY <1>1, <1>10 DEF S!TypeOK
  <2>2. stage[o] \in {"inGame", "removed"}
    BY <1>1, <1>3, <1>4, <1>10, <2>1 DEF Queued, ProtocolsSound, ProtocolSound
  <2>3. /\ S!Disconnect(p, q)
        /\ stage[o] = "removed" => UNCHANGED <<stage, releaseThings>>
        /\ stage[o] # "removed" => S!RemoveCreature(o)
        /\ UNCHANGED <<player, accepts, protoRef, eventConnect, events, before>>
        /\ UNCHANGED <<thingRef, client, isConnecting, checks>>
    BY <1>10, <2>1 DEF S!LeaveGame
  <2>4. /\ queue' \in Seq(S!Tasks) /\ conn' \in ConnType /\ ConnMoves /\ LoginsTaken /\ OrderKept
        /\ QueueSound(queue', conn', player, eventConnect, accepts, events)
    BY <1>1, <1>6, <1>9, <2>3, DisconnectMoves
  <2>5. QED BY <2>2, <2>3, <2>4, LeavingStep
<1>11. CASE queue' = q /\ UNCHANGED <<S!protocols, S!objects>>
  <2>1. /\ UNCHANGED S!objects /\ events' \subseteq events /\ events' = events
        /\ UNCHANGED <<player, accepts, protoRef, eventConnect, before>>
        /\ UNCHANGED <<conn, client, stage, isConnecting>>
    BY <1>11 DEF S!protocols, S!objects
  <2>2. ConnMoves /\ LoginsTaken /\ OrderKept
    BY <1>6, <1>11, <2>1 DEF ConnMoves, LoginsTaken, OrderKept
  <2>3. SomebodyComes'
    BY <1>1, <2>1, <2>2, ComesKept DEF S!InGame
  <2>4. /\ queue' \in Seq(S!Tasks) /\ conn' \in ConnType
        /\ QueueSound(queue', conn', player, eventConnect, accepts, events')
    BY <1>1, <1>6, <1>9, <1>11, <2>1
  <2>5. QED BY <2>1, <2>2, <2>3, <2>4, QuietStep
<1>12. QED BY <1>5, <1>10, <1>11 DEF S!Logout

-----------------------------------------------------------------------------
(* The checks and the cleanup                                              *)

\* Steps about the objects alone.
LEMMA ObjectsStep ==
    ASSUME S!SessionAssumption, SessionInv, UNCHANGED <<S!protocols, queue, client, isConnecting>>,
           stage' \in [S!Objects -> {"none", "made", "inGame", "removed", "deleted"}],
           thingRef' \in [S!Objects -> Nat], checks' \subseteq S!Objects, releaseThings' \in [S!Objects -> Nat],
           \A o \in S!Objects : stage'[o] = "none" <=> stage[o] = "none",
           \A o \in S!Objects : stage'[o] = "inGame" <=> stage[o] = "inGame",
           \A o \in S!Objects : stage[o] = "removed" /\ S!Holders(o) # {} => stage'[o] = "removed",
           \A o \in S!Objects : Counted(o)'
    PROVE  SessionInv'
<1>1. S!TypeOK /\ TasksSound /\ ProtocolsSound /\ OneInGame /\ SomebodyComes /\ RoomLeft
  BY DEF SessionInv
<1>2. /\ UNCHANGED <<conn, player, accepts, protoRef, eventConnect, events, before>>
      /\ UNCHANGED <<queue, client, isConnecting>>
  BY DEF S!protocols
<1>3. S!TypeOK'
  BY <1>1, <1>2 DEF S!TypeOK
<1>4. TasksSound'
  BY <1>1, <1>2 DEF TasksSound
<1>5. ProtocolsSound'
  <2>1. ASSUME NEW p \in Protocols PROVE ProtocolSound(p)'
    <3>1. ProtocolSound(p) /\ player[p] \in S!Objects \cup {0}
      BY <1>1 DEF ProtocolsSound, S!TypeOK
    <3>2. player[p] # 0 => p \in S!Holders(player[p])
      BY DEF S!Holders
    <3>3. player[p] # 0 /\ stage[player[p]] \in {"inGame", "removed"} => stage'[player[p]] \in {"inGame", "removed"}
      BY <3>1, <3>2
    <3>4. QED BY <1>2, <3>1, <3>3 DEF ProtocolSound
  <2>2. QED BY <2>1 DEF ProtocolsSound
<1>6. ConnMoves /\ LoginsTaken /\ OrderKept
  BY <1>2 DEF ConnMoves, LoginsTaken, OrderKept
<1>7. S!InGame' = S!InGame
  BY DEF S!InGame
<1>8. OneInGame'
  BY <1>1, <1>7 DEF OneInGame
<1>9. SomebodyComes'
  BY <1>1, <1>2, <1>6, <1>7, ComesKept
<1>10. RoomLeft'
  BY <1>1, <1>6, LoggedInGrows, RoomKept
<1>11. ObjectsCounted'
  BY DEF ObjectsCounted
<1>12. QED BY Zenon, <1>3, <1>4, <1>5, <1>8, <1>9, <1>10, <1>11 DEF SessionInv

LEMMA DropCheckStep ==
    ASSUME S!SessionAssumption, SessionInv, NEW o \in S!Objects, S!DropCheck(o) PROVE SessionInv'
<1>1. S!TypeOK /\ ObjectsCounted
  BY DEF SessionInv
<1>2. /\ o \in checks /\ stage[o] = "removed" /\ checks' = checks \ {o}
      /\ releaseThings' = [releaseThings EXCEPT ![o] = @ + 1]
      /\ UNCHANGED <<player, stage, thingRef, client, isConnecting>>
      /\ UNCHANGED <<S!protocols, queue, client, isConnecting>>
  BY DEF S!DropCheck, S!protocols
<1>3. ASSUME NEW a \in S!Objects PROVE Counted(a)'
  <2>1. Counted(a) /\ S!Holders(a)' = S!Holders(a)
    BY <1>1, <1>2 DEF ObjectsCounted, S!Holders
  <2>2. CASE a # o
    <3>1. releaseThings'[a] = releaseThings[a] /\ (a \in checks' <=> a \in checks)
      BY <1>1, <1>2, <2>2 DEF S!TypeOK
    <3>2. QED BY <1>2, <2>1, <3>1 DEF Counted, S!One
  <2>3. CASE a = o
    <3>1. releaseThings'[a] = releaseThings[a] + 1 /\ a \notin checks' /\ releaseThings[a] \in Nat /\ Cardinality(S!Holders(a)) \in Nat
      BY <1>1, <1>2, <2>3, HoldersCount DEF S!TypeOK
    <3>2. thingRef[a] = 1 + Cardinality(S!Holders(a)) + releaseThings[a]
      BY <1>2, <2>1, <2>3, <3>1 DEF Counted, S!One
    <3>3. thingRef'[a] = S!One(stage'[a] = "inGame") + S!One(a \in checks') + Cardinality(S!Holders(a)') + releaseThings'[a]
      BY <1>2, <2>1, <2>3, <3>1, <3>2 DEF S!One
    <3>4. QED BY <1>2, <2>1, <2>3, <3>3 DEF Counted
  <2>4. QED BY <2>2, <2>3
<1>4. releaseThings' \in [S!Objects -> Nat] /\ checks' \subseteq S!Objects
  BY <1>1, <1>2 DEF S!TypeOK
<1>5. QED BY <1>1, <1>2, <1>3, <1>4, ObjectsStep DEF S!TypeOK

LEMMA CleanupStep ==
    ASSUME S!SessionAssumption, SessionInv, S!Cleanup PROVE SessionInv'
<1>1. S!TypeOK /\ ObjectsCounted
  BY DEF SessionInv
<1>2. /\ thingRef' = [o \in S!Objects |-> thingRef[o] - releaseThings[o]]
      /\ stage' = [o \in S!Objects |-> IF releaseThings[o] > 0 /\ thingRef[o] <= releaseThings[o]
                                     THEN "deleted" ELSE stage[o]]
      /\ releaseThings' = [o \in S!Objects |-> 0]
      /\ UNCHANGED <<S!protocols, queue, client, isConnecting>> /\ checks' = checks /\ player' = player
  BY DEF S!Cleanup, S!protocols
<1>3. ASSUME NEW a \in S!Objects
      PROVE  /\ Counted(a)' /\ thingRef[a] - releaseThings[a] \in Nat
             /\ stage'[a] = "none" <=> stage[a] = "none"
             /\ stage'[a] = "inGame" <=> stage[a] = "inGame"
             /\ stage[a] = "removed" /\ S!Holders(a) # {} => stage'[a] = "removed"
  <2>1. /\ Counted(a) /\ S!Holders(a)' = S!Holders(a)
        /\ thingRef'[a] = thingRef[a] - releaseThings[a] /\ releaseThings'[a] = 0
        /\ stage'[a] = IF releaseThings[a] > 0 /\ thingRef[a] <= releaseThings[a] THEN "deleted" ELSE stage[a]
    BY <1>1, <1>2 DEF ObjectsCounted, S!Holders
  <2>2. /\ thingRef[a] \in Nat /\ releaseThings[a] \in Nat
        /\ Cardinality(S!Holders(a)) \in Nat /\ (Cardinality(S!Holders(a)) = 0 <=> S!Holders(a) = {})
    BY <1>1, HoldersCount DEF S!TypeOK
  <2>3. /\ stage[a] = "inGame" => S!One(stage[a] = "inGame") = 1
        /\ stage[a] # "inGame" => S!One(stage[a] = "inGame") = 0
        /\ a \in checks => S!One(a \in checks) = 1
        /\ a \notin checks => S!One(a \in checks) = 0
    BY DEF S!One
  <2>4. PICK g, c, h \in Nat :
           g = S!One(stage[a] = "inGame") /\ c = S!One(a \in checks) /\ h = Cardinality(S!Holders(a))
    BY <2>2, <2>3
  <2>5. CASE stage[a] = "deleted"
    <3>1. releaseThings[a] = 0 /\ stage'[a] = "deleted" /\ a \notin checks /\ S!Holders(a) = {}
      BY <2>1, <2>2, <2>5 DEF Counted
    <3>2. QED BY <1>2, <2>1, <2>2, <2>5, <3>1 DEF Counted
  <2>6. CASE stage[a] # "deleted" /\ releaseThings[a] > 0 /\ thingRef[a] <= releaseThings[a]
    <3>1. thingRef[a] = g + c + h + releaseThings[a]
      BY <2>1, <2>4, <2>6 DEF Counted
    <3>2. g = 0 /\ c = 0 /\ h = 0
      BY <2>2, <2>4, <2>6, <3>1
    <3>3. stage[a] # "inGame" /\ a \notin checks /\ S!Holders(a) = {} /\ stage'[a] = "deleted"
      BY <2>1, <2>2, <2>3, <2>4, <2>6, <3>2
    <3>4. stage[a] # "none"
      BY <2>1, <2>2, <2>6, <3>1 DEF Counted
    <3>5. QED BY <1>2, <2>1, <2>2, <2>6, <3>1, <3>2, <3>3, <3>4 DEF Counted
  <2>7. CASE stage[a] # "deleted" /\ ~(releaseThings[a] > 0 /\ thingRef[a] <= releaseThings[a])
    <3>1. thingRef[a] = g + c + h + releaseThings[a]
      BY <2>1, <2>4, <2>7 DEF Counted
    <3>2. stage'[a] = stage[a] /\ thingRef'[a] = g + c + h
      BY <2>1, <2>2, <2>7, <3>1
    <3>3. stage[a] = "none" => thingRef'[a] = 0
      BY <2>1, <2>2, <3>1, <3>2 DEF Counted
    <3>4. thingRef'[a] = S!One(stage'[a] = "inGame") + S!One(a \in checks') + Cardinality(S!Holders(a)') + releaseThings'[a]
      BY <1>2, <2>1, <2>4, <3>2
    <3>5. Counted(a)'
      BY <1>2, <2>1, <2>7, <3>2, <3>3, <3>4 DEF Counted
    <3>6. QED BY <2>1, <2>2, <3>1, <3>2, <3>5
  <2>8. QED BY <2>5, <2>6, <2>7
<1>4. /\ thingRef' \in [S!Objects -> Nat] /\ releaseThings' \in [S!Objects -> Nat]
      /\ stage' \in [S!Objects -> {"none", "made", "inGame", "removed", "deleted"}]
  BY <1>1, <1>2, <1>3 DEF S!TypeOK
<1>5. QED BY <1>1, <1>2, <1>3, <1>4, ObjectsStep DEF S!TypeOK

-----------------------------------------------------------------------------
(* The end of protocols                                                    *)

LEMMA ReleaseStep ==
    ASSUME S!SessionAssumption, SessionInv, NEW p \in Protocols, NEW unsent, S!ReleaseProtocol(p, unsent),
           conn[p] \in {"request", "releasing"},
           queue' \in Seq(S!Tasks), Distinct(queue'),
           \A a \in {"login", "logout", "close"} : ~Has(queue', S!Task(a, p)),
           \A a, x : x # p \/ a = "connect" => (Has(queue', S!Task(a, x)) <=> Has(queue, S!Task(a, x))),
           \A u, v : NotAfter(queue, u, v) => NotAfter(queue', u, v),
           before' \in [Protocols -> SUBSET Protocols],
           \A x \in Protocols : \A y \in before[x] : y # p => y \in before'[x]
    PROVE  SessionInv'
<1>1. S!TypeOK /\ TasksSound /\ ProtocolsSound /\ ObjectsCounted /\ OneInGame /\ SomebodyComes /\ RoomLeft
  BY DEF SessionInv
<1>2. /\ UNCHANGED <<accepts, protoRef, eventConnect, events, stage, thingRef, isConnecting, checks>>
      /\ client' = IF player[p] # 0 /\ client[player[p]] = p THEN [client EXCEPT ![player[p]] = NoPlayer]
                   ELSE client
  BY DEF S!ReleaseProtocol, S!ClientCleared
<1>3. \/ /\ conn' = [conn EXCEPT ![p] = "releasing"] /\ UNCHANGED <<player, releaseThings>>
      \/ /\ conn' = [conn EXCEPT ![p] = "deleted"] /\ player' = [player EXCEPT ![p] = 0] /\ ~(protoRef[p] > 0)
         /\ releaseThings' = IF player[p] = 0 THEN releaseThings
                             ELSE [releaseThings EXCEPT ![player[p]] = @ + 1]
  BY DEF S!ReleaseProtocol
<1>4. /\ ProtocolSound(p) /\ player[p] \in S!Objects \cup {0}
      /\ conn \in ConnType /\ \A x \in Protocols : player[x] \in S!Objects \cup {0}
  BY <1>1 DEF ProtocolsSound, S!TypeOK, ConnType
<1>5. /\ conn' \in ConnType /\ player' \in [Protocols -> S!Objects \cup {0}]
      /\ conn'[p] \in {"releasing", "deleted"} /\ (conn'[p] = "deleted" => player'[p] = 0 /\ eventConnect[p] = 0)
      /\ player'[p] = player[p] \/ player'[p] = 0
      /\ \A x \in Protocols \ {p} : conn'[x] = conn[x] /\ player'[x] = player[x]
  <2>1. ~(protoRef[p] > 0) => eventConnect[p] = 0
    BY <1>4 DEF ProtocolSound
  <2>2. CASE conn' = [conn EXCEPT ![p] = "releasing"] /\ UNCHANGED <<player, releaseThings>>
    BY <1>1, <1>4, <2>2 DEF S!TypeOK, ConnType
  <2>3. CASE conn' = [conn EXCEPT ![p] = "deleted"] /\ player' = [player EXCEPT ![p] = 0] /\ ~(protoRef[p] > 0)
    BY <1>1, <1>4, <2>1, <2>3 DEF S!TypeOK, ConnType
  <2>4. QED BY <1>3, <2>2, <2>3
<1>6. /\ client' \in [S!Objects -> Protocols \cup {NoPlayer}]
      /\ \A o \in S!Objects : client'[o] = IF o = player[p] /\ client[o] = p THEN NoPlayer ELSE client[o]
  BY <1>1, <1>2, <1>4, ObjectsAre DEF S!TypeOK
<1>7. \A o \in S!Objects : client[o] # NoPlayer => player[client[o]] = o /\ client[o] \in Protocols
  BY <1>1 DEF ObjectsCounted, Counted, S!TypeOK
<1>8. \A o \in S!Objects :
        /\ client'[o] # p
        /\ client[o] # p => client'[o] = client[o]
  BY <1>6, <1>7, ObjectsAre
<1>9. releaseThings' \in [S!Objects -> Nat]
  <2>1. releaseThings \in [S!Objects -> Nat]
    BY <1>1 DEF S!TypeOK
  <2>2. CASE player[p] = 0 \/ releaseThings' = releaseThings
    BY <1>3, <2>1, <2>2
  <2>3. CASE player[p] # 0 /\ releaseThings' # releaseThings
    <3>1. PICK o \in S!Objects : o = player[p]
      BY <1>4, <2>3
    <3>2. releaseThings' = [releaseThings EXCEPT ![o] = @ + 1]
      BY <1>3, <2>3, <3>1
    <3>3. QED BY <2>1, <3>2
  <2>4. QED BY <2>2, <2>3
<1>10. S!TypeOK'
  BY <1>1, <1>2, <1>5, <1>6, <1>9 DEF S!TypeOK, ConnType
<1>11. TasksSound'
  <2>1. ASSUME NEW x \in Protocols PROVE Queued(queue', conn', player', eventConnect, accepts, events, x)
    <3>1. Queued(queue, conn, player, eventConnect, accepts, events, x)
      BY <1>1 DEF TasksSound, QueueSound
    <3>2. CASE x # p
      <4>1. \A a : Has(queue', S!Task(a, x)) <=> Has(queue, S!Task(a, x))
        BY <3>2
      <4>2. conn'[x] = conn[x] /\ player'[x] = player[x]
        BY <1>5, <3>2
      <4>3. QED BY <3>1, <4>1, <4>2 DEF Queued, Fresh
    <3>3. CASE x = p
      <4>1. ~Has(queue', S!Task("login", p)) /\ ~Has(queue', S!Task("logout", p)) /\ ~Has(queue', S!Task("close", p))
        OBVIOUS
      <4>2. Has(queue', S!Task("connect", p)) <=> Has(queue, S!Task("connect", p))
        OBVIOUS
      <4>3. NotAfter(queue', S!Task("login", p), S!Task("close", p)) /\ NotAfter(queue', S!Task("logout", p), S!Task("close", p))
        BY <4>1 DEF NotAfter, Has
      <4>4. QED BY <1>5, <3>1, <3>3, <4>1, <4>2, <4>3 DEF Queued
    <3>4. QED BY <3>2, <3>3
  <2>2. QED BY <1>2, <2>1 DEF TasksSound, QueueSound
<1>12. ProtocolsSound'
  <2>1. ASSUME NEW x \in Protocols PROVE ProtocolSound(x)'
    <3>1. ProtocolSound(x)
      BY <1>1 DEF ProtocolsSound
    <3>2. CASE x # p
      <4>1. conn'[x] = conn[x] /\ player'[x] = player[x]
        BY <1>5, <3>2
      <4>2. player[x] # 0 /\ client[player[x]] = x => client'[player[x]] = x
        BY <1>4, <1>8, <3>2
      <4>3. QED BY <1>2, <3>1, <4>1, <4>2 DEF ProtocolSound
    <3>3. CASE x = p
      <4>1. conn'[x] \notin S!Open
        BY <1>5, <3>3 DEF S!Open
      <4>2. conn[x] # "deleted"
        BY <3>3
      <4>3. QED BY <1>2, <1>5, <3>1, <3>3, <4>1, <4>2 DEF ProtocolSound
    <3>4. QED BY <3>2, <3>3
  <2>2. QED BY <2>1 DEF ProtocolsSound
<1>13. ObjectsCounted'
  <2>1. ASSUME NEW o \in S!Objects PROVE Counted(o)'
    <3>1. /\ Counted(o) /\ thingRef[o] \in Nat /\ releaseThings[o] \in Nat
          /\ stage'[o] = stage[o] /\ thingRef'[o] = thingRef[o] /\ (o \in checks' <=> o \in checks)
          /\ (o \in isConnecting' <=> o \in isConnecting)
      BY <1>1, <1>2 DEF ObjectsCounted, S!TypeOK
    <3>2. client'[o] # NoPlayer => player'[client'[o]] = o
      <4>1. client'[o] # NoPlayer =>
              client[o] # p /\ client'[o] = client[o] /\ client[o] \in Protocols /\ player[client[o]] = o
        BY <1>6, <1>7, <1>8
      <4>2. QED BY <1>5, <4>1
    <3>3. CASE S!Holders(o)' = S!Holders(o) /\ releaseThings'[o] = releaseThings[o]
      BY <3>1, <3>2, <3>3 DEF Counted
    <3>4. CASE player[p] = o /\ player' = [player EXCEPT ![p] = 0] /\ releaseThings' = [releaseThings EXCEPT ![o] = @ + 1]
      <4>1. Cardinality(S!Holders(o)) = Cardinality(S!Holders(o)') + 1 /\ releaseThings'[o] = releaseThings[o] + 1
        BY <1>1, <3>4, ObjectsAre, OneLess DEF S!TypeOK
      <4>2. p \in S!Holders(o)
        BY <3>4 DEF S!Holders
      <4>3. stage[o] # "deleted"
        BY <3>1, <4>2 DEF Counted
      <4>4. thingRef[o] = S!One(stage[o] = "inGame") + S!One(o \in checks) + Cardinality(S!Holders(o)) + releaseThings[o]
        BY <3>1, <4>3 DEF Counted
      <4>5. Cardinality(S!Holders(o)') \in Int /\ S!One(stage[o] = "inGame") \in Int /\ S!One(o \in checks) \in Int
        <5>1. IsFiniteSet(S!Holders(o)')
          BY FS_Subset, ProtocolsFinite DEF S!Holders
        <5>2. QED BY <5>1, FS_CardinalityType DEF S!One
      <4>6. thingRef'[o] = S!One(stage[o] = "inGame") + S!One(o \in checks) + Cardinality(S!Holders(o)') + releaseThings'[o]
        BY <3>1, <4>1, <4>4, <4>5
      <4>7. thingRef'[o] = S!One(stage'[o] = "inGame") + S!One(o \in checks') + Cardinality(S!Holders(o)') + releaseThings'[o]
        BY <3>1, <4>6 DEF S!One
      <4>8. QED BY <3>1, <3>2, <4>3, <4>7 DEF Counted
    <3>5. QED
      <4>1. CASE UNCHANGED <<player, releaseThings>>
        BY <3>3, <4>1 DEF S!Holders
      <4>2. CASE /\ player' = [player EXCEPT ![p] = 0]
                 /\ releaseThings' = IF player[p] = 0 THEN releaseThings
                                     ELSE [releaseThings EXCEPT ![player[p]] = @ + 1]
        <5>1. CASE player[p] = o
          BY <3>4, <4>2, <5>1, ObjectsAre
        <5>2. CASE player[p] # o
          <6>1. S!Holders(o)' = S!Holders(o)
            BY <1>1, <4>2, <5>2, OneLess
          <6>2. releaseThings'[o] = releaseThings[o]
            BY <1>1, <1>4, <4>2, <5>2 DEF S!TypeOK
          <6>3. QED BY <3>3, <6>1, <6>2
        <5>3. QED BY <5>1, <5>2
      <4>3. QED BY <1>3, <4>1, <4>2
  <2>2. QED BY <2>1 DEF ObjectsCounted
<1>14. S!InGame' = S!InGame
  BY <1>2 DEF S!InGame
<1>15. OneInGame'
  BY <1>1, <1>14 DEF OneInGame
<1>16. SomebodyComes'
  <2>1. ASSUME NEW o \in (S!InGame \cap isConnecting)' PROVE \E x \in Protocols : Comes(x, o)'
    <3>1. o \in S!InGame \cap isConnecting /\ o \in S!Objects
      BY <1>2, <1>14 DEF S!InGame
    <3>2. PICK x \in Protocols : Comes(x, o)
      BY <1>1, <3>1 DEF SomebodyComes
    <3>3. Comes(x, o)'
      <4>1. CASE client'[o] = NoPlayer
        BY <1>2, <3>2, <4>1 DEF Comes
      <4>2. CASE client'[o] # NoPlayer
        <5>1. client[o] # p /\ client'[o] = client[o] /\ client[o] \in Protocols /\ client[o] # NoPlayer
          BY <1>6, <1>7, <1>8, <3>1, <4>2
        <5>2. conn'[client[o]] = conn[client[o]]
          BY <1>5, <5>1
        <5>3. client[o] \in before[x] => client[o] \in before'[x]
          BY <3>2, <5>1
        <5>4. QED BY <1>2, <3>2, <5>1, <5>2, <5>3 DEF Comes
      <4>3. QED BY <4>1, <4>2
    <3>4. QED BY <3>3
  <2>2. QED BY <2>1 DEF SomebodyComes
<1>17. RoomLeft'
  <2>1. LoggedIn \subseteq LoggedIn'
    <3>1. ASSUME NEW x \in LoggedIn PROVE x \in LoggedIn'
      <4>1. x \in Protocols /\ conn[x] # "accepted" /\ ~Has(queue, S!Task("login", x))
        BY DEF LoggedIn
      <4>2. ~Has(queue', S!Task("login", x))
        BY <4>1
      <4>3. conn'[x] # "accepted"
        BY <1>5, <4>1
      <4>4. QED BY <4>1, <4>2, <4>3 DEF LoggedIn
    <3>2. QED BY <3>1
  <2>2. QED BY <1>1, <1>2, <2>1, RoomKept
<1>18. QED BY Zenon, <1>10, <1>11, <1>12, <1>13, <1>15, <1>16, <1>17 DEF SessionInv

LEMMA ReleaseAgainStep ==
    ASSUME S!SessionAssumption, SessionInv, NEW p \in Protocols, S!ReleaseAgain(p) PROVE SessionInv'
<1>1. /\ conn[p] = "releasing" /\ S!ReleaseProtocol(p, FALSE) /\ queue' = queue
      /\ before' = [q \in Protocols |-> before[q] \ {p}]
  BY DEF S!ReleaseAgain
<1>2. S!TypeOK /\ Distinct(queue) /\ Queued(queue, conn, player, eventConnect, accepts, events, p)
  BY DEF SessionInv, TasksSound, QueueSound
<1>3. \A a \in {"login", "logout", "close"} : ~Has(queue', S!Task(a, p))
  BY <1>1, <1>2 DEF Queued
<1>4. before' \in [Protocols -> SUBSET Protocols] /\ \A x \in Protocols : \A y \in before[x] : y # p => y \in before'[x]
  BY <1>1, <1>2 DEF S!TypeOK
<1>5. queue' \in Seq(S!Tasks)
  BY <1>1, <1>2 DEF S!TypeOK
<1>6. QED BY <1>1, <1>2, <1>3, <1>4, <1>5, ReleaseStep

LEMMA CloseConnectionStep ==
    ASSUME S!SessionAssumption, SessionInv, NEW p \in Protocols, S!CloseConnection(p) PROVE SessionInv'
<1>1. S!IsNext("close", p) /\ queue' = Tail(queue) /\ before' = before
  BY DEF S!CloseConnection
<1>2. PICK unsent \in BOOLEAN : S!ReleaseProtocol(p, unsent)
  BY DEF S!CloseConnection
<1>3. S!TypeOK /\ TasksSound /\ Queued(queue, conn, player, eventConnect, accepts, events, p)
  BY DEF SessionInv, TasksSound, QueueSound
<1>4. /\ queue' \in Seq(S!Tasks) /\ Distinct(queue') /\ Has(queue, S!Task("close", p))
      /\ \A u : Has(queue', u) <=> Has(queue, u) /\ u # S!Task("close", p)
      /\ \A u, v : NotAfter(queue, u, v) => NotAfter(queue', u, v)
      /\ \A u : NotAfter(queue, u, S!Task("close", p)) => ~Has(queue, u)
  BY <1>1, <1>3, Taken
<1>5. conn[p] = "request"
  BY <1>3, <1>4 DEF Queued
<1>6. \A a \in {"login", "logout", "close"} : ~Has(queue', S!Task(a, p))
  BY <1>3, <1>4 DEF Queued
<1>7. \A a, x : x # p \/ a = "connect" => (Has(queue', S!Task(a, x)) <=> Has(queue, S!Task(a, x)))
  BY <1>4, TaskIs
<1>8. before' \in [Protocols -> SUBSET Protocols] /\ \A x \in Protocols : \A y \in before[x] : y # p => y \in before'[x]
  BY <1>1, <1>3 DEF S!TypeOK
<1>9. QED BY <1>2, <1>4, <1>5, <1>6, <1>7, <1>8, ReleaseStep

-----------------------------------------------------------------------------
(* Connecting, at once or a second later                                   *)

\* The queue once p's login or connect is taken from it.
TakenBy(p, q) ==
    /\ q \in Seq(S!Tasks) /\ Distinct(q)
    /\ \A a \in {"login", "logout", "connect"} : ~Has(q, S!Task(a, p))
    /\ \A a, x : x # p \/ a = "close" => (Has(q, S!Task(a, x)) <=> Has(queue, S!Task(a, x)))
    /\ \A u, v : NotAfter(queue, u, v) => NotAfter(q, u, v)

\* Whoever waits for a client waits for another than p, or p is its client at last.
OthersCome(p, o) == \A a \in S!InGame \cap isConnecting : \E x \in Protocols :
    /\ Comes(x, a)
    /\ x # p \/ (a = o /\ client[o] = NoPlayer)

Connecting(p, o, q) ==
    /\ eventConnect' = [eventConnect EXCEPT ![p] = 0] /\ protoRef' = [protoRef EXCEPT ![p] = 0]
    /\ events' = events /\ before' = before /\ p \notin events
    /\ player[p] = 0 /\ conn[p] \notin {"accepted", "deleted"}
    /\ TakenBy(p, q) /\ OthersCome(p, o)

LEMMA QueuedOthers ==
    ASSUME SessionInv, NEW p, NEW q, TakenBy(p, q), NEW x \in Protocols \ {p}
    PROVE  /\ \A a : Has(q, S!Task(a, x)) <=> Has(queue, S!Task(a, x))
           /\ \A u, v : NotAfter(queue, u, v) => NotAfter(q, u, v)
           /\ Queued(queue, conn, player, eventConnect, accepts, events, x)
BY DEF SessionInv, TasksSound, QueueSound, TakenBy

LEMMA ConnectFails ==
    ASSUME S!SessionAssumption, SessionInv, NEW p \in Protocols, NEW o \in S!Objects, NEW q, Connecting(p, o, q),
           stage[o] # "inGame" \/ client[o] # NoPlayer,
           S!Disconnect(p, q), UNCHANGED S!objects, UNCHANGED <<player, accepts>>
    PROVE  SessionInv'
<1>1. /\ S!TypeOK /\ TasksSound /\ ProtocolsSound /\ ObjectsCounted /\ OneInGame /\ SomebodyComes /\ RoomLeft
      /\ conn \in ConnType /\ Queued(queue, conn, player, eventConnect, accepts, events, p)
  BY DEF SessionInv, TasksSound, QueueSound, S!TypeOK, ConnType
<1>2. /\ eventConnect' = [eventConnect EXCEPT ![p] = 0] /\ protoRef' = [protoRef EXCEPT ![p] = 0]
      /\ events' = events /\ before' = before /\ p \notin events
      /\ player[p] = 0 /\ conn[p] \notin {"accepted", "deleted"}
      /\ TakenBy(p, q) /\ OthersCome(p, o)
  BY DEF Connecting
<1>3. /\ q \in Seq(S!Tasks) /\ Distinct(q)
      /\ \A a \in {"login", "logout", "connect"} : ~Has(q, S!Task(a, p))
      /\ \A a, x : x # p \/ a = "close" => (Has(q, S!Task(a, x)) <=> Has(queue, S!Task(a, x)))
      /\ \A u, v : NotAfter(queue, u, v) => NotAfter(q, u, v)
  BY <1>2 DEF TakenBy
<1>4. /\ eventConnect' \in [Protocols -> S!Objects \cup {0}] /\ protoRef' \in [Protocols -> 0..1]
      /\ eventConnect'[p] = 0 /\ protoRef'[p] = 0
      /\ \A x \in Protocols \ {p} : eventConnect'[x] = eventConnect[x] /\ protoRef'[x] = protoRef[x]
  BY <1>1, <1>2 DEF S!TypeOK
<1>5. QueueSound(q, conn, player, eventConnect', accepts, events)
  <2>1. ASSUME NEW x \in Protocols PROVE Queued(q, conn, player, eventConnect', accepts, events, x)
    <3>1. CASE x # p
      BY <1>2, <1>4, <3>1, QueuedOthers DEF Queued, Fresh
    <3>2. CASE x = p
      BY <1>1, <1>2, <1>3, <3>2 DEF Queued
    <3>3. QED BY <3>1, <3>2
  <2>2. QED BY <1>3, <2>1 DEF QueueSound
<1>6. /\ queue' \in Seq(S!Tasks) /\ conn' \in ConnType
      /\ QueueSound(queue', conn', player, eventConnect', accepts, events)
      /\ \A x \in Protocols : \/ conn'[x] = conn[x]
                              \/ x = p /\ conn[x] \in S!Open /\ conn'[x] = "request"
      /\ \A x, op : op # "close" => (Has(queue', S!Task(op, x)) <=> Has(q, S!Task(op, x)))
      /\ \A x, u : conn[x] = "request" /\ NotAfter(q, S!Task("close", x), u) =>
                       NotAfter(queue', S!Task("close", x), u)
  BY <1>1, <1>3, <1>5, Disconnected, Zenon
<1>7. UNCHANGED <<stage, thingRef, client, isConnecting, checks, releaseThings>> /\ S!InGame' = S!InGame
  BY DEF S!objects, S!InGame
<1>8. S!TypeOK'
  BY <1>1, <1>2, <1>4, <1>6, <1>7 DEF S!TypeOK, ConnType
<1>9. TasksSound'
  BY <1>2, <1>6 DEF TasksSound
<1>10. ProtocolsSound'
  <2>1. ASSUME NEW x \in Protocols PROVE ProtocolSound(x)'
    <3>1. ProtocolSound(x)
      BY <1>1 DEF ProtocolsSound
    <3>2. conn'[x] = conn[x] \/ (conn[x] \in S!Open /\ conn'[x] = "request")
      BY <1>6
    <3>3. CASE x # p
      BY <1>4, <1>7, <3>1, <3>2, <3>3 DEF ProtocolSound
    <3>4. CASE x = p
      BY <1>2, <1>4, <3>1, <3>2, <3>4 DEF ProtocolSound
    <3>5. QED BY <3>3, <3>4
  <2>2. QED BY <2>1 DEF ProtocolsSound
<1>11. ObjectsCounted' /\ OneInGame'
  BY <1>1, ObjectsKept
<1>12. SomebodyComes'
  <2>1. ASSUME NEW a \in S!InGame \cap isConnecting PROVE \E x \in Protocols : Comes(x, a)'
    <3>1. PICK x \in Protocols : Comes(x, a) /\ (x # p \/ (a = o /\ client[o] = NoPlayer))
      BY <1>2 DEF OthersCome
    <3>2. x # p
      BY <3>1 DEF S!InGame
    <3>3. client[a] # NoPlayer => client[a] \in Protocols
      BY <1>1 DEF S!TypeOK, S!InGame
    <3>4. CASE client[a] = NoPlayer
      BY <1>4, <1>7, <3>1, <3>2, <3>4 DEF Comes
    <3>5. CASE /\ client[a] \in Protocols /\ conn[client[a]] = "request"
               /\ NotAfter(queue, S!Task("close", client[a]), S!Task("connect", x))
      <4>1. conn'[client[a]] = "request" /\ NotAfter(queue', S!Task("close", client[a]), S!Task("connect", x))
        BY <1>3, <1>6, <3>5 DEF S!Open
      <4>2. QED BY <1>4, <1>7, <3>1, <3>2, <4>1 DEF Comes
    <3>6. CASE client[a] \in Protocols /\ conn[client[a]] = "releasing" /\ client[a] \in before[x] /\ x \in events
      <4>1. conn'[client[a]] = "releasing"
        BY <1>6, <3>6 DEF S!Open
      <4>2. QED BY <1>2, <1>4, <1>7, <3>1, <3>2, <3>6, <4>1 DEF Comes
    <3>7. QED BY <3>1, <3>3, <3>4, <3>5, <3>6 DEF Comes
  <2>2. QED BY <1>7, <2>1 DEF SomebodyComes
<1>13. RoomLeft'
  <2>1. ASSUME NEW x \in LoggedIn PROVE x \in LoggedIn'
    <3>1. x \in Protocols /\ conn[x] # "accepted" /\ ~Has(queue, S!Task("login", x))
      BY DEF LoggedIn
    <3>2. ~Has(queue', S!Task("login", x))
      BY <1>3, <1>6, <3>1
    <3>3. conn'[x] # "accepted"
      BY <1>6, <3>1
    <3>4. QED BY <3>1, <3>2, <3>3 DEF LoggedIn
  <2>2. LoggedIn \subseteq LoggedIn'
    BY <2>1
  <2>3. QED BY <1>1, <1>7, <2>2, RoomKept
<1>14. QED BY Zenon, <1>8, <1>9, <1>10, <1>11, <1>12, <1>13 DEF SessionInv

LEMMA ConnectSucceeds ==
    ASSUME S!SessionAssumption, SessionInv, NEW p \in Protocols, NEW o \in S!Objects, NEW q, Connecting(p, o, q),
           stage[o] = "inGame" /\ client[o] = NoPlayer,
           player' = [player EXCEPT ![p] = o], accepts' = accepts \cup {p},
           client' = [client EXCEPT ![o] = p], thingRef' = [thingRef EXCEPT ![o] = @ + 1],
           isConnecting' = isConnecting \ {o}, queue' = q,
           UNCHANGED <<conn, stage, checks, releaseThings>>
    PROVE  SessionInv'
<1>1. /\ S!TypeOK /\ TasksSound /\ ProtocolsSound /\ ObjectsCounted /\ OneInGame /\ SomebodyComes /\ RoomLeft
      /\ conn \in ConnType /\ Queued(queue, conn, player, eventConnect, accepts, events, p)
  BY DEF SessionInv, TasksSound, QueueSound, S!TypeOK, ConnType
<1>2. /\ eventConnect' = [eventConnect EXCEPT ![p] = 0] /\ protoRef' = [protoRef EXCEPT ![p] = 0]
      /\ events' = events /\ before' = before /\ p \notin events
      /\ player[p] = 0 /\ conn[p] \notin {"accepted", "deleted"}
      /\ TakenBy(p, q) /\ OthersCome(p, o)
  BY DEF Connecting
<1>3. /\ q \in Seq(S!Tasks) /\ Distinct(q)
      /\ \A a \in {"login", "logout", "connect"} : ~Has(q, S!Task(a, p))
      /\ \A a, x : x # p \/ a = "close" => (Has(q, S!Task(a, x)) <=> Has(queue, S!Task(a, x)))
      /\ \A u, v : NotAfter(queue, u, v) => NotAfter(q, u, v)
  BY <1>2 DEF TakenBy
<1>4. /\ eventConnect' \in [Protocols -> S!Objects \cup {0}] /\ protoRef' \in [Protocols -> 0..1]
      /\ eventConnect'[p] = 0 /\ protoRef'[p] = 0
      /\ \A x \in Protocols \ {p} : eventConnect'[x] = eventConnect[x] /\ protoRef'[x] = protoRef[x]
  BY <1>1, <1>2 DEF S!TypeOK
<1>5. /\ player' \in [Protocols -> S!Objects \cup {0}] /\ player'[p] = o
      /\ \A x \in Protocols \ {p} : player'[x] = player[x]
      /\ client' \in [S!Objects -> Protocols \cup {NoPlayer}] /\ client'[o] = p
      /\ \A a \in S!Objects \ {o} : client'[a] = client[a]
      /\ thingRef' \in [S!Objects -> Nat] /\ thingRef'[o] = thingRef[o] + 1
      /\ \A a \in S!Objects \ {o} : thingRef'[a] = thingRef[a]
  BY <1>1 DEF S!TypeOK
<1>6. o # 0 /\ p # NoPlayer
  BY ObjectsAre
<1>7. QueueSound(q, conn, player', eventConnect', accepts', events)
  <2>1. ASSUME NEW x \in Protocols PROVE Queued(q, conn, player', eventConnect', accepts', events, x)
    <3>1. CASE x # p
      BY <1>2, <1>4, <1>5, <3>1, QueuedOthers DEF Queued, Fresh
    <3>2. CASE x = p
      BY <1>1, <1>2, <1>3, <3>2 DEF Queued
    <3>3. QED BY <3>1, <3>2
  <2>2. QED BY <1>3, <2>1 DEF QueueSound
<1>8. S!InGame' = S!InGame
  BY DEF S!InGame
<1>9. S!TypeOK'
  BY <1>1, <1>2, <1>3, <1>4, <1>5 DEF S!TypeOK
<1>10. TasksSound'
  BY <1>2, <1>7 DEF TasksSound
<1>11. ProtocolsSound'
  <2>1. ASSUME NEW x \in Protocols PROVE ProtocolSound(x)'
    <3>1. ProtocolSound(x) /\ player[x] \in S!Objects \cup {0}
      BY <1>1 DEF ProtocolsSound, S!TypeOK
    <3>2. CASE x # p
      <4>1. player'[x] = player[x] /\ eventConnect'[x] = eventConnect[x] /\ protoRef'[x] = protoRef[x]
            /\ (x \in accepts' <=> x \in accepts)
        BY <1>4, <1>5, <3>2
      <4>2. player[x] # 0 /\ client[player[x]] = x => client'[player[x]] = x
        BY <1>5, <3>1, ObjectsAre
      <4>3. QED BY <3>1, <4>1, <4>2 DEF ProtocolSound
    <3>3. CASE x = p
      BY <1>2, <1>4, <1>5, <1>6, <3>3 DEF ProtocolSound
    <3>4. QED BY <3>2, <3>3
  <2>2. QED BY <2>1 DEF ProtocolsSound
<1>12. ObjectsCounted'
  <2>1. ASSUME NEW a \in S!Objects PROVE Counted(a)'
    <3>1. Counted(a)
      BY <1>1 DEF ObjectsCounted
    <3>2. client'[a] # NoPlayer => player'[client'[a]] = a
      <4>1. client[a] # NoPlayer => client[a] \in Protocols /\ client[a] # p
        BY <1>1, <1>2, <3>1, ObjectsAre DEF S!TypeOK, Counted
      <4>2. QED BY <1>5, <3>1, <4>1 DEF Counted
    <3>3. CASE a # o
      <4>1. S!Holders(a)' = S!Holders(a)
        BY <1>1, <1>2, <3>3, OneMore
      <4>2. thingRef'[a] = thingRef[a]
        BY <1>5, <3>3
      <4>3. QED BY <3>1, <3>2, <3>3, <4>1, <4>2 DEF Counted
    <3>4. CASE a = o
      <4>1. Cardinality(S!Holders(o)') = Cardinality(S!Holders(o)) + 1 /\ thingRef'[o] = thingRef[o] + 1
        BY <1>1, <1>2, <1>5, OneMore
      <4>2. Cardinality(S!Holders(o)) \in Int /\ S!One(o \in checks) \in Int /\ releaseThings[o] \in Int /\ thingRef[o] \in Int
        BY <1>1, HoldersCount DEF S!One, S!TypeOK
      <4>3. thingRef[o] = 1 + S!One(o \in checks) + Cardinality(S!Holders(o)) + releaseThings[o]
        BY <3>1, <3>4, <4>2 DEF Counted, S!One
      <4>4. thingRef'[o] = 1 + S!One(o \in checks) + Cardinality(S!Holders(o)') + releaseThings'[o]
        BY <4>1, <4>2, <4>3
      <4>5. stage'[o] = "inGame" /\ (o \in checks' <=> o \in checks)
        OBVIOUS
      <4>6. QED BY <3>2, <3>4, <4>4, <4>5 DEF Counted, S!One
    <3>5. QED BY <3>3, <3>4
  <2>2. QED BY <2>1 DEF ObjectsCounted
<1>13. OneInGame'
  BY <1>1, <1>8 DEF OneInGame
<1>14. SomebodyComes'
  <2>1. ASSUME NEW a \in (S!InGame \cap isConnecting)' PROVE \E x \in Protocols : Comes(x, a)'
    <3>1. a \in S!InGame \cap isConnecting /\ a # o /\ a \in S!Objects
      BY <1>8 DEF S!InGame
    <3>2. PICK x \in Protocols : Comes(x, a) /\ x # p
      BY <1>2, <3>1 DEF OthersCome
    <3>3. client'[a] = client[a] /\ eventConnect'[x] = eventConnect[x]
      BY <1>4, <1>5, <3>1, <3>2
    <3>4. NotAfter(queue, S!Task("close", client[a]), S!Task("connect", x)) => NotAfter(queue', S!Task("close", client[a]), S!Task("connect", x))
      BY <1>3
    <3>5. Comes(x, a)'
      BY <1>2, <3>2, <3>3, <3>4 DEF Comes
    <3>6. QED BY <3>5
  <2>2. QED BY <2>1 DEF SomebodyComes
<1>15. RoomLeft'
  <2>1. ASSUME NEW x \in LoggedIn PROVE x \in LoggedIn'
    <3>1. x \in Protocols /\ conn[x] # "accepted" /\ ~Has(queue, S!Task("login", x))
      BY DEF LoggedIn
    <3>2. ~Has(queue', S!Task("login", x))
      BY <1>3, <3>1
    <3>3. QED BY <3>1, <3>2 DEF LoggedIn
  <2>2. LoggedIn \subseteq LoggedIn'
    BY <2>1
  <2>3. QED BY <1>1, <2>2, RoomKept
<1>16. QED BY Zenon, <1>9, <1>10, <1>11, <1>12, <1>13, <1>14, <1>15 DEF SessionInv

LEMMA ConnectStep ==
    ASSUME S!SessionAssumption, SessionInv, NEW p \in Protocols, NEW o \in S!Objects, NEW q, Connecting(p, o, q),
           S!Attach(p, o, q)
    PROVE  SessionInv'
<1>1. CASE ~S!CanConnect(o)
  <2>1. /\ stage[o] # "inGame" \/ client[o] # NoPlayer
        /\ S!Disconnect(p, q) /\ UNCHANGED S!objects /\ UNCHANGED <<player, accepts>>
    BY <1>1 DEF S!Attach, S!CanConnect, S!KeepObjects
  <2>2. QED BY <2>1, ConnectFails
<1>2. CASE S!CanConnect(o)
  <2>1. /\ stage[o] = "inGame" /\ client[o] = NoPlayer
        /\ player' = [player EXCEPT ![p] = o] /\ accepts' = accepts \cup {p}
        /\ client' = [client EXCEPT ![o] = p] /\ thingRef' = [thingRef EXCEPT ![o] = @ + 1]
        /\ isConnecting' = isConnecting \ {o} /\ queue' = q
        /\ UNCHANGED <<conn, stage, checks, releaseThings>>
    BY <1>2 DEF S!Attach, S!CanConnect, S!RefAdded, S!Connected
  <2>2. QED BY <2>1, ConnectSucceeds
<1>3. QED BY <1>1, <1>2

LEMMA LoginTaken ==
    ASSUME S!TypeOK, TasksSound, ProtocolsSound, NEW p \in Protocols, S!IsNext("login", p)
    PROVE  /\ TakenBy(p, Tail(queue)) /\ conn[p] \in {"login", "request"}
           /\ player[p] = 0 /\ eventConnect[p] = 0 /\ p \notin accepts /\ p \notin events /\ protoRef[p] = 0
           /\ \A u : Has(Tail(queue), u) => Has(queue, u)
           /\ p \notin LoggedIn
<1>1. /\ Queued(queue, conn, player, eventConnect, accepts, events, p) /\ ProtocolSound(p)
  BY DEF TasksSound, QueueSound, ProtocolsSound
<1>2. PICK q : q = Tail(queue)
  OBVIOUS
<1>3. /\ q \in Seq(S!Tasks) /\ Distinct(q) /\ Has(queue, S!Task("login", p))
      /\ \A u : Has(q, u) <=> Has(queue, u) /\ u # S!Task("login", p)
      /\ \A u, v : NotAfter(queue, u, v) => NotAfter(q, u, v)
  BY <1>2, Taken
<1>4. conn[p] \in {"login", "request"} /\ Fresh(queue, player, eventConnect, accepts, events, p)
  BY <1>1, <1>3 DEF Queued
<1>5. TakenBy(p, q)
  <2>1. \A a, x : S!Task(a, x) = S!Task("login", p) <=> a = "login" /\ x = p
    BY TaskIs
  <2>2. \A a \in {"login", "logout", "connect"} : ~Has(q, S!Task(a, p))
    BY <1>3, <1>4 DEF Fresh
  <2>3. \A a, x : x # p \/ a = "close" => (Has(q, S!Task(a, x)) <=> Has(queue, S!Task(a, x)))
    BY <1>3, <2>1
  <2>4. QED BY <1>3, <2>2, <2>3 DEF TakenBy
<1>6. protoRef[p] = 0
  BY <1>1, <1>4 DEF ProtocolSound, Fresh
<1>7. p \notin LoggedIn
  BY <1>3 DEF LoggedIn
<1>8. QED BY <1>2, <1>3, <1>4, <1>5, <1>6, <1>7 DEF Fresh

LEMMA LoginReturnsStep ==
    ASSUME S!SessionAssumption, SessionInv, NEW p \in Protocols, S!LoginReturns(p) PROVE SessionInv'
<1>1. /\ S!TypeOK /\ TasksSound /\ ProtocolsSound /\ OneInGame /\ SomebodyComes
      /\ Queued(queue, conn, player, eventConnect, accepts, events, p) /\ ProtocolSound(p)
  BY DEF SessionInv, TasksSound, QueueSound, ProtocolsSound
<1>2. PICK o \in S!InGame : client[o] = NoPlayer /\ S!Connect(p, o, S!Referred(p), Tail(queue))
  BY DEF S!LoginReturns
<1>3. S!IsNext("login", p) /\ events' = events /\ before' = before
  BY DEF S!LoginReturns
<1>4. PICK q : q = Tail(queue)
  OBVIOUS
<1>5. /\ TakenBy(p, q) /\ conn[p] \in {"login", "request"}
      /\ player[p] = 0 /\ p \notin events /\ protoRef[p] = 0
  BY <1>1, <1>3, <1>4, LoginTaken
<1>6. OthersCome(p, o)
  <2>1. ASSUME NEW a \in S!InGame \cap isConnecting
        PROVE  \E x \in Protocols : Comes(x, a) /\ (x # p \/ (a = o /\ client[o] = NoPlayer))
    <3>1. a = o
      BY <1>1 DEF OneInGame
    <3>2. QED BY <1>1, <1>2, <3>1 DEF SomebodyComes
  <2>2. QED BY <2>1 DEF OthersCome
<1>7. /\ protoRef' = [protoRef EXCEPT ![p] = 0] /\ eventConnect' = [eventConnect EXCEPT ![p] = 0]
      /\ S!Attach(p, o, q)
  BY <1>2, <1>4, <1>5 DEF S!Connect, S!Referred
<1>8. Connecting(p, o, q)
  BY <1>3, <1>5, <1>6, <1>7 DEF Connecting
<1>9. o \in S!Objects
  BY DEF S!InGame
<1>10. QED BY <1>7, <1>8, <1>9, ConnectStep

LEMMA ConnectLaterStep ==
    ASSUME S!SessionAssumption, SessionInv, NEW p \in Protocols, S!ConnectLater(p) PROVE SessionInv'
<1>1. /\ S!TypeOK /\ TasksSound /\ ProtocolsSound /\ ObjectsCounted /\ SomebodyComes
      /\ Queued(queue, conn, player, eventConnect, accepts, events, p) /\ ProtocolSound(p)
  BY DEF SessionInv, TasksSound, QueueSound, ProtocolsSound
<1>2. S!IsNext("connect", p) /\ events' = events /\ before' = before
  BY DEF S!ConnectLater
<1>3. PICK q : q = Tail(queue)
  OBVIOUS
<1>4. /\ q \in Seq(S!Tasks) /\ Distinct(q) /\ Has(queue, S!Task("connect", p))
      /\ \A u : Has(q, u) <=> Has(queue, u) /\ u # S!Task("connect", p)
      /\ \A u, v : NotAfter(queue, u, v) => NotAfter(q, u, v)
      /\ \A u : NotAfter(queue, u, S!Task("connect", p)) => ~Has(queue, u)
  BY <1>1, <1>2, <1>3, Taken
<1>5. /\ eventConnect[p] # 0 /\ p \notin events /\ player[p] = 0 /\ conn[p] # "deleted" /\ protoRef[p] = 1
  BY <1>1, <1>4 DEF Queued, ProtocolSound
<1>6. conn[p] # "accepted" /\ ~Has(queue, S!Task("login", p)) /\ ~Has(queue, S!Task("logout", p))
  BY <1>1, <1>5 DEF Queued, Fresh
<1>7. PICK o \in S!Objects : o = eventConnect[p]
  BY <1>1, <1>5 DEF S!TypeOK
<1>8. TakenBy(p, q)
  <2>1. \A a, x : S!Task(a, x) = S!Task("connect", p) <=> a = "connect" /\ x = p
    BY TaskIs
  <2>2. \A a \in {"login", "logout", "connect"} : ~Has(q, S!Task(a, p))
    BY <1>4, <1>6
  <2>3. \A a, x : x # p \/ a = "close" => (Has(q, S!Task(a, x)) <=> Has(queue, S!Task(a, x)))
    BY <1>4, <2>1
  <2>4. QED BY <1>4, <2>2, <2>3 DEF TakenBy
<1>9. OthersCome(p, o)
  <2>1. ASSUME NEW a \in S!InGame \cap isConnecting
        PROVE  \E x \in Protocols : Comes(x, a) /\ (x # p \/ (a = o /\ client[o] = NoPlayer))
    <3>1. PICK x \in Protocols : Comes(x, a)
      BY <1>1 DEF SomebodyComes
    <3>2. CASE x # p
      BY <3>1, <3>2
    <3>3. CASE x = p
      <4>1. a = o
        BY <1>7, <3>1, <3>3 DEF Comes
      <4>2. CASE client[o] = NoPlayer
        BY <3>1, <3>3, <4>1, <4>2
      <4>3. CASE client[o] # NoPlayer
        <5>1. client[o] \in Protocols
          BY <1>1, <4>3 DEF S!TypeOK
        <5>2. /\ conn[client[o]] = "request"
              /\ NotAfter(queue, S!Task("close", client[o]), S!Task("connect", p))
          BY <1>5, <3>1, <3>3, <4>1, <4>3 DEF Comes
        <5>3. ~Has(queue, S!Task("close", client[o]))
          BY <1>4, <5>2
        <5>4. QED BY <1>1, <5>1, <5>2, <5>3 DEF TasksSound, QueueSound, Queued
      <4>4. QED BY <4>2, <4>3
    <3>4. QED BY <3>2, <3>3
  <2>2. QED BY <2>1 DEF OthersCome
<1>10. /\ protoRef' = [protoRef EXCEPT ![p] = 0] /\ eventConnect' = [eventConnect EXCEPT ![p] = 0]
       /\ S!Attach(p, o, q)
  BY <1>3, <1>5, <1>7 DEF S!ConnectLater, S!Connect
<1>11. Connecting(p, o, q)
  BY <1>2, <1>5, <1>6, <1>8, <1>9, <1>10 DEF Connecting
<1>12. QED BY <1>10, <1>11, ConnectStep

-----------------------------------------------------------------------------
(* Logging in, in another's place or with a new object                     *)

LEMMA LoginReplacesStep ==
    ASSUME S!SessionAssumption, SessionInv, NEW p \in Protocols, S!LoginReplaces(p) PROVE SessionInv'
<1>1. /\ S!TypeOK /\ TasksSound /\ ProtocolsSound /\ ObjectsCounted /\ OneInGame /\ SomebodyComes /\ RoomLeft
      /\ conn \in ConnType /\ Queued(queue, conn, player, eventConnect, accepts, events, p)
  BY DEF SessionInv, TasksSound, QueueSound, S!TypeOK, ConnType
<1>2. S!IsNext("login", p) /\ UNCHANGED <<player, accepts>>
  BY DEF S!LoginReplaces
<1>3. PICK q : q = Tail(queue)
  OBVIOUS
<1>4. /\ TakenBy(p, q) /\ conn[p] \in {"login", "request"}
      /\ player[p] = 0 /\ eventConnect[p] = 0 /\ p \notin accepts /\ p \notin events /\ protoRef[p] = 0
      /\ \A u : Has(q, u) => Has(queue, u)
  BY <1>1, <1>2, <1>3, LoginTaken
<1>5. /\ q \in Seq(S!Tasks) /\ Distinct(q)
      /\ \A a \in {"login", "logout", "connect"} : ~Has(q, S!Task(a, p))
      /\ \A a, x : x # p \/ a = "close" => (Has(q, S!Task(a, x)) <=> Has(queue, S!Task(a, x)))
      /\ \A u, v : NotAfter(queue, u, v) => NotAfter(q, u, v)
  BY <1>4 DEF TakenBy
<1>6. PICK o \in S!InGame :
        /\ client[o] # NoPlayer
        /\ \/ /\ eventConnect[p] # 0 \/ ~ReplaceKick
              /\ S!Disconnect(p, Tail(queue)) /\ S!KeepObjects
              /\ UNCHANGED <<protoRef, eventConnect, events, before>>
           \/ /\ eventConnect[p] = 0 /\ ReplaceKick
              /\ S!Disconnect(client[o], Tail(queue))
              /\ isConnecting' = isConnecting \cup {o}
              /\ protoRef' = [protoRef EXCEPT ![p] = S!Referred(p)]
              /\ eventConnect' = [eventConnect EXCEPT ![p] = o]
              /\ events' = events \cup {p}
              /\ before' = [before EXCEPT ![p] = {x \in Protocols : conn[x] = "releasing"}]
              /\ UNCHANGED <<stage, thingRef, client, checks, releaseThings>>
  BY DEF S!LoginReplaces
<1>7. CASE S!Disconnect(p, q) /\ UNCHANGED S!objects /\ UNCHANGED <<protoRef, eventConnect, events, before>>
  <2>1. ASSUME NEW x \in Protocols PROVE Queued(q, conn, player, eventConnect, accepts, events, x)
    <3>1. CASE x # p
      BY <1>4, <3>1, QueuedOthers DEF Queued, Fresh
    <3>2. CASE x = p
      BY <1>1, <1>4, <1>5, <3>2 DEF Queued
    <3>3. QED BY <3>1, <3>2
  <2>2. QueueSound(q, conn, player, eventConnect, accepts, events)
    BY <1>5, <2>1 DEF QueueSound
  <2>3. /\ queue' \in Seq(S!Tasks) /\ conn' \in ConnType /\ ConnMoves /\ LoginsTaken /\ OrderKept
        /\ QueueSound(queue', conn', player, eventConnect, accepts, events)
    BY <1>1, <1>4, <1>5, <1>7, <2>2, DisconnectMoves
  <2>4. SomebodyComes'
    BY <1>1, <1>7, <2>3, ComesKept DEF S!objects, S!InGame
  <2>5. events' = events /\ events' \subseteq events
    BY <1>7
  <2>6. QED BY <1>2, <1>7, <2>3, <2>4, <2>5, QuietStep
<1>8. CASE /\ S!Disconnect(client[o], q) /\ isConnecting' = isConnecting \cup {o}
           /\ protoRef' = [protoRef EXCEPT ![p] = 1]
           /\ eventConnect' = [eventConnect EXCEPT ![p] = o] /\ events' = events \cup {p}
           /\ before' = [before EXCEPT ![p] = {x \in Protocols : conn[x] = "releasing"}]
           /\ UNCHANGED <<stage, thingRef, client, checks, releaseThings>>
  <2>1. /\ o \in S!Objects /\ o # 0 /\ stage[o] = "inGame"
    BY ObjectsAre DEF S!InGame
  <2>2. PICK c \in Protocols : c = client[o]
    BY <1>1, <1>6, <2>1 DEF S!TypeOK
  <2>3. player[c] = o /\ conn[c] # "deleted"
    BY <1>1, <1>6, <2>1, <2>2 DEF ObjectsCounted, Counted, ProtocolsSound, ProtocolSound
  <2>4. /\ eventConnect' \in [Protocols -> S!Objects \cup {0}] /\ protoRef' \in [Protocols -> 0..1]
        /\ eventConnect'[p] = o /\ protoRef'[p] = 1
        /\ \A x \in Protocols \ {p} : eventConnect'[x] = eventConnect[x] /\ protoRef'[x] = protoRef[x]
        /\ before' \in [Protocols -> SUBSET Protocols] /\ before'[p] = {x \in Protocols : conn[x] = "releasing"}
    BY <1>1, <1>8, <2>1 DEF S!TypeOK
  <2>5. ASSUME NEW x \in Protocols PROVE Queued(q, conn, player, eventConnect', accepts, events', x)
    <3>1. CASE x # p
      <4>1. x \in events' <=> x \in events
        BY <1>8, <3>1
      <4>2. QED BY <1>4, <2>4, <3>1, <4>1, QueuedOthers DEF Queued, Fresh
    <3>2. CASE x = p
      BY <1>1, <1>4, <1>5, <2>1, <2>4, <3>2 DEF Queued
    <3>3. QED BY <3>1, <3>2
  <2>6. QueueSound(q, conn, player, eventConnect', accepts, events')
    BY <1>5, <2>5 DEF QueueSound
  <2>7. S!Disconnect(c, q)
    BY <1>8, <2>2
  <2>8. /\ queue' \in Seq(S!Tasks) /\ conn' \in ConnType
        /\ QueueSound(queue', conn', player, eventConnect', accepts, events')
        /\ conn'[c] \notin S!Open
        /\ \A x \in Protocols : \/ conn'[x] = conn[x]
                                \/ x = c /\ conn[x] \in S!Open /\ conn'[x] = "request"
        /\ \A x, op : op # "close" => (Has(queue', S!Task(op, x)) <=> Has(q, S!Task(op, x)))
    BY <1>1, <1>5, <2>6, <2>7, Disconnected, Zenon
  <2>9. S!TypeOK'
    BY <1>1, <1>2, <1>8, <2>1, <2>4, <2>8 DEF S!TypeOK, ConnType
  <2>10. TasksSound'
    BY <1>2, <2>8 DEF TasksSound
  <2>11. ProtocolsSound'
    <3>1. ASSUME NEW x \in Protocols PROVE ProtocolSound(x)'
      <4>1. ProtocolSound(x)
        BY <1>1 DEF ProtocolsSound
      <4>2. conn'[x] = conn[x] \/ (conn[x] \in S!Open /\ conn'[x] = "request")
        BY <2>8
      <4>3. CASE x # p
        BY <1>2, <1>8, <2>4, <4>1, <4>2, <4>3 DEF ProtocolSound
      <4>4. CASE x = p
        <5>1. conn'[x] # "deleted" /\ player'[x] = 0
          BY <1>2, <1>4, <4>2, <4>4
        <5>2. QED BY <2>1, <2>4, <4>4, <5>1 DEF ProtocolSound
      <4>5. QED BY <4>3, <4>4
    <3>2. QED BY <3>1 DEF ProtocolsSound
  <2>12. ObjectsCounted' /\ OneInGame'
    <3>1. ASSUME NEW a \in S!Objects PROVE Counted(a)'
      <4>1. Counted(a) /\ S!Holders(a)' = S!Holders(a)
        BY <1>1, <1>2 DEF ObjectsCounted, S!Holders
      <4>2. stage[a] = "none" => a # o
        BY <2>1
      <4>3. QED BY <1>2, <1>8, <4>1, <4>2 DEF Counted
    <3>2. OneInGame'
      BY <1>1, <1>8 DEF OneInGame, S!InGame
    <3>3. QED BY <3>1, <3>2 DEF ObjectsCounted
  <2>13. SomebodyComes'
    <3>1. ASSUME NEW a \in (S!InGame \cap isConnecting)' PROVE Comes(p, a)'
      <4>1. a = o
        BY <1>1, <1>8 DEF OneInGame, S!InGame
      <4>2. client'[o] = c
        BY <1>8, <2>2
      <4>3. conn'[c] \in {"request", "releasing"}
        BY <2>3, <2>8 DEF S!Open, ConnType
      <4>4. CASE conn'[c] = "request"
        <5>1. ~Has(queue', S!Task("connect", p))
          BY <1>5, <2>8
        <5>2. NotAfter(queue', S!Task("close", c), S!Task("connect", p))
          BY <5>1 DEF NotAfter, Has
        <5>3. QED BY <2>4, <4>1, <4>2, <4>4, <5>2 DEF Comes
      <4>5. CASE conn'[c] = "releasing"
        <5>1. conn[c] = "releasing"
          BY <2>8, <4>5
        <5>2. c \in before'[p] /\ p \in events'
          BY <1>8, <2>4, <5>1
        <5>3. QED BY <2>4, <4>1, <4>2, <4>5, <5>2 DEF Comes
      <4>6. QED BY <4>3, <4>4, <4>5
    <3>2. QED BY <3>1 DEF SomebodyComes
  <2>14. RoomLeft'
    <3>1. ASSUME NEW x \in LoggedIn PROVE x \in LoggedIn'
      <4>1. x \in Protocols /\ conn[x] # "accepted" /\ ~Has(queue, S!Task("login", x))
        BY DEF LoggedIn
      <4>2. ~Has(queue', S!Task("login", x))
        BY <1>4, <2>8, <4>1
      <4>3. conn'[x] # "accepted"
        BY <2>8, <4>1
      <4>4. QED BY <4>1, <4>2, <4>3 DEF LoggedIn
    <3>2. LoggedIn \subseteq LoggedIn'
      BY <3>1
    <3>3. QED BY <1>1, <1>8, <3>2, RoomKept
  <2>15. QED BY Zenon, <2>9, <2>10, <2>11, <2>12, <2>13, <2>14 DEF SessionInv
<1>9. S!Referred(p) = 1
  BY <1>4 DEF S!Referred
<1>10. QED BY <1>3, <1>6, <1>7, <1>8, <1>9 DEF S!KeepObjects

\* There is an object left for who logs in, and it is the next.
LEMMA NextObjectIs ==
    ASSUME S!SessionAssumption, RoomLeft, NEW p \in Protocols, p \notin LoggedIn
    PROVE  /\ S!NextObject \in S!Objects /\ stage[S!NextObject] = "none"
           /\ S!NextObject \in 0..(Cardinality(LoggedIn) + 1)
           /\ \A o \in S!Objects : stage[o] # "none" <=> o <= S!NextObject - 1
<1>1. PICK k \in 0..Cardinality(LoggedIn) : \A o \in S!Objects : stage[o] # "none" <=> o <= k
  BY DEF RoomLeft
<1>2. IsFiniteSet(Protocols) /\ LoggedIn \subseteq Protocols /\ LoggedIn # Protocols
  BY ProtocolsFinite DEF LoggedIn
<1>3. /\ Cardinality(LoggedIn) \in Nat /\ Cardinality(Protocols) \in Nat
      /\ Cardinality(LoggedIn) < Cardinality(Protocols)
  <2>1. /\ IsFiniteSet(LoggedIn) /\ Cardinality(LoggedIn) <= Cardinality(Protocols)
        /\ Cardinality(LoggedIn) # Cardinality(Protocols)
    BY <1>2, FS_Subset
  <2>2. Cardinality(LoggedIn) \in Nat /\ Cardinality(Protocols) \in Nat
    BY <1>2, <2>1, FS_CardinalityType
  <2>3. QED BY <2>1, <2>2
<1>4. S!Objects = 1..Cardinality(Protocols)
  BY ProtocolsFinite
<1>5. k + 1 \in S!Objects /\ k \in Nat
  BY <1>1, <1>3, <1>4
<1>6. stage[k + 1] = "none" /\ \A b \in 1..((k + 1) - 1) : stage[b] # "none"
  BY <1>1, <1>3, <1>4, <1>5
<1>7. S!NextObject \in S!Objects /\ stage[S!NextObject] = "none" /\ \A b \in 1..(S!NextObject - 1) : stage[b] # "none"
  BY <1>5, <1>6 DEF S!NextObject
<1>8. PICK n : n = S!NextObject
  OBVIOUS
<1>9. n = k + 1
  <2>1. n \in Nat /\ ~(n <= k)
    BY <1>1, <1>4, <1>7, <1>8
  <2>2. k + 1 \notin 1..(n - 1)
    BY <1>6, <1>7, <1>8
  <2>3. QED BY <1>5, <2>1, <2>2
<1>10. \A o \in S!Objects : stage[o] # "none" <=> o <= n - 1
  BY <1>1, <1>5, <1>9
<1>11. n \in 0..(Cardinality(LoggedIn) + 1)
  BY <1>1, <1>3, <1>9
<1>12. QED BY <1>7, <1>8, <1>10, <1>11

LEMMA Untouched ==
    ASSUME S!SessionAssumption, S!TypeOK, ObjectsCounted, NEW n \in S!Objects, stage[n] = "none"
    PROVE  n \notin checks /\ S!Holders(n) = {} /\ releaseThings[n] = 0 /\ n \notin isConnecting
<1>1. /\ thingRef[n] = S!One(stage[n] = "inGame") + S!One(n \in checks) + Cardinality(S!Holders(n)) + releaseThings[n]
      /\ thingRef[n] = 0 /\ n \notin isConnecting
  BY DEF ObjectsCounted, Counted
<1>2. /\ releaseThings[n] \in Nat /\ Cardinality(S!Holders(n)) \in Nat
      /\ Cardinality(S!Holders(n)) = 0 <=> S!Holders(n) = {}
  BY HoldersCount DEF S!TypeOK
<1>3. S!One(stage[n] = "inGame") = 0
  BY DEF S!One
<1>4. S!One(n \in checks) \in Nat /\ (n \in checks => S!One(n \in checks) = 1)
  BY DEF S!One
<1>5. PICK c, h, r \in Nat :
         c = S!One(n \in checks) /\ h = Cardinality(S!Holders(n)) /\ r = releaseThings[n]
  BY <1>2, <1>4
<1>6. 0 = 0 + c + h + r
  BY <1>1, <1>3, <1>5
<1>7. c = 0 /\ h = 0 /\ r = 0
  <2>1. c \in Nat /\ h \in Nat /\ r \in Nat /\ c + h + r = 0
    BY <1>6
  <2>2. c + (h + r) = 0 /\ h + r >= 0
    BY <2>1
  <2>3. c = 0 /\ h + r = 0
    BY <2>1, <2>2
  <2>4. QED BY <2>1, <2>3
<1>8. QED BY <1>1, <1>2, <1>4, <1>5, <1>7

\* Whoever logs in, with the new object n, whether or not it gets into the game.
LEMMA NewcomerStep ==
    ASSUME S!SessionAssumption, SessionInv, NEW p \in Protocols, NEW n \in S!Objects, NEW q, NEW s, NEW k \in Nat, NEW r \in Nat,
           TakenBy(p, q), conn[p] \in {"login", "request"},
           player[p] = 0, eventConnect[p] = 0, p \notin events, p \notin LoggedIn,
           S!InGame = {}, stage[n] = "none", n \in 0..(Cardinality(LoggedIn) + 1),
           \A o \in S!Objects : stage[o] # "none" <=> o <= n - 1,
           player' = [player EXCEPT ![p] = n], client' = [client EXCEPT ![n] = p],
           UNCHANGED <<protoRef, eventConnect, events, before, isConnecting>>,
           s \in {"made", "inGame", "removed"}, stage' = [stage EXCEPT ![n] = s],
           \/ accepts' = accepts /\ p \notin accepts
           \/ accepts' = accepts \cup {p} /\ s # "made",
           thingRef' = [thingRef EXCEPT ![n] = k], releaseThings' = [releaseThings EXCEPT ![n] = r],
           checks' \subseteq S!Objects, \A o \in S!Objects \ {n} : o \in checks' <=> o \in checks,
           k = S!One(s = "inGame") + S!One(n \in checks') + 1 + r,
           \/ S!Disconnect(p, q)
           \/ queue' = q /\ conn' = conn
    PROVE  SessionInv'
<1>1. /\ S!TypeOK /\ TasksSound /\ ProtocolsSound /\ ObjectsCounted /\ RoomLeft
      /\ conn \in ConnType /\ Queued(queue, conn, player, eventConnect, accepts, events, p)
  BY DEF SessionInv, TasksSound, QueueSound, S!TypeOK, ConnType
<1>2. /\ q \in Seq(S!Tasks) /\ Distinct(q)
      /\ \A a \in {"login", "logout", "connect"} : ~Has(q, S!Task(a, p))
      /\ \A a, x : x # p \/ a = "close" => (Has(q, S!Task(a, x)) <=> Has(queue, S!Task(a, x)))
      /\ \A u, v : NotAfter(queue, u, v) => NotAfter(q, u, v)
  BY DEF TakenBy
<1>3. n # 0 /\ n \in Nat /\ p # NoPlayer
  BY ObjectsAre
<1>4. /\ player' \in [Protocols -> S!Objects \cup {0}] /\ player'[p] = n
      /\ \A x \in Protocols \ {p} : player'[x] = player[x]
      /\ client' \in [S!Objects -> Protocols \cup {NoPlayer}] /\ client'[n] = p
      /\ \A a \in S!Objects \ {n} : client'[a] = client[a]
  BY <1>1 DEF S!TypeOK
<1>5. /\ stage' \in [S!Objects -> {"none", "made", "inGame", "removed", "deleted"}] /\ stage'[n] = s
      /\ thingRef' \in [S!Objects -> Nat] /\ thingRef'[n] = k
      /\ releaseThings' \in [S!Objects -> Nat] /\ releaseThings'[n] = r
      /\ \A a \in S!Objects \ {n} :
           stage'[a] = stage[a] /\ thingRef'[a] = thingRef[a] /\ releaseThings'[a] = releaseThings[a]
  BY <1>1 DEF S!TypeOK
<1>6. S!Holders(n) = {} /\ n \notin isConnecting
  BY <1>1, Untouched
<1>7. QueueSound(q, conn, player', eventConnect, accepts', events)
  <2>1. ASSUME NEW x \in Protocols PROVE Queued(q, conn, player', eventConnect, accepts', events, x)
    <3>1. CASE x # p
      <4>1. player'[x] = player[x] /\ (x \in accepts' <=> x \in accepts)
        BY <1>4, <3>1
      <4>2. QED BY <3>1, <4>1, QueuedOthers DEF Queued, Fresh
    <3>2. CASE x = p
      BY <1>1, <1>2, <3>2 DEF Queued
    <3>3. QED BY <3>1, <3>2
  <2>2. QED BY <1>2, <2>1 DEF QueueSound
<1>8. /\ queue' \in Seq(S!Tasks) /\ conn' \in ConnType
      /\ QueueSound(queue', conn', player', eventConnect, accepts', events)
      /\ \A x \in Protocols : \/ conn'[x] = conn[x]
                              \/ x = p /\ conn[x] \in S!Open /\ conn'[x] = "request"
      /\ \A x, op : op # "close" => (Has(queue', S!Task(op, x)) <=> Has(q, S!Task(op, x)))
  <2>1. CASE S!Disconnect(p, q)
    BY <1>1, <1>2, <1>7, <2>1, Disconnected, Zenon
  <2>2. CASE queue' = q /\ conn' = conn
    BY <1>1, <1>2, <1>7, <2>2
  <2>3. QED BY <2>1, <2>2
<1>9. S!TypeOK'
  BY <1>1, <1>4, <1>5, <1>8 DEF S!TypeOK, ConnType
<1>10. TasksSound'
  BY <1>8 DEF TasksSound
<1>11. ProtocolsSound'
  <2>1. ASSUME NEW x \in Protocols PROVE ProtocolSound(x)'
    <3>1. ProtocolSound(x) /\ player[x] \in S!Objects \cup {0}
      BY <1>1 DEF ProtocolsSound, S!TypeOK
    <3>2. conn'[x] = conn[x] \/ (conn[x] \in S!Open /\ conn'[x] = "request")
      BY <1>8
    <3>3. CASE x # p
      <4>1. player'[x] = player[x] /\ player[x] # n /\ (x \in accepts' <=> x \in accepts)
        BY <1>4, <1>6, <3>3 DEF S!Holders
      <4>2. player[x] # 0 => client'[player[x]] = client[player[x]] /\ stage'[player[x]] = stage[player[x]]
        BY <1>4, <1>5, <3>1, <4>1
      <4>3. QED BY <3>1, <3>2, <4>1, <4>2 DEF ProtocolSound
    <3>4. CASE x = p
      <4>1. conn'[p] # "deleted"
        BY <3>2, <3>4
      <4>2. p \in accepts' => s \in {"inGame", "removed"}
        OBVIOUS
      <4>3. QED BY <1>3, <1>4, <1>5, <3>1, <3>4, <4>1, <4>2 DEF ProtocolSound
    <3>5. QED BY <3>3, <3>4
  <2>2. QED BY <2>1 DEF ProtocolsSound
<1>12. ObjectsCounted'
  <2>1. ASSUME NEW a \in S!Objects PROVE Counted(a)'
    <3>1. Counted(a)
      BY <1>1 DEF ObjectsCounted
    <3>2. CASE a # n
      <4>1. S!Holders(a)' = S!Holders(a)
        BY <1>1, <3>2, OneMore
      <4>2. client[a] # NoPlayer => player'[client[a]] = a
        <5>1. client[a] # NoPlayer => client[a] \in Protocols /\ client[a] # p
          BY <1>1, <3>1, ObjectsAre DEF S!TypeOK, Counted
        <5>2. QED BY <1>4, <3>1, <5>1 DEF Counted
      <4>3. client'[a] = client[a] /\ stage'[a] = stage[a] /\ thingRef'[a] = thingRef[a] /\ releaseThings'[a] = releaseThings[a]
        BY <1>4, <1>5, <3>2
      <4>4. a \in checks' <=> a \in checks
        BY <3>2
      <4>5. QED BY <3>1, <4>1, <4>2, <4>3, <4>4 DEF Counted, S!One
    <3>3. CASE a = n
      <4>1. Cardinality(S!Holders(n)') = 1
        <5>1. Cardinality(S!Holders(n)') = Cardinality(S!Holders(n)) + 1
          BY <1>1, OneMore
        <5>2. QED BY <1>6, <5>1, FS_EmptySet
      <4>2. S!One(s = "inGame") \in Nat /\ S!One(n \in checks') \in Nat
        BY DEF S!One
      <4>3. thingRef'[n] = S!One(stage'[n] = "inGame") + S!One(n \in checks') + Cardinality(S!Holders(n)') + releaseThings'[n]
        BY <1>5, <4>1, <4>2
      <4>4. QED BY <1>4, <1>5, <3>3, <4>3 DEF Counted
    <3>4. QED BY <3>2, <3>3
  <2>2. QED BY <2>1 DEF ObjectsCounted
<1>13. S!InGame' \subseteq {n}
  BY <1>5 DEF S!InGame
<1>14. OneInGame' /\ SomebodyComes'
  BY <1>6, <1>13 DEF OneInGame, SomebodyComes
<1>15. RoomLeft'
  <2>1. LoggedIn \cup {p} \subseteq LoggedIn'
    <3>1. ASSUME NEW x \in LoggedIn PROVE x \in LoggedIn'
      <4>1. x \in Protocols /\ conn[x] # "accepted" /\ ~Has(queue, S!Task("login", x)) /\ x # p
        BY DEF LoggedIn
      <4>2. ~Has(queue', S!Task("login", x))
        BY <1>2, <1>8, <4>1
      <4>3. conn'[x] # "accepted"
        BY <1>8, <4>1
      <4>4. QED BY <4>1, <4>2, <4>3 DEF LoggedIn
    <3>2. p \in LoggedIn'
      BY <1>2, <1>8 DEF LoggedIn
    <3>3. QED BY <3>1, <3>2
  <2>2. IsFiniteSet(LoggedIn') /\ IsFiniteSet(LoggedIn)
    BY FS_Subset, ProtocolsFinite DEF LoggedIn
  <2>3. IsFiniteSet(LoggedIn \cup {p}) /\ Cardinality(LoggedIn \cup {p}) = Cardinality(LoggedIn) + 1
    BY <2>2, FS_AddElement
  <2>4. Cardinality(LoggedIn \cup {p}) <= Cardinality(LoggedIn')
    BY <2>1, <2>2, FS_Subset
  <2>5. Cardinality(LoggedIn) \in Nat /\ Cardinality(LoggedIn') \in Nat
    BY <2>2, FS_CardinalityType
  <2>6. n \in 0..Cardinality(LoggedIn')
    BY <2>3, <2>4, <2>5
  <2>7. \A o \in S!Objects : stage'[o] # "none" <=> o <= n
    <3>1. ASSUME NEW o \in S!Objects PROVE stage'[o] # "none" <=> o <= n
      <4>1. o \in Nat
        BY ObjectsAre
      <4>2. CASE o = n
        BY <1>5, <4>1, <4>2
      <4>3. CASE o # n
        <5>1. stage'[o] = stage[o] /\ (o <= n <=> o <= n - 1)
          BY <1>3, <1>5, <4>1, <4>3
        <5>2. QED BY <5>1
      <4>4. QED BY <4>2, <4>3
    <3>2. QED BY <3>1
  <2>8. QED BY <2>6, <2>7 DEF RoomLeft
<1>16. QED BY Zenon, <1>9, <1>10, <1>11, <1>12, <1>14, <1>15 DEF SessionInv

LEMMA LoginNewStep ==
    ASSUME S!SessionAssumption, SessionInv, NEW p \in Protocols, S!LoginNew(p) PROVE SessionInv'
<1>1. S!TypeOK /\ TasksSound /\ ProtocolsSound /\ ObjectsCounted /\ RoomLeft
  BY DEF SessionInv
<1>2. S!IsNext("login", p) /\ S!InGame = {}
  BY DEF S!LoginNew
<1>3. PICK q : q = Tail(queue)
  OBVIOUS
<1>4. /\ TakenBy(p, q) /\ conn[p] \in {"login", "request"}
      /\ player[p] = 0 /\ eventConnect[p] = 0 /\ p \notin accepts /\ p \notin events /\ p \notin LoggedIn
  BY <1>1, <1>2, <1>3, LoginTaken
<1>5. PICK n \in S!Objects : n = S!NextObject
  BY <1>1, <1>4, NextObjectIs
<1>6. /\ stage[n] = "none" /\ n \in 0..(Cardinality(LoggedIn) + 1)
      /\ \A o \in S!Objects : stage[o] # "none" <=> o <= n - 1
  BY <1>1, <1>4, <1>5, NextObjectIs
<1>7. /\ player' = [player EXCEPT ![p] = n] /\ client' = [client EXCEPT ![n] = p]
      /\ UNCHANGED <<protoRef, eventConnect, events, before, isConnecting>>
      /\ S!EnterRefused(p, n) \/ S!EnterGame(p, n)
  BY <1>5 DEF S!LoginNew
<1>8. n \notin checks /\ releaseThings[n] = 0 /\ releaseThings \in [S!Objects -> Nat] /\ checks \subseteq S!Objects
  BY <1>1, <1>6, Untouched DEF S!TypeOK
<1>9. releaseThings = [releaseThings EXCEPT ![n] = 0]
  BY <1>8
<1>10. CASE S!EnterRefused(p, n)
  <2>1. /\ stage' = [stage EXCEPT ![n] = "made"] /\ thingRef' = [thingRef EXCEPT ![n] = 1]
        /\ S!Disconnect(p, q) /\ accepts' = accepts
        /\ checks' = checks /\ releaseThings' = [releaseThings EXCEPT ![n] = 0]
    BY <1>3, <1>9, <1>10 DEF S!EnterRefused
  <2>2. 1 = S!One("made" = "inGame") + S!One(n \in checks') + 1 + 0
    BY <1>8, <2>1 DEF S!One
  <2>3. QED BY <1>2, <1>4, <1>6, <1>7, <1>8, <2>1, <2>2, NewcomerStep
<1>11. CASE S!EnterGame(p, n)
  <2>1. /\ thingRef' = [thingRef EXCEPT ![n] = 3] /\ checks' = checks \cup {n}
        /\ accepts' = accepts \cup {p} /\ checks' \subseteq S!Objects
        /\ \A o \in S!Objects \ {n} : o \in checks' <=> o \in checks
    BY <1>8, <1>11 DEF S!EnterGame
  <2>2. CASE stage' = [stage EXCEPT ![n] = "inGame"] /\ queue' = q /\ UNCHANGED <<conn, releaseThings>>
    <3>1. releaseThings' = [releaseThings EXCEPT ![n] = 0] /\ conn' = conn
      BY <1>9, <2>2
    <3>2. 3 = S!One("inGame" = "inGame") + S!One(n \in checks') + 1 + 0
      BY <2>1 DEF S!One
    <3>3. QED BY <1>2, <1>4, <1>6, <1>7, <2>1, <2>2, <3>1, <3>2, NewcomerStep
  <2>3. CASE S!RemoveCreature(n) /\ S!Disconnect(p, q)
    <3>1. stage' = [stage EXCEPT ![n] = "removed"] /\ releaseThings' = [releaseThings EXCEPT ![n] = 1]
      BY <1>8, <2>3 DEF S!RemoveCreature
    <3>2. 3 = S!One("removed" = "inGame") + S!One(n \in checks') + 1 + 1
      BY <2>1 DEF S!One
    <3>3. QED BY <1>2, <1>4, <1>6, <1>7, <2>1, <2>3, <3>1, <3>2, NewcomerStep
  <2>4. QED BY <1>3, <1>11, <2>2, <2>3 DEF S!EnterGame
<1>12. QED BY <1>7, <1>10, <1>11

-----------------------------------------------------------------------------
(* All of it                                                               *)

LEMMA SessionInvInit ==
    ASSUME S!SessionAssumption, S!Init PROVE SessionInv
<1>1. S!TypeOK
  BY ObjectsAre DEF S!Init, S!TypeOK, S!Open
<1>2. /\ queue = <<>> /\ Len(queue) = 0 /\ \A t : ~Has(queue, t)
  BY DEF S!Init, Has
<1>3. Distinct(queue) /\ \A t, u : NotAfter(queue, t, u)
  BY <1>2 DEF Distinct, NotAfter
<1>4. TasksSound
  BY <1>2, <1>3 DEF S!Init, TasksSound, QueueSound, Queued, Fresh
<1>5. ProtocolsSound
  BY DEF S!Init, ProtocolsSound, ProtocolSound
<1>6. ObjectsCounted
  <2>1. ASSUME NEW o \in S!Objects PROVE Counted(o)
    <3>1. S!Holders(o) = {}
      BY ObjectsAre DEF S!Init, S!Holders
    <3>2. Cardinality(S!Holders(o)) = 0
      BY <3>1, FS_EmptySet
    <3>3. /\ stage[o] = "none" /\ thingRef[o] = 0 /\ client[o] = NoPlayer /\ releaseThings[o] = 0
          /\ o \notin checks /\ o \notin isConnecting
      BY DEF S!Init
    <3>4. QED BY <3>2, <3>3 DEF Counted, S!One
  <2>2. QED BY <2>1 DEF ObjectsCounted
<1>7. OneInGame /\ SomebodyComes
  BY DEF S!Init, OneInGame, SomebodyComes, S!InGame
<1>8. RoomLeft
  <2>1. IsFiniteSet(LoggedIn)
    BY FS_Subset, ProtocolsFinite DEF LoggedIn
  <2>2. Cardinality(LoggedIn) \in Nat
    BY <2>1, FS_CardinalityType
  <2>3. \A o \in S!Objects : stage[o] # "none" <=> o <= 0
    BY ObjectsAre DEF S!Init
  <2>4. QED BY <2>2, <2>3 DEF RoomLeft
<1>9. QED BY <1>1, <1>4, <1>5, <1>6, <1>7, <1>8 DEF SessionInv

LEMMA SessionInvNext ==
    ASSUME S!SessionAssumption, SessionInv, [S!Next]_(S!vars) PROVE SessionInv'
<1>1. CASE S!Next
  <2>1. ASSUME NEW p \in Protocols, S!TaskOf(p) PROVE SessionInv'
    BY <2>1, LoginNewStep, LoginReplacesStep, LoginReturnsStep, ConnectLaterStep, LogoutStep,
       CloseConnectionStep DEF S!TaskOf
  <2>2. ASSUME NEW p \in Protocols,
               \/ S!FirstPacket(p) \/ S!LogoutPacket(p) \/ S!LoseConnection(p)
               \/ S!TaskOf(p) \/ S!Fire(p) \/ S!ReleaseAgain(p)
        PROVE  SessionInv'
    BY <2>1, <2>2, FirstPacketStep, LogoutPacketStep, LoseConnectionStep, FireStep, ReleaseAgainStep
  <2>3. ASSUME NEW o \in S!Objects, S!Think(o) \/ S!Kick(o) \/ S!Die(o) \/ S!DropCheck(o) PROVE SessionInv'
    BY <2>3, KickStep, DieStep, DropCheckStep DEF S!Think
  <2>4. QED BY <1>1, <2>2, <2>3, CleanupStep DEF S!Next
<1>2. CASE UNCHANGED S!vars
  <2>1. /\ S!TypeOK /\ TasksSound /\ SomebodyComes /\ queue \in Seq(S!Tasks)
        /\ QueueSound(queue, conn, player, eventConnect, accepts, events)
    BY DEF SessionInv, TasksSound, S!TypeOK
  <2>2. /\ UNCHANGED S!objects /\ UNCHANGED <<conn, queue, client, isConnecting, stage>>
        /\ UNCHANGED <<player, accepts, protoRef, eventConnect, before>> /\ events' = events
    BY <1>2 DEF S!vars, S!objects, S!protocols
  <2>3. /\ queue' \in Seq(S!Tasks) /\ conn' \in ConnType /\ ConnMoves /\ LoginsTaken /\ OrderKept
        /\ QueueSound(queue', conn', player, eventConnect, accepts, events')
    BY <2>1, <2>2, StillProtocols
  <2>4. SomebodyComes'
    BY <2>1, <2>2, <2>3, ComesKept DEF S!InGame
  <2>5. events' \subseteq events
    BY <2>2
  <2>6. QED BY <2>2, <2>3, <2>4, <2>5, QuietStep
<1>3. QED BY <1>1, <1>2

LEMMA SessionInvImplies ==
    ASSUME S!SessionAssumption, SessionInv PROVE S!SessionsSound /\ S!ConnectingHasEvent
<1>1. S!TypeOK /\ TasksSound /\ ProtocolsSound /\ ObjectsCounted /\ OneInGame /\ SomebodyComes
  BY DEF SessionInv
<1>2. S!PointersLive
  <2>1. ASSUME NEW o \in S!Objects
        PROVE  /\ stage[o] # "deleted" =>
                    thingRef[o] = S!One(stage[o] = "inGame") + S!One(o \in checks)
                                  + Cardinality(S!Holders(o)) + releaseThings[o]
               /\ stage[o] = "deleted" => o \notin checks /\ S!Holders(o) = {} /\ releaseThings[o] = 0
               /\ client[o] # NoPlayer => conn[client[o]] # "deleted" /\ player[client[o]] = o
    <3>1. Counted(o) /\ o # 0
      BY <1>1, ObjectsAre DEF ObjectsCounted
    <3>2. client[o] # NoPlayer => client[o] \in Protocols /\ player[client[o]] = o
      BY <1>1, <3>1 DEF Counted, S!TypeOK
    <3>3. client[o] # NoPlayer => conn[client[o]] # "deleted"
      BY <1>1, <3>1, <3>2 DEF ProtocolsSound, ProtocolSound
    <3>4. QED BY <3>1, <3>2, <3>3 DEF Counted
  <2>2. ASSUME NEW i \in DOMAIN queue PROVE conn[queue[i].who] # "deleted"
    <3>1. queue \in Seq(S!Tasks)
      BY <1>1 DEF S!TypeOK
    <3>2. i \in 1..Len(queue) /\ queue[i] \in S!Tasks
      BY <3>1
    <3>3. PICK op \in {"login", "logout", "connect", "close"}, p \in Protocols : queue[i] = S!Task(op, p)
      BY <3>2 DEF S!Tasks, S!Task
    <3>4. queue[i].who = p
      BY <3>3 DEF S!Task
    <3>5. Has(queue, S!Task(op, p))
      BY <3>2, <3>3 DEF Has
    <3>6. Queued(queue, conn, player, eventConnect, accepts, events, p) /\ ProtocolSound(p)
      BY <1>1 DEF TasksSound, QueueSound, ProtocolsSound
    <3>7. conn[p] # "deleted"
      BY <3>5, <3>6 DEF Queued, ProtocolSound
    <3>8. QED BY <3>4, <3>7
  <2>3. ASSUME NEW p \in events PROVE conn[p] # "deleted"
    <3>1. p \in Protocols
      BY <1>1 DEF S!TypeOK
    <3>2. Queued(queue, conn, player, eventConnect, accepts, events, p) /\ ProtocolSound(p)
      BY <1>1, <3>1 DEF TasksSound, QueueSound, ProtocolsSound
    <3>3. QED BY <3>2 DEF Queued, ProtocolSound
  <2>4. QED BY <2>1, <2>2, <2>3, SameSets DEF S!PointersLive
<1>3. S!OneSession
  <2>1. Cardinality(S!InGame) <= 1
    <3>1. CASE S!InGame = {}
      BY <3>1, FS_EmptySet
    <3>2. CASE S!InGame # {}
      <4>1. PICK o \in S!InGame : TRUE
        BY <3>2
      <4>2. S!InGame = {o}
        BY <1>1 DEF OneInGame
      <4>3. QED BY <4>2, FS_Singleton
    <3>3. QED BY <3>1, <3>2
  <2>2. ASSUME NEW o \in S!InGame PROVE Cardinality({p \in S!Holders(o) : p \in accepts /\ conn[p] \in S!Open}) <= 1
    <3> DEFINE Playing == {p \in S!Holders(o) : p \in accepts /\ conn[p] \in S!Open}
    <3>1. ASSUME NEW p \in Playing PROVE p = client[o]
      <4>1. p \in Protocols /\ player[p] = o /\ o # 0 /\ conn[p] \in S!Open
        BY ObjectsAre DEF S!Holders, S!InGame
      <4>2. QED BY <1>1, <4>1 DEF ProtocolsSound, ProtocolSound
    <3> HIDE DEF Playing
    <3>2. CASE Playing = {}
      BY <3>2, FS_EmptySet DEF Playing
    <3>3. CASE Playing # {}
      <4>1. Playing = {client[o]}
        BY <3>1, <3>3
      <4>2. Cardinality(Playing) = 1
        BY <4>1, FS_Singleton
      <4>3. QED BY <4>2 DEF Playing
    <3>4. QED BY <3>2, <3>3
  <2>3. QED BY <2>1, <2>2, SameSets DEF S!OneSession
<1>4. S!ConnectingHasEvent
  BY <1>1 DEF SomebodyComes, Comes, S!ConnectingHasEvent
<1>5. QED BY <1>2, <1>3, <1>4 DEF S!SessionsSound

-----------------------------------------------------------------------------
(* The composition has such sessions                                       *)

LEMMA SessionInvariant == S!SessionAssumption /\ S!Spec => []SessionInv
<1>1. CASE S!SessionAssumption
  <2>1. S!Init => SessionInv
    BY <1>1, SessionInvInit
  <2>2. SessionInv /\ [S!Next]_(S!vars) => SessionInv'
    BY <1>1, SessionInvNext
  <2>3. QED BY <2>1, <2>2, PTL DEF S!Spec
<1>2. CASE ~S!SessionAssumption
  BY <1>2, PTL
<1>3. QED BY <1>1, <1>2

LEMMA PlayersHaveSessions == PlayersSpec => S!Spec
<1>1. PlayersInit => S!Init
  BY DEF PlayersInit
<1>2. [PlayersNext]_playersVars => [S!Next]_(S!vars)
  BY DEF PlayersNext, playersVars, sVars, S!vars, S!protocols, S!objects
<1>3. QED BY <1>1, <1>2, PTL DEF PlayersSpec, S!Spec

\* Whoever holds a Player holds one that is not deleted, its count is that of its
\* holders, a client is a protocol that is there, and one connection plays the
\* character, which is in the game once: through logins, replaced and lost clients,
\* kicks, deaths and cleanups in every order.
THEOREM SessionsAreSound == PlayersSpec => []SessionsSound
<1>1. S!SessionAssumption
  BY PlayersAssumption DEF PlayersAssumption
<1>2. SessionInv => SessionsSound
  BY <1>1, SessionInvImplies DEF SessionInv, SessionsSound
<1>3. QED BY <1>1, <1>2, PlayersHaveSessions, SessionInvariant, PTL

\* A player in the game that is marked as one that waits for a client has a protocol
\* that is to connect to it, so that the mark does not outlive the wait.
THEOREM ConnectingIsAwaited == PlayersSpec => []ConnectingHasEvent
<1>1. S!SessionAssumption
  BY PlayersAssumption DEF PlayersAssumption
<1>2. SessionInv => ConnectingHasEvent
  BY <1>1, SessionInvImplies DEF ConnectingHasEvent
<1>3. QED BY <1>1, <1>2, PlayersHaveSessions, SessionInvariant, PTL

-----------------------------------------------------------------------------
(* Progress: loops, and sums of tables                                     *)

\* What a function of the turns of a loop is.
Turns(f, n, turn, p) == f[0] = p /\ \A k \in 0..n-1 : f[k + 1] = turn[f[k]]

LEMMA LoopTurns ==
    ASSUME NEW X, NEW n \in Nat, NEW turn, NEW p \in X, \A q \in X : turn[q] \in X
    PROVE  \E f \in [0..n -> X] : Turns(f, n, turn, p) /\ L!Loop(n, turn, p) = f[n]
<1> DEFINE Is(f) == f = [k \in 0..n |-> IF k = 0 THEN p ELSE turn[f[k - 1]]]
           after[k \in 0..n] == IF k = 0 THEN p ELSE turn[after[k - 1]]
           step == [w \in (0..n-1) \X X |-> turn[w[2]]]
<1>1. L!Loop(n, turn, p) = after[n]
  BY DEF L!Loop
<1>2. Advances(step, n, X)
  BY DEF Advances
<1>3. \A k \in 0..n-1, q \in X : step[<<k, q>>] = turn[q]
  OBVIOUS
<1> HIDE DEF step
<1>4. PICK f : Follows(f, n, X, p, step)
  BY <1>2, Recursion
<1>5. f \in [0..n -> X] /\ Turns(f, n, turn, p)
  <2>1. f \in [0..n -> X] /\ f[0] = p /\ \A k \in 0..n-1 : f[k + 1] = step[<<k, f[k]>>]
    BY <1>4 DEF Follows
  <2>2. \A k \in 0..n-1 : f[k] \in X
    BY <2>1
  <2>3. QED BY <1>3, <2>1, <2>2 DEF Turns
<1>6. Is(f)
  <2>1. ASSUME NEW k \in 0..n PROVE f[k] = IF k = 0 THEN p ELSE turn[f[k - 1]]
    <3>1. k # 0 => k - 1 \in 0..n-1 /\ (k - 1) + 1 = k
      OBVIOUS
    <3>2. QED BY <1>5, <3>1 DEF Turns
  <2>2. QED BY <1>5, <2>1
<1>7. Is(after)
  <2>1. after = CHOOSE g : Is(g)
    OBVIOUS
  <2>2. QED BY <1>6, <2>1
<1> HIDE DEF after
<1>8. after[0] = p /\ \A k \in 0..n-1 : after[k + 1] = turn[after[k]]
  <2>1. ASSUME NEW k \in 0..n-1 PROVE after[k + 1] = turn[after[k]]
    <3>1. k + 1 \in 0..n /\ k + 1 # 0 /\ (k + 1) - 1 = k
      OBVIOUS
    <3>2. QED BY <1>7, <3>1
  <2>2. QED BY <1>7, <2>1
<1> HIDE DEF Is
<1> DEFINE T == {k \in Nat : k <= n => after[k] = f[k]}
<1>9. 0 \in T
  BY <1>5, <1>8 DEF Turns
<1>10. ASSUME NEW k \in Nat, k \in T PROVE k + 1 \in T
  BY <1>5, <1>8, <1>10 DEF Turns
<1> HIDE DEF T
<1>11. n \in T
  BY <1>9, <1>10, SetOfNaturals
<1>12. after[n] = f[n]
  BY <1>11 DEF T
<1>13. QED BY <1>1, <1>5, <1>12

\* A loop keeps what each turn keeps, and ends when there is nothing left to count down.
LEMMA LoopEnds ==
    ASSUME NEW X, NEW Done, NEW n \in Nat, NEW turn, NEW p \in X, NEW m \in [X -> Nat], m[p] <= n,
           \A q \in X : turn[q] \in X,
           \A q \in X \cap Done : turn[q] \in Done,
           \A q \in X \ Done : m[turn[q]] < m[q]
    PROVE  L!Loop(n, turn, p) \in X \cap Done
<1>1. PICK f \in [0..n -> X] : Turns(f, n, turn, p) /\ L!Loop(n, turn, p) = f[n]
  BY LoopTurns
<1> DEFINE T == {k \in Nat : k <= n => f[k] \in X /\ (f[k] \in Done \/ m[f[k]] <= n - k)}
<1>2. 0 \in T
  BY <1>1 DEF Turns
<1>3. ASSUME NEW k \in Nat, k \in T PROVE k + 1 \in T
  <2> SUFFICES ASSUME k + 1 <= n PROVE f[k + 1] \in X /\ (f[k + 1] \in Done \/ m[f[k + 1]] <= n - (k + 1))
    OBVIOUS
  <2>1. k \in 0..n-1 /\ k \in 0..n /\ k + 1 \in 0..n
    OBVIOUS
  <2>2. f[k + 1] = turn[f[k]] /\ f[k] \in X /\ f[k + 1] \in X /\ (f[k] \in Done \/ m[f[k]] <= n - k)
    BY <1>1, <1>3, <2>1 DEF Turns
  <2>3. CASE f[k] \in Done
    BY <2>2, <2>3
  <2>4. CASE f[k] \notin Done
    <3>1. m[f[k + 1]] < m[f[k]] /\ m[f[k + 1]] \in Nat /\ m[f[k]] \in Nat /\ m[f[k]] <= n - k
      BY <2>2, <2>4
    <3>2. QED BY <2>2, <3>1
  <2>5. QED BY <2>3, <2>4
<1> HIDE DEF T
<1>4. n \in T
  BY <1>2, <1>3, SetOfNaturals
<1>5. f[n] \in X /\ (f[n] \in Done \/ m[f[n]] <= 0)
  BY <1>4 DEF T
<1>6. f[n] \in Done
  <2>1. SUFFICES ASSUME f[n] \notin Done PROVE FALSE
    OBVIOUS
  <2>2. m[turn[f[n]]] < m[f[n]] /\ m[turn[f[n]]] \in Nat /\ m[f[n]] <= 0 /\ m[f[n]] \in Nat
    BY <1>5, <2>1
  <2>3. QED BY <2>2
<1>7. QED BY <1>1, <1>5, <1>6

\* s is what the entries of f after the first come to.
Totals(s, f, from, top) ==
    /\ s \in [from..top -> Nat] /\ s[from] = 0
    /\ \A k \in from+1..top : s[k] = s[k - 1] + f[k]

Sums(s, f, from, top) ==
    /\ Totals(s, f, from, top)
    /\ \A to \in from..top : \A g : (\A k \in from+1..to : g[k] = f[k]) => L!Sum(g, from, to) = s[to]

LEMMA SumOfTable ==
    ASSUME NEW from \in Int, NEW top \in Int, from <= top, NEW f, \A k \in from+1..top : f[k] \in Nat
    PROVE  \E s : Sums(s, f, from, top)
<1> DEFINE N == top - from
           step == [w \in (0..N-1) \X Nat |-> w[2] + f[from + w[1] + 1]]
<1>1. Advances(step, N, Nat)
  <2>1. \A k \in 0..N-1 : f[from + k + 1] \in Nat
    OBVIOUS
  <2>2. QED BY <2>1 DEF Advances
<1>2. \A k \in 0..N-1, q \in Nat : step[<<k, q>>] = q + f[from + k + 1]
  OBVIOUS
<1> HIDE DEF step
<1>3. N \in Nat
  OBVIOUS
<1>4. PICK t : Follows(t, N, Nat, 0, step)
  BY <1>1, <1>3, Recursion
<1> DEFINE s == [k \in from..top |-> t[k - from]]
<1>5. Totals(s, f, from, top)
  <2>1. s \in [from..top -> Nat] /\ s[from] = 0
    BY <1>4 DEF Follows
  <2>2. ASSUME NEW k \in from+1..top PROVE s[k] = s[k - 1] + f[k]
    <3> DEFINE j == k - 1 - from
    <3>1. j \in 0..N-1 /\ from + j + 1 = k /\ j + 1 = k - from /\ k \in from..top /\ k - 1 \in from..top
      OBVIOUS
    <3> HIDE DEF j
    <3>2. t[j + 1] = t[j] + f[k]
      <4>1. t[j + 1] = step[<<j, t[j]>>] /\ t[j] \in Nat
        BY <1>4, <3>1 DEF Follows
      <4>2. step[<<j, t[j]>>] = t[j] + f[from + j + 1]
        BY <1>2, <3>1, <4>1
      <4>3. QED BY <3>1, <4>1, <4>2
    <3>3. s[k] = t[j + 1] /\ s[k - 1] = t[j]
      BY <3>1 DEF j
    <3>4. QED BY <3>2, <3>3
  <2>3. QED BY <2>1, <2>2 DEF Totals
<1> HIDE DEF s
<1>6. ASSUME NEW to \in from..top, NEW g, \A k \in from+1..to : g[k] = f[k]
      PROVE  L!Sum(g, from, to) = s[to]
  <2> DEFINE Is(h) == h = [k \in from..to |-> IF k = from THEN 0 ELSE h[k - 1] + g[k]]
             sum[k \in from..to] == IF k = from THEN 0 ELSE sum[k - 1] + g[k]
             r == [k \in from..to |-> s[k]]
  <2>1. L!Sum(g, from, to) = sum[to]
    BY DEF L!Sum
  <2>2. Is(r)
    <3>1. ASSUME NEW k \in from..to PROVE r[k] = IF k = from THEN 0 ELSE r[k - 1] + g[k]
      <4>1. k # from => k \in from+1..to /\ k \in from+1..top /\ k - 1 \in from..to
        OBVIOUS
      <4>2. QED BY <1>5, <1>6, <4>1 DEF Totals
    <3> HIDE DEF r
    <3>2. r = [k \in from..to |-> r[k]]
      BY DEF r
    <3>3. QED BY <3>1, <3>2
  <2>3. Is(sum)
    <3>1. sum = CHOOSE h : Is(h)
      OBVIOUS
    <3>2. QED BY <2>2, <3>1
  <2> HIDE DEF sum
  <2>4. ASSUME NEW k \in from..to PROVE sum[k] = IF k = from THEN 0 ELSE sum[k - 1] + g[k]
    BY <2>3
  <2> HIDE DEF Is
  <2> DEFINE T == {n \in Nat : from + n <= to => sum[from + n] = s[from + n]}
  <2>5. 0 \in T
    BY <1>5, <2>4 DEF Totals
  <2>6. ASSUME NEW n \in Nat, n \in T PROVE n + 1 \in T
    <3> SUFFICES ASSUME from + n + 1 <= to PROVE sum[from + (n + 1)] = s[from + (n + 1)]
      OBVIOUS
    <3> DEFINE k == from + (n + 1)
    <3>1. k \in from..to /\ k # from /\ k \in from+1..top /\ k \in from+1..to /\ k - 1 = from + n /\ from + n <= to
      OBVIOUS
    <3>2. sum[from + n] = s[from + n]
      BY <2>6, <3>1
    <3> HIDE DEF k
    <3>3. sum[k] = sum[k - 1] + g[k] /\ s[k] = s[k - 1] + f[k] /\ g[k] = f[k]
      BY <1>5, <1>6, <2>4, <3>1 DEF Totals
    <3>4. sum[k] = s[k]
      BY <3>1, <3>2, <3>3
    <3>5. QED BY <3>4 DEF k
  <2> HIDE DEF T
  <2>7. to - from \in T
    <3>1. to - from \in Nat
      OBVIOUS
    <3>2. QED BY <2>5, <2>6, <3>1, SetOfNaturals
  <2>8. from + (to - from) = to
    OBVIOUS
  <2>9. QED BY <2>1, <2>7, <2>8 DEF T
<1>7. Sums(s, f, from, top)
  BY <1>5, <1>6 DEF Sums
<1>8. QED BY <1>7

-----------------------------------------------------------------------------
(* Progress: levels                                                        *)

LEMMA LevelTable ==
    ASSUME L!ProgressAssumption
    PROVE  /\ TopLevel \in Nat /\ TopLevel > 1
           /\ \A l \in 1..TopLevel+1 : expFor[l] \in Nat
           /\ expFor[1] = 0 /\ \A l \in 1..TopLevel-1 : expFor[l] <= expFor[l + 1]
           /\ \A l \in 1..TopLevel : L!Highest(l) <=> l = TopLevel
<1>1. TopLevel \in Nat /\ L!Rises(expFor, 1, TopLevel) /\ expFor[1] = 0
  BY DEF L!ProgressAssumption
<1>2. /\ TopLevel > 1 /\ expFor \in [1..TopLevel+1 -> Nat] /\ expFor[TopLevel] > expFor[TopLevel + 1]
      /\ \A l \in 1..TopLevel-1 : expFor[l] <= expFor[l + 1]
  BY <1>1 DEF L!Rises
<1>3. \A l \in 1..TopLevel+1 : expFor[l] \in Nat
  BY <1>1, <1>2
<1>4. ASSUME NEW l \in 1..TopLevel PROVE L!Highest(l) <=> l = TopLevel
  <2>1. l # TopLevel => l \in 1..TopLevel-1 /\ l + 1 \in 1..TopLevel+1
    BY <1>1
  <2>2. expFor[l] \in Nat /\ (l # TopLevel => expFor[l + 1] \in Nat)
    BY <1>1, <1>3, <2>1
  <2>3. QED BY <1>2, <2>1, <2>2 DEF L!Highest
<1>5. QED BY <1>1, <1>2, <1>3, <1>4

LEMMA HealthIs ==
    ASSUME L!ProgressAssumption, vocation \in {0, 1}
    PROVE  /\ L!HealthFor(1) = 150
           /\ \A l \in 1..TopLevel : L!HealthFor(l) \in Nat /\ L!HealthFor(l) >= 150
           /\ \A l \in 2..TopLevel : L!HealthFor(l) = L!HealthFor(l - 1) + L!GainAt(l) /\ L!GainAt(l) \in Nat
<1>1. TopLevel \in Nat /\ TopLevel > 1 /\ VocationGain \in Nat /\ BeginnerGain \in Nat
  BY LevelTable DEF L!ProgressAssumption
<1> DEFINE f == [k \in 2..TopLevel |-> L!GainAt(k)]
<1>2. \A k \in 2..TopLevel : f[k] = L!GainAt(k) /\ f[k] \in Nat
  BY <1>1 DEF L!GainAt
<1> HIDE DEF f
<1>3. PICK s : Sums(s, f, 1, TopLevel)
  <2>1. \A k \in 1+1..TopLevel : f[k] \in Nat
    BY <1>2
  <2>2. 1 \in Int /\ TopLevel \in Int /\ 1 <= TopLevel
    BY <1>1
  <2>3. QED BY <2>1, <2>2, SumOfTable
<1>4. ASSUME NEW l \in 1..TopLevel PROVE L!HealthFor(l) = 150 + s[l]
  <2> DEFINE g == [k \in 2..l |-> L!GainAt(k)]
  <2>1. \A k \in 1+1..l : g[k] = f[k]
    <3>1. ASSUME NEW k \in 1+1..l PROVE g[k] = f[k]
      <4>1. k \in 2..l /\ k \in 2..TopLevel
        BY <1>1
      <4>2. g[k] = L!GainAt(k)
        BY <4>1
      <4>3. QED BY <1>2, <4>1, <4>2
    <3>2. QED BY <3>1
  <2>2. L!HealthFor(l) = 150 + L!Sum(g, 1, l)
    BY DEF L!HealthFor
  <2> HIDE DEF g
  <2>3. L!Sum(g, 1, l) = s[l]
    BY <1>3, <2>1 DEF Sums
  <2>4. QED BY <2>2, <2>3
<1>5. s \in [1..TopLevel -> Nat] /\ s[1] = 0 /\ \A k \in 2..TopLevel : s[k] = s[k - 1] + L!GainAt(k)
  BY <1>2, <1>3 DEF Totals, Sums
<1>6. ASSUME NEW l \in 2..TopLevel PROVE L!HealthFor(l) = L!HealthFor(l - 1) + L!GainAt(l) /\ L!GainAt(l) \in Nat
  <2>1. l \in 1..TopLevel /\ l - 1 \in 1..TopLevel /\ s[l - 1] \in Nat
    BY <1>1, <1>5
  <2>2. L!HealthFor(l) = 150 + s[l] /\ L!HealthFor(l - 1) = 150 + s[l - 1]
    BY <1>4, <2>1
  <2>3. s[l] = s[l - 1] + L!GainAt(l) /\ L!GainAt(l) \in Nat
    BY <1>2, <1>5
  <2>4. QED BY <2>1, <2>2, <2>3
<1>7. 1 \in 1..TopLevel /\ \A l \in 1..TopLevel : s[l] \in Nat
  BY <1>1, <1>5
<1>8. QED BY <1>4, <1>5, <1>6, <1>7

\* A player has the health of his level, the experience for it, and not that for the next.
Grown(p) == p \in L!Selves /\ p.level \in 1..TopLevel /\ p.healthMax = L!HealthFor(p.level)
Enough(p) == expFor[p.level] <= p.experience
Few(p) == L!Highest(p.level) \/ p.experience < expFor[p.level + 1]

LEMMA RiseFits ==
    ASSUME L!ProgressAssumption, vocation \in {0, 1}, NEW p, Grown(p), Enough(p)
    PROVE  /\ Grown(L!Rise(p)) /\ Enough(L!Rise(p)) /\ Few(L!Rise(p))
           /\ L!Rise(p).experience = p.experience
<1> DEFINE X == {q \in L!Selves : Grown(q) /\ Enough(q) /\ q.experience = p.experience}
           Done == {q \in X : Few(q)}
           turn == [q \in L!Selves |->
                      IF q.experience < expFor[q.level + 1] \/ L!Highest(q.level) THEN q
                      ELSE [q EXCEPT !.level = @ + 1, !.healthMax = @ + L!GainAt(q.level + 1)]]
           m == [q \in X |-> TopLevel - q.level]
<1>1. L!Rise(p) = L!Loop(TopLevel, turn, p)
  BY DEF L!Rise
<1>2. p \in X
  BY DEF Grown
<1>3. m \in [X -> Nat] /\ \A q \in X : m[q] = TopLevel - q.level
  BY LevelTable DEF Grown
<1>4. ASSUME NEW q \in X, Few(q) PROVE turn[q] = q
  BY <1>4 DEF Few, Grown
<1>5. ASSUME NEW q \in X, ~Few(q) PROVE turn[q] \in X /\ turn[q].level = q.level + 1
  <2>1. turn[q] = [q EXCEPT !.level = @ + 1, !.healthMax = @ + L!GainAt(q.level + 1)]
    BY <1>5 DEF Few, Grown
  <2>2. q \in L!Selves /\ q.level \in 1..TopLevel /\ q.healthMax = L!HealthFor(q.level) /\ q.experience = p.experience
    BY DEF Grown
  <2>3. q.level # TopLevel
    BY <1>5, <2>2, LevelTable DEF Few
  <2>4. q.level + 1 \in 2..TopLevel /\ q.level + 1 \in 1..TopLevel /\ (q.level + 1) - 1 = q.level
    BY <2>2, <2>3, LevelTable
  <2>5. L!HealthFor(q.level + 1) = L!HealthFor(q.level) + L!GainAt(q.level + 1) /\ L!GainAt(q.level + 1) \in Nat
    BY <2>4, HealthIs
  <2>6. expFor[q.level + 1] <= q.experience
    <3>1. expFor[q.level + 1] \in Nat /\ q.experience \in Nat
      BY <2>2, <2>4, LevelTable DEF L!Selves
    <3>2. QED BY <1>5, <3>1 DEF Few
  <2> DEFINE r == [q EXCEPT !.level = @ + 1, !.healthMax = @ + L!GainAt(q.level + 1)]
  <2>7. r \in L!Selves /\ r.level = q.level + 1 /\ r.experience = q.experience
        /\ r.healthMax = q.healthMax + L!GainAt(q.level + 1)
    <3>1. r = [q EXCEPT !.level = q.level + 1, !.healthMax = L!HealthFor(q.level + 1)]
          /\ q.level + 1 \in Nat /\ L!HealthFor(q.level + 1) \in Nat
      <4>1. q.healthMax + L!GainAt(q.level + 1) = L!HealthFor(q.level + 1)
        BY <2>2, <2>5
      <4>2. L!HealthFor(q.level + 1) \in Nat
        BY <2>4, HealthIs
      <4>3. q.level + 1 \in Nat
        BY <2>4
      <4>4. r = [q EXCEPT !.level = q.level + 1, !.healthMax = L!HealthFor(q.level + 1)]
        BY <4>1
      <4>5. QED BY <4>2, <4>3, <4>4
    <3> HIDE DEF r
    <3>2. QED BY <2>2, <2>5, <3>1 DEF L!Selves
  <2> HIDE DEF r
  <2>8. r \in X
    BY <2>2, <2>4, <2>5, <2>6, <2>7 DEF Grown, Enough
  <2>9. QED BY <2>1, <2>7, <2>8 DEF r
<1> HIDE DEF turn, m
<1>6. L!Loop(TopLevel, turn, p) \in X \cap Done
  <2>1. \A q \in X : turn[q] \in X
    BY <1>4, <1>5
  <2>2. \A q \in X \cap Done : turn[q] \in Done
    BY <1>4
  <2>3. \A q \in X \ Done : m[turn[q]] < m[q]
    <3>1. ASSUME NEW q \in X \ Done PROVE m[turn[q]] < m[q]
      <4>1. turn[q] \in X /\ turn[q].level = q.level + 1 /\ q.level \in 1..TopLevel
        BY <1>5 DEF Grown
      <4> HIDE DEF X, Done
      <4>2. m[turn[q]] = TopLevel - (q.level + 1) /\ m[q] = TopLevel - q.level
        BY <1>3, <4>1
      <4>3. QED BY <4>1, <4>2, LevelTable
    <3>2. QED BY <3>1
  <2>4. m[p] <= TopLevel /\ TopLevel \in Nat
    <3>1. m[p] = TopLevel - p.level /\ p.level \in 1..TopLevel
      BY <1>2, <1>3 DEF Grown
    <3>2. QED BY <3>1, LevelTable
  <2> HIDE DEF X, Done
  <2>5. QED BY <1>2, <1>3, <2>1, <2>2, <2>3, <2>4, LoopEnds
<1>7. QED BY <1>1, <1>6

LEMMA FallFits ==
    ASSUME L!ProgressAssumption, vocation \in {0, 1}, NEW p, Grown(p), Few(p)
    PROVE  /\ Grown(L!Fall(p)) /\ Enough(L!Fall(p)) /\ Few(L!Fall(p))
           /\ L!Fall(p).experience = p.experience
<1> DEFINE X == {q \in L!Selves : Grown(q) /\ Few(q) /\ q.experience = p.experience}
           Done == {q \in X : q.level = 1 \/ q.experience >= expFor[q.level]}
           turn == [q \in L!Selves |->
                      IF q.level = 1 \/ q.experience >= expFor[q.level] THEN q
                      ELSE [q EXCEPT !.level = @ - 1,
                                     !.healthMax = IF @ > L!LostAt(q.level - 1) THEN @ - L!LostAt(q.level - 1) ELSE 0]]
           m == [q \in X |-> q.level]
<1>1. L!Fall(p) = L!Loop(p.level, turn, p)
  BY DEF L!Fall
<1>2. p \in X
  BY DEF Grown
<1>3. m \in [X -> Nat] /\ \A q \in X : m[q] = q.level
  BY LevelTable DEF Grown
<1>4. ASSUME NEW q \in Done PROVE turn[q] = q
  BY <1>4 DEF Grown
<1>5. ASSUME NEW q \in X \ Done PROVE turn[q] \in X /\ turn[q].level = q.level - 1
  <2>1. turn[q] = [q EXCEPT !.level = @ - 1,
                            !.healthMax = IF @ > L!LostAt(q.level - 1) THEN @ - L!LostAt(q.level - 1) ELSE 0]
    BY <1>5 DEF Grown
  <2>2. q \in L!Selves /\ q.level \in 1..TopLevel /\ q.healthMax = L!HealthFor(q.level)
        /\ q.experience = p.experience /\ q.level # 1 /\ ~(q.experience >= expFor[q.level])
    BY DEF Grown
  <2>3. q.level \in 2..TopLevel /\ q.level - 1 \in 1..TopLevel /\ (q.level - 1) + 1 = q.level
        /\ q.level \in 1..TopLevel+1
    BY <2>2, LevelTable
  <2>4. L!HealthFor(q.level) = L!HealthFor(q.level - 1) + L!GainAt(q.level) /\ L!GainAt(q.level) \in Nat
        /\ L!HealthFor(q.level - 1) \in Nat /\ L!HealthFor(q.level - 1) >= 150
    BY <2>3, HealthIs
  <2>5. L!LostAt(q.level - 1) = L!GainAt(q.level)
    BY <2>3 DEF L!LostAt, L!GainAt, L!ProgressAssumption
  <2>6. q.experience < expFor[q.level]
    <3>1. expFor[q.level] \in Nat /\ q.experience \in Nat
      BY <2>2, <2>3, LevelTable DEF L!Selves
    <3>2. QED BY <2>2, <3>1
  <2> DEFINE r == [q EXCEPT !.level = @ - 1,
                            !.healthMax = IF @ > L!LostAt(q.level - 1) THEN @ - L!LostAt(q.level - 1) ELSE 0]
  <2>7. r \in L!Selves /\ r.level = q.level - 1 /\ r.experience = q.experience
        /\ r.healthMax = L!HealthFor(q.level - 1)
    <3>1. q.healthMax > L!LostAt(q.level - 1) /\ q.healthMax - L!LostAt(q.level - 1) = L!HealthFor(q.level - 1)
      BY <2>2, <2>4, <2>5
    <3>2. q.level - 1 \in Nat
      BY <2>3
    <3>3. r = [q EXCEPT !.level = q.level - 1, !.healthMax = L!HealthFor(q.level - 1)]
      BY <2>2, <3>1 DEF L!Selves
    <3> HIDE DEF r
    <3>4. QED BY <2>2, <2>4, <3>2, <3>3 DEF L!Selves
  <2> HIDE DEF r
  <2>8. r \in X
    BY <2>2, <2>3, <2>6, <2>7 DEF Grown, Few
  <2>9. QED BY <2>1, <2>7, <2>8 DEF r
<1> HIDE DEF turn, m
<1>6. L!Loop(p.level, turn, p) \in X \cap Done
  <2>1. \A q \in X : turn[q] \in X
    BY <1>4, <1>5
  <2>2. \A q \in X \cap Done : turn[q] \in Done
    BY <1>4
  <2>3. \A q \in X \ Done : m[turn[q]] < m[q]
    <3>1. ASSUME NEW q \in X \ Done PROVE m[turn[q]] < m[q]
      <4>1. turn[q] \in X /\ turn[q].level = q.level - 1 /\ q.level \in 1..TopLevel
        BY <1>5 DEF Grown
      <4> HIDE DEF X, Done
      <4>2. m[turn[q]] = q.level - 1 /\ m[q] = q.level
        BY <1>3, <4>1
      <4>3. QED BY <4>1, <4>2, LevelTable
    <3>2. QED BY <3>1
  <2>4. m[p] <= p.level /\ p.level \in Nat
    <3>1. m[p] = p.level /\ p.level \in 1..TopLevel
      BY <1>2, <1>3 DEF Grown
    <3>2. QED BY <3>1, LevelTable
  <2> HIDE DEF X, Done
  <2>5. QED BY <1>2, <1>3, <2>1, <2>2, <2>3, <2>4, LoopEnds
<1>7. Grown(L!Fall(p)) /\ Few(L!Fall(p)) /\ L!Fall(p).experience = p.experience
      /\ (L!Fall(p).level = 1 \/ L!Fall(p).experience >= expFor[L!Fall(p).level])
  BY <1>1, <1>6
<1>8. Enough(L!Fall(p))
  BY <1>7, LevelTable DEF Enough, Grown, L!Selves
<1>9. QED BY <1>7, <1>8

-----------------------------------------------------------------------------
(* Progress: skills and magic                                              *)

LEMMA SumSteps ==
    ASSUME NEW from \in Nat, NEW top \in Nat, from <= top, NEW f, \A k \in from+1..top : f[k] \in Nat
    PROVE  /\ L!Sum(f, from, from) = 0
           /\ \A to \in from..top : L!Sum(f, from, to) \in Nat
           /\ \A to \in from+1..top : L!Sum(f, from, to) = L!Sum(f, from, to - 1) + f[to]
<1>1. PICK s : Sums(s, f, from, top)
  BY SumOfTable
<1>2. s \in [from..top -> Nat] /\ s[from] = 0 /\ \A k \in from+1..top : s[k] = s[k - 1] + f[k]
  BY <1>1 DEF Sums, Totals
<1>3. \A to \in from..top : L!Sum(f, from, to) = s[to]
  BY <1>1 DEF Sums
<1>4. ASSUME NEW to \in from+1..top PROVE L!Sum(f, from, to) = L!Sum(f, from, to - 1) + f[to]
  <2>1. to \in from..top /\ to - 1 \in from..top
    OBVIOUS
  <2>2. QED BY <1>2, <1>3, <2>1
<1>5. from \in from..top
  OBVIOUS
<1>6. QED BY <1>2, <1>3, <1>4, <1>5

Ats == [level : Nat, since : Nat]

LEMMA ReducedIs ==
    ASSUME NEW req, NEW lowest \in Nat, NEW at \in Ats, at.level >= lowest,
           \A k \in lowest+1..at.level : req[k] \in Nat,
           NEW n \in Nat, n <= L!Paid(at, req, lowest), NEW r, r = L!Reduced(at, n, req, lowest)
    PROVE  /\ r \in Ats /\ r.level \in lowest..at.level
           /\ L!Paid(r, req, lowest) = L!Paid(at, req, lowest) - n
           /\ r.level = at.level => r.since = at.since - n
           /\ r.level < at.level => r.since < req[r.level + 1]
<1>0. at.level \in Nat /\ at.since \in Nat
  BY DEF Ats
<1> DEFINE Base(l) == L!Sum(req, lowest, l)
<1>1. /\ Base(lowest) = 0 /\ \A l \in lowest..at.level : Base(l) \in Nat
      /\ \A l \in lowest+1..at.level : Base(l) = Base(l - 1) + req[l]
  BY <1>0, SumSteps
<1>2. L!Paid(at, req, lowest) = at.since + Base(at.level)
  BY DEF L!Paid
<1> HIDE DEF Base
<1> DEFINE all == at.since + Base(at.level) - n
           X == {q \in L!Counting :
                   /\ q.level \in lowest..at.level /\ q.since + Base(q.level) - q.left = all
                   /\ q.level = at.level => q.since = at.since /\ q.left = n
                   /\ q.level < at.level => q.since = req[q.level + 1] /\ q.left > 0}
           Done == {q \in X : ~(q.left > q.since /\ q.level > lowest)}
           turn == [q \in L!Counting |->
                      IF q.left > q.since /\ q.level > lowest
                      THEN [level |-> q.level - 1, since |-> req[q.level], left |-> q.left - q.since] ELSE q]
           m == [q \in X |-> q.level]
           start == [level |-> at.level, since |-> at.since, left |-> n]
           last == L!Loop(at.level, turn, start)
<1>3. r = [level |-> last.level, since |-> last.since - last.left]
  BY DEF L!Reduced, L!Reduce, L!With, L!At
<1>4. start \in X
  BY <1>0 DEF L!Counting
<1>5. m \in [X -> Nat] /\ \A q \in X : m[q] = q.level
  BY <1>0
<1>6. ASSUME NEW q \in Done PROVE turn[q] = q
  BY <1>6
<1>7. ASSUME NEW q \in X \ Done PROVE turn[q] \in X /\ turn[q].level = q.level - 1
  <2>1. /\ q.level \in Nat /\ q.since \in Nat /\ q.left \in Nat /\ q.left > q.since /\ q.level > lowest
        /\ q.level \in lowest..at.level /\ q.since + Base(q.level) - q.left = all /\ q \in L!Counting
    BY <1>7 DEF L!Counting
  <2>2. q.level \in lowest+1..at.level /\ q.level - 1 \in lowest..at.level /\ q.level - 1 \in Nat
        /\ (q.level - 1) + 1 = q.level /\ q.level - 1 < at.level
    BY <1>0, <2>1
  <2>3. req[q.level] \in Nat /\ Base(q.level) = Base(q.level - 1) + req[q.level] /\ Base(q.level - 1) \in Nat
    BY <1>1, <2>2
  <2> DEFINE t == [level |-> q.level - 1, since |-> req[q.level], left |-> q.left - q.since]
  <2>4. turn[q] = t
    BY <2>1
  <2>5. t.level = q.level - 1 /\ t.since = req[q.level] /\ t.left = q.left - q.since /\ t \in L!Counting
    BY <2>1, <2>2, <2>3 DEF L!Counting
  <2>6. t.since + Base(t.level) - t.left = all
    <3>1. all \in Int
      BY <1>0, <1>1
    <3> HIDE DEF all, t
    <3>2. QED BY <2>1, <2>3, <2>5, <3>1
  <2> HIDE DEF t, all
  <2>7. t \in X
    BY <2>1, <2>2, <2>5, <2>6
  <2>8. QED BY <2>4, <2>5, <2>7
<1> HIDE DEF turn, m, start
<1>8. last \in X \cap Done
  <2>1. \A q \in X : turn[q] \in X
    BY <1>6, <1>7
  <2>2. \A q \in X \cap Done : turn[q] \in Done
    BY <1>6
  <2>3. \A q \in X \ Done : m[turn[q]] < m[q]
    <3>1. ASSUME NEW q \in X \ Done PROVE m[turn[q]] < m[q]
      <4>1. turn[q] \in X /\ turn[q].level = q.level - 1 /\ q.level \in lowest..at.level
        BY <1>7
      <4> HIDE DEF X, Done
      <4>2. m[turn[q]] = q.level - 1 /\ m[q] = q.level
        BY <1>5, <4>1
      <4>3. QED BY <1>0, <4>1, <4>2
    <3>2. QED BY <3>1
  <2>4. m[start] <= at.level
    BY <1>0, <1>4, <1>5 DEF start
  <2> HIDE DEF X, Done
  <2>5. QED BY <1>0, <1>4, <1>5, <2>1, <2>2, <2>3, <2>4, LoopEnds
<1>9. /\ last.level \in lowest..at.level /\ last.since \in Nat /\ last.left \in Nat
      /\ last.since + Base(last.level) - last.left = all
      /\ last.level = at.level => last.since = at.since /\ last.left = n
      /\ last.level < at.level => last.since = req[last.level + 1] /\ last.left > 0
      /\ ~(last.left > last.since /\ last.level > lowest)
  <2> HIDE DEF last
  <2>1. QED BY <1>8 DEF L!Counting
<1> HIDE DEF last
<1>10. all \in Nat
  BY <1>0, <1>1, <1>2
<1>11. last.left <= last.since
  <2>1. CASE last.level = lowest
    <3> HIDE DEF all
    <3>1. QED BY <1>1, <1>9, <1>10, <2>1
  <2>2. CASE last.level > lowest
    BY <1>9, <2>2
  <2>3. QED BY <1>0, <1>9, <2>1, <2>2
<1>12. r.level = last.level /\ r.since = last.since - last.left /\ r.since \in Nat /\ r \in Ats
  BY <1>0, <1>3, <1>9, <1>11 DEF Ats
<1>13. L!Paid(r, req, lowest) = L!Paid(at, req, lowest) - n
  <2>1. L!Paid(r, req, lowest) = r.since + Base(r.level)
    BY DEF L!Paid, Base
  <2>2. Base(last.level) \in Nat /\ Base(at.level) \in Nat
    BY <1>0, <1>1, <1>9
  <2>3. QED BY <1>0, <1>2, <1>9, <1>12, <2>1, <2>2
<1>14. r.level < at.level => r.since < req[r.level + 1]
  BY <1>9, <1>11, <1>12
<1>15. QED BY <1>9, <1>12, <1>13, <1>14

LEMMA SkillTable ==
    ASSUME L!ProgressAssumption
    PROVE  /\ TopSkill \in Nat /\ TopSkill > 10
           /\ \A l \in 10..TopSkill+1 : reqTries[l] \in Nat
           /\ \A l \in 11..TopSkill : reqTries[l] > 0
           /\ \A l \in 10..TopSkill : reqTries[l] > reqTries[l + 1] <=> l = TopSkill
<1>1. TopSkill \in Nat /\ L!Rises(reqTries, 10, TopSkill) /\ \A l \in 11..TopSkill : reqTries[l] > 0
  BY DEF L!ProgressAssumption
<1>2. /\ TopSkill > 10 /\ reqTries \in [10..TopSkill+1 -> Nat] /\ reqTries[TopSkill] > reqTries[TopSkill + 1]
      /\ \A l \in 10..TopSkill-1 : reqTries[l] <= reqTries[l + 1]
  BY <1>1 DEF L!Rises
<1>3. \A l \in 10..TopSkill+1 : reqTries[l] \in Nat
  BY <1>1, <1>2
<1>4. ASSUME NEW l \in 10..TopSkill PROVE reqTries[l] > reqTries[l + 1] <=> l = TopSkill
  <2>1. l # TopSkill => l \in 10..TopSkill-1 /\ l \in 10..TopSkill+1 /\ l + 1 \in 10..TopSkill+1
    BY <1>1
  <2>2. l # TopSkill => reqTries[l] \in Nat /\ reqTries[l + 1] \in Nat /\ reqTries[l] <= reqTries[l + 1]
    BY <1>2, <1>3, <2>1
  <2>3. QED BY <1>2, <2>2
<1>5. QED BY <1>1, <1>2, <1>3, <1>4

LEMMA SkillAdvances ==
    ASSUME L!ProgressAssumption, NEW at \in Ats, at.level \in 10..TopSkill-1, at.since < reqTries[at.level + 1],
           NEW n \in Nat, NEW r, r = L!Advanced(at, n, reqTries, 1)
    PROVE  /\ r \in Ats /\ r.level \in at.level..TopSkill
           /\ r.level = TopSkill => r.since = 0
           /\ r.level # TopSkill => r.since < reqTries[r.level + 1] /\ L!Tries(r) = L!Tries(at) + n
<1>0. at.level \in Nat /\ at.since \in Nat /\ TopSkill \in Nat /\ at.level < TopSkill
  BY SkillTable DEF Ats
<1> DEFINE Base(l) == L!Sum(reqTries, 10, l)
<1>1. /\ \A l \in 10..TopSkill : Base(l) \in Nat
      /\ \A l \in 11..TopSkill : Base(l) = Base(l - 1) + reqTries[l]
  <2>1. \A k \in 10+1..TopSkill : reqTries[k] \in Nat
    BY SkillTable
  <2>2. 10 \in Nat /\ TopSkill \in Nat /\ 10 <= TopSkill
    BY SkillTable
  <2>3. /\ \A l \in 10..TopSkill : L!Sum(reqTries, 10, l) \in Nat
        /\ \A l \in 10+1..TopSkill : L!Sum(reqTries, 10, l) = L!Sum(reqTries, 10, l - 1) + reqTries[l]
    BY <2>1, <2>2, SumSteps
  <2>4. QED BY <2>3
<1>2. \A w : L!Tries(w) = w.since + Base(w.level)
  BY DEF L!Tries, L!Paid
<1> HIDE DEF Base
<1> DEFINE all == at.since + Base(at.level) + n
           X == {q \in L!Counting :
                   /\ q.level \in at.level..TopSkill
                   /\ q.level = TopSkill => q.since = 0 /\ q.left = 0
                   /\ q.level # TopSkill =>
                        q.since < reqTries[q.level + 1] /\ q.since + Base(q.level) + q.left = all}
           Done == {q \in X : q.left = 0}
           turn == L!Advance(reqTries, 1)
           m == [q \in X |-> q.left]
           start == [level |-> at.level, since |-> at.since, left |-> n]
           last == L!Loop(n, turn, start)
<1>3. r = [level |-> last.level, since |-> last.since]
  BY DEF L!Advanced, L!With, L!At
<1>4. start \in X
  BY <1>0 DEF L!Counting
<1>5. m \in [X -> Nat] /\ \A q \in X : m[q] = q.left
  BY DEF L!Counting
<1>6. ASSUME NEW q \in Done PROVE turn[q] = q
  BY DEF L!Advance
<1>7. ASSUME NEW q \in X \ Done PROVE turn[q] \in X /\ turn[q].left < q.left
  <2>1. /\ q.level \in Nat /\ q.since \in Nat /\ q.left \in Nat /\ q.left # 0 /\ q \in L!Counting
        /\ q.level \in at.level..TopSkill /\ q.level # TopSkill
        /\ q.since < reqTries[q.level + 1] /\ q.since + Base(q.level) + q.left = all
    BY DEF L!Counting
  <2> DEFINE next == reqTries[q.level + 1]
             up == q.level + 1
  <2>2. /\ up \in at.level..TopSkill /\ up \in 10..TopSkill /\ up \in 11..TopSkill /\ up \in Nat /\ up # at.level
        /\ q.level \in 10..TopSkill /\ up - 1 = q.level
    BY <1>0, <2>1
  <2>3. next \in Nat /\ next = reqTries[up] /\ Base(up) = Base(q.level) + next /\ Base(q.level) \in Nat
    BY <1>0, <1>1, <2>2, SkillTable
  <2>4. all \in Int
    BY <1>0, <1>1
  <2> HIDE DEF all, up, next
  <2>5. CASE q.since + q.left < next
    <3> DEFINE t == [level |-> q.level, since |-> q.since + q.left, left |-> 0]
    <3>1. turn[q] = t
      <4>1. turn[q] = [q EXCEPT !.since = q.since + q.left, !.left = 0]
        BY <2>1, <2>5 DEF L!Advance, next
      <4>2. QED BY <2>1, <4>1 DEF L!Counting
    <3>2. t \in L!Counting /\ t.level = q.level /\ t.since = q.since + q.left /\ t.left = 0
      BY <2>1 DEF L!Counting
    <3> HIDE DEF t
    <3>3. t \in X
      BY <2>1, <2>3, <2>4, <2>5, <3>2 DEF next
    <3>4. QED BY <2>1, <3>1, <3>2, <3>3
  <2>6. CASE ~(q.since + q.left < next)
    <3> DEFINE rest == IF next > reqTries[up + 1] THEN 0 ELSE q.left - (next - q.since)
               t == [level |-> up, since |-> 0, left |-> rest]
    <3>1. turn[q] = t
      BY <2>1, <2>6 DEF L!Advance, L!With, L!At, next, up
    <3>2. rest \in Nat /\ rest < q.left /\ (up = TopSkill => rest = 0)
          /\ (up # TopSkill => rest = q.left - (next - q.since))
      <4>1. next > reqTries[up + 1] <=> up = TopSkill
        BY <2>2, <2>3, SkillTable
      <4>2. q.left - (next - q.since) \in Nat /\ q.left - (next - q.since) < q.left
        BY <2>1, <2>3, <2>6 DEF next
      <4>3. QED BY <2>1, <4>1, <4>2
    <3>3. t \in L!Counting /\ t.level = up /\ t.since = 0 /\ t.left = rest
      BY <2>2, <3>2 DEF L!Counting
    <3>4. up # TopSkill => 0 < reqTries[up + 1]
      <4>1. up # TopSkill => up + 1 \in 11..TopSkill
        BY <1>0, <2>2
      <4>2. QED BY <4>1, SkillTable
    <3> HIDE DEF t, rest
    <3>5. up # TopSkill => t.since + Base(t.level) + t.left = all
      BY <2>1, <2>3, <2>4, <3>2, <3>3
    <3>6. t \in X
      BY <2>2, <3>2, <3>3, <3>4, <3>5
    <3>7. QED BY <3>1, <3>2, <3>3, <3>6
  <2>7. QED BY <2>5, <2>6
<1> HIDE DEF turn, m, start
<1>8. last \in X \cap Done
  <2>1. \A q \in X : turn[q] \in X
    BY <1>6, <1>7
  <2>2. \A q \in X \cap Done : turn[q] \in Done
    BY <1>6
  <2>3. \A q \in X \ Done : m[turn[q]] < m[q]
    BY <1>5, <1>7
  <2>4. m[start] <= n
    BY <1>4, <1>5 DEF start
  <2> HIDE DEF X, Done
  <2>5. QED BY <1>4, <1>5, <2>1, <2>2, <2>3, <2>4, LoopEnds
<1>9. /\ last.level \in at.level..TopSkill /\ last.since \in Nat /\ last.left = 0
      /\ last.level = TopSkill => last.since = 0
      /\ last.level # TopSkill =>
           last.since < reqTries[last.level + 1] /\ last.since + Base(last.level) + last.left = all
  <2> HIDE DEF last, all
  <2>1. QED BY <1>8 DEF L!Counting
<1> HIDE DEF last
<1>10. r.level = last.level /\ r.since = last.since /\ r \in Ats
  BY <1>0, <1>3, <1>9 DEF Ats
<1>11. r.level # TopSkill => L!Tries(r) = L!Tries(at) + n
  <2>1. L!Tries(r) = last.since + Base(last.level) /\ L!Tries(at) = at.since + Base(at.level)
    BY <1>2, <1>10
  <2>2. last.level \in 10..TopSkill /\ at.level \in 10..TopSkill
    BY <1>0, <1>9
  <2>3. Base(last.level) \in Nat /\ Base(at.level) \in Nat
    BY <1>1, <2>2
  <2>4. QED BY <1>0, <1>9, <1>10, <2>1, <2>3
<1>12. QED BY <1>9, <1>10, <1>11

\* Each turn takes mana and gives two levels: what is left bounds how far they go.
LEMMA MagicAdvances ==
    ASSUME L!ProgressAssumption, NEW at \in Ats, at.level < MaxMagic, at.since < reqMana[at.level + 1],
           NEW n \in Counts, NEW r, r = L!Advanced(at, n, reqMana, 2)
    PROVE  r \in Ats /\ 0..r.level+1 \subseteq DOMAIN reqMana /\ r.since < reqMana[r.level + 1]
<1>0. /\ n \in Nat /\ n > 0 /\ MaxMagic \in Nat /\ 0..MaxMagic+2*n \subseteq DOMAIN reqMana
      /\ \A l \in DOMAIN reqMana : reqMana[l] \in Nat /\ (l # 0 => reqMana[l] > 0)
      /\ at.level \in Nat /\ at.since \in Nat
  BY DEF L!ProgressAssumption, Ats
<1> DEFINE top == MaxMagic + 2 * n
<1>1. top \in Nat /\ \A l \in 0..top : reqMana[l] \in Nat /\ (l # 0 => reqMana[l] > 0)
  BY <1>0
<1> DEFINE X == {q \in L!Counting : q.level + 1 + 2 * q.left <= top /\ q.since < reqMana[q.level + 1]}
           Done == {q \in X : q.left = 0}
           turn == L!Advance(reqMana, 2)
           m == [q \in X |-> q.left]
           start == [level |-> at.level, since |-> at.since, left |-> n]
           last == L!Loop(n, turn, start)
<1>2. r = [level |-> last.level, since |-> last.since]
  BY DEF L!Advanced, L!With, L!At
<1>3. start \in X
  BY <1>0 DEF L!Counting
<1> HIDE DEF top
<1>4. m \in [X -> Nat] /\ \A q \in X : m[q] = q.left
  BY DEF L!Counting
<1>5. ASSUME NEW q \in Done PROVE turn[q] = q
  BY DEF L!Advance
<1>6. ASSUME NEW q \in X \ Done PROVE turn[q] \in X /\ turn[q].left < q.left
  <2>1. /\ q.level \in Nat /\ q.since \in Nat /\ q.left \in Nat /\ q.left # 0 /\ q \in L!Counting
        /\ q.level + 1 + 2 * q.left <= top /\ q.since < reqMana[q.level + 1]
    BY DEF L!Counting
  <2> DEFINE next == reqMana[q.level + 1]
             up == q.level + 2
  <2>2. q.level + 1 \in 0..top /\ up \in Nat /\ up + 1 \in 0..top /\ up + 1 # 0
    BY <1>1, <2>1
  <2>3. next \in Nat /\ reqMana[up + 1] \in Nat /\ reqMana[up + 1] > 0
    BY <1>1, <2>2
  <2> HIDE DEF up, next
  <2>4. CASE q.since + q.left < next
    <3> DEFINE t == [level |-> q.level, since |-> q.since + q.left, left |-> 0]
    <3>1. turn[q] = t
      <4>1. turn[q] = [q EXCEPT !.since = q.since + q.left, !.left = 0]
        BY <2>1, <2>4 DEF L!Advance, next
      <4>2. QED BY <2>1, <4>1 DEF L!Counting
    <3>2. t \in L!Counting /\ t.level = q.level /\ t.since = q.since + q.left /\ t.left = 0
      BY <2>1 DEF L!Counting
    <3> HIDE DEF t
    <3>3. t.level + 1 + 2 * t.left <= top
      BY <1>1, <2>1, <3>2
    <3>4. t \in X
      BY <2>4, <3>2, <3>3 DEF next
    <3>5. QED BY <2>1, <3>1, <3>2, <3>4
  <2>5. CASE ~(q.since + q.left < next)
    <3> DEFINE rest == IF next > reqMana[up + 1] THEN 0 ELSE q.left - (next - q.since)
               t == [level |-> up, since |-> 0, left |-> rest]
    <3>1. turn[q] = t
      BY <2>1, <2>5 DEF L!Advance, L!With, L!At, next, up
    <3>2. rest \in Nat /\ rest < q.left
      BY <2>1, <2>3, <2>5 DEF next
    <3>3. t \in L!Counting /\ t.level = up /\ t.since = 0 /\ t.left = rest
      BY <2>2, <3>2 DEF L!Counting
    <3> HIDE DEF t, rest
    <3>4. t.level + 1 + 2 * t.left <= top
      BY <1>1, <2>1, <3>2, <3>3 DEF up
    <3>5. t \in X
      BY <2>3, <3>3, <3>4
    <3>6. QED BY <3>1, <3>2, <3>3, <3>5
  <2>6. QED BY <2>4, <2>5
<1> HIDE DEF turn, m, start
<1>7. last \in X \cap Done
  <2>1. \A q \in X : turn[q] \in X
    BY <1>5, <1>6
  <2>2. \A q \in X \cap Done : turn[q] \in Done
    BY <1>5
  <2>3. \A q \in X \ Done : m[turn[q]] < m[q]
    BY <1>4, <1>6
  <2>4. m[start] <= n
    BY <1>0, <1>3, <1>4 DEF start
  <2> HIDE DEF X, Done
  <2>5. QED BY <1>0, <1>3, <1>4, <2>1, <2>2, <2>3, <2>4, LoopEnds
<1>8. last.level \in Nat /\ last.since \in Nat /\ last.level + 1 <= top /\ last.since < reqMana[last.level + 1]
  <2> HIDE DEF last
  <2>1. last \in L!Counting /\ last.level + 1 + 2 * last.left <= top /\ last.since < reqMana[last.level + 1]
        /\ last.left = 0
    BY <1>7
  <2>2. last.level \in Nat /\ last.since \in Nat
    BY <2>1 DEF L!Counting
  <2>3. QED BY <1>1, <2>1, <2>2
<1> HIDE DEF last
<1>9. r.level = last.level /\ r.since = last.since /\ r \in Ats
  BY <1>2, <1>8 DEF Ats
<1>10. 0..r.level+1 \subseteq 0..top
  BY <1>1, <1>8, <1>9
<1>11. QED BY <1>0, <1>8, <1>9, <1>10 DEF top

-----------------------------------------------------------------------------
(* Progress: what a death takes                                            *)

LEMMA DivIs ==
    ASSUME NEW a \in Nat, NEW b \in Nat, b > 0
    PROVE  a \div b \in Nat /\ b * (a \div b) <= a
  OBVIOUS

\* A tenth at most of the experience.
LEMMA LossIsSmall ==
    ASSUME NEW e \in Nat, NEW percent \in Nat, percent <= 100
    PROVE  (e * percent) \div 1000 \in Nat /\ 10 * ((e * percent) \div 1000) <= e
<1> DEFINE a == e * percent
           d == a \div 1000
<1>1. a \in Nat /\ a <= e * 100
  OBVIOUS
<1>2. d \in Nat /\ 1000 * d <= a
  BY <1>1, DivIs
<1> HIDE DEF a, d
<1>3. 10 * d <= e
  BY <1>1, <1>2
<1>4. QED BY <1>2, <1>3 DEF a, d

\* A share of something, rounded up, is not more than that.
LEMMA ShareIs ==
    ASSUME NEW a \in Nat, NEW b \in Nat, b > 0, a <= b, NEW n \in Nat
    PROVE  L!Ceil(a * n, b) \in Nat /\ L!Ceil(a * n, b) <= n
<1> DEFINE c == a * n + b - 1
           d == c \div b
<1>1. a * n \in Nat /\ b * n \in Nat /\ a * n <= b * n
  <2>1. (b - a) * n >= 0
    OBVIOUS
  <2>2. QED BY <2>1
<1>2. c \in Nat
  BY <1>1
<1>3. d \in Nat /\ b * d <= c
  BY <1>2, DivIs
<1> HIDE DEF d
<1>4. d <= n
  <2>1. SUFFICES ASSUME d >= n + 1 PROVE FALSE
    BY <1>3
  <2>2. b * d >= b * n + b
    <3>1. b * (d - (n + 1)) >= 0
      BY <1>3, <2>1
    <3>2. QED BY <1>3, <3>1
  <2>3. QED BY <1>1, <1>3, <2>2
<1>5. L!Ceil(a * n, b) = d
  BY DEF L!Ceil, d
<1>6. QED BY <1>3, <1>4, <1>5

-----------------------------------------------------------------------------
(* Progress: the inductive invariant                                       *)

\* Levels are in their tables, and of mana a login will not find just what the next level asks.
ProgressInv ==
    /\ L!TypeOK /\ L!LevelFits /\ healthMax = L!HealthFor(level) /\ L!SkillFits /\ L!MagicFits
    /\ level \in 1..TopLevel /\ skill.level \in 10..TopSkill
    /\ 0..magic.level+1 \subseteq DOMAIN reqMana /\ magic.since # reqMana[magic.level + 1]

\* Its part about skills, of which an operator tells.
SkillIs(at, tries) ==
    /\ at \in Ats /\ at.level \in 10..TopSkill /\ L!Tries(at) = tries
    /\ at.level = TopSkill => at.since = 0
    /\ at.level # TopSkill => at.since < reqTries[at.level + 1]
MagicIs(at) ==
    /\ at \in Ats /\ 0..at.level+1 \subseteq DOMAIN reqMana /\ at.since # reqMana[at.level + 1]
LevelIs ==
    /\ level \in 1..TopLevel /\ experience \in Nat /\ healthMax \in Nat /\ vocation \in {0, 1}
    /\ L!LevelFits /\ healthMax = L!HealthFor(level)

LEMMA ProgressInvIs ==
    ASSUME L!ProgressAssumption
    PROVE  ProgressInv <=> /\ LevelIs /\ SkillIs(skill, trained) /\ trained \in Nat /\ inGame \in BOOLEAN
                           /\ MagicIs(magic) /\ (inGame => magic.since < reqMana[magic.level + 1])
<1>1. skill.level \in 10..TopSkill => (reqTries[skill.level] > reqTries[skill.level + 1] <=> skill.level = TopSkill)
  BY SkillTable
<1>2. skill.level \in 10..TopSkill =>
        (L!SkillFits <=> /\ L!Tries(skill) = trained
                         /\ skill.level = TopSkill => skill.since = 0
                         /\ skill.level # TopSkill => skill.since < reqTries[skill.level + 1])
  BY <1>1 DEF L!SkillFits
<1>3. level \in 1..TopLevel => level \in Nat \ {0}
  BY LevelTable
<1>4. QED BY <1>2, <1>3 DEF ProgressInv, LevelIs, SkillIs, MagicIs, Ats, L!TypeOK, L!MagicFits

LEMMA ProgressInvIsNext ==
    ASSUME L!ProgressAssumption,
           LevelIs', SkillIs(skill', trained'), trained' \in Nat, inGame' \in BOOLEAN,
           MagicIs(magic'), inGame' => magic'.since < reqMana[magic'.level + 1]
    PROVE  ProgressInv'
<1>1. skill'.level \in 10..TopSkill => (reqTries[skill'.level] > reqTries[skill'.level + 1] <=> skill'.level = TopSkill)
  BY SkillTable
<1>2. L!SkillFits'
  BY <1>1 DEF L!SkillFits, SkillIs, L!Tries, L!Paid
<1>3. level' \in 1..TopLevel => level' \in Nat \ {0}
  BY LevelTable
<1>4. QED BY <1>2, <1>3 DEF ProgressInv, LevelIs, SkillIs, MagicIs, Ats, L!TypeOK, L!MagicFits

LEMMA HealthStays ==
    ASSUME vocation' = vocation, NEW l, level' = l
    PROVE  L!HealthFor(level)' = L!HealthFor(l)
  BY DEF L!HealthFor, L!GainAt

LEMMA SelfFits ==
    ASSUME L!ProgressAssumption, LevelIs
    PROVE  Grown(L!self) /\ Enough(L!self) /\ Few(L!self) /\ L!self.experience = experience
<1>1. L!self = [level |-> level, experience |-> experience, healthMax |-> healthMax]
  BY DEF L!self
<1>2. level \in Nat
  BY LevelTable DEF LevelIs
<1>3. L!self \in L!Selves /\ L!self.level = level /\ L!self.experience = experience /\ L!self.healthMax = healthMax
  BY <1>1, <1>2 DEF LevelIs, L!Selves
<1>4. QED BY <1>3 DEF LevelIs, Grown, Enough, Few, L!LevelFits

LEMMA LevelBecomes ==
    ASSUME L!ProgressAssumption, vocation \in {0, 1}, vocation' = vocation,
           NEW p, Grown(p), Enough(p), Few(p), L!Becomes(p)
    PROVE  LevelIs'
<1>1. level' = p.level /\ experience' = p.experience /\ healthMax' = p.healthMax
  BY DEF L!Becomes
<1>2. level' \in 1..TopLevel /\ experience' \in Nat /\ healthMax' \in Nat /\ vocation' \in {0, 1}
  BY <1>1 DEF Grown, L!Selves
<1>3. L!HealthFor(level)' = healthMax'
  BY <1>1, HealthStays DEF Grown
<1>4. L!LevelFits'
  BY <1>1 DEF L!LevelFits, Enough, Few, L!Highest
<1>5. QED BY <1>2, <1>3, <1>4 DEF LevelIs

LEMMA WithExperienceFits ==
    ASSUME L!ProgressAssumption, LevelIs, NEW n \in Nat, NEW p, p = L!WithExperience(L!self, n)
    PROVE  Grown(p) /\ Enough(p) /\ Few(p)
<1> DEFINE q == [L!self EXCEPT !.experience = @ + n]
<1>1. Grown(L!self) /\ Enough(L!self) /\ Few(L!self) /\ L!self.experience = experience /\ experience \in Nat
  BY SelfFits DEF LevelIs
<1>2. CASE L!Highest(L!self.level)
  BY <1>1, <1>2 DEF L!WithExperience
<1>3. CASE ~L!Highest(L!self.level)
  <2>1. q \in L!Selves /\ q.level = L!self.level /\ q.healthMax = L!self.healthMax /\ q.experience = experience + n
    BY <1>1 DEF Grown, L!Selves
  <2>2. p = L!Rise(q)
    BY <1>3 DEF L!WithExperience
  <2> HIDE DEF q
  <2>3. L!self.level \in 1..TopLevel+1 /\ expFor[L!self.level] \in Nat /\ expFor[L!self.level] <= experience
    BY <1>1, LevelTable DEF Grown, Enough
  <2>4. Grown(q) /\ Enough(q)
    BY <1>1, <2>1, <2>3 DEF Grown, Enough
  <2>5. vocation \in {0, 1}
    BY DEF LevelIs
  <2>6. QED BY <2>2, <2>4, <2>5, RiseFits
<1>4. QED BY <1>2, <1>3

LEMMA WithoutExperienceFits ==
    ASSUME L!ProgressAssumption, LevelIs, NEW n \in Nat, NEW p, p = L!WithoutExperience(L!self, n)
    PROVE  /\ Grown(p) /\ Enough(p) /\ Few(p)
           /\ p.experience = IF experience > n THEN experience - n ELSE 0
<1> DEFINE less == IF experience > n THEN experience - n ELSE 0
           q == [L!self EXCEPT !.experience = less]
<1>1. Grown(L!self) /\ Few(L!self) /\ L!self.experience = experience /\ experience \in Nat /\ vocation \in {0, 1}
  BY SelfFits DEF LevelIs
<1>2. less \in Nat /\ less <= experience
  BY <1>1
<1>3. p = L!Fall(q)
  BY <1>1 DEF L!WithoutExperience
<1> HIDE DEF less
<1>4. q \in L!Selves /\ q.level = L!self.level /\ q.healthMax = L!self.healthMax /\ q.experience = less
  BY <1>1, <1>2 DEF Grown, L!Selves
<1> HIDE DEF q
<1>5. Grown(q)
  BY <1>1, <1>4 DEF Grown
<1>6. Few(q)
  <2>1. CASE L!Highest(q.level)
    BY <2>1 DEF Few
  <2>2. CASE ~L!Highest(q.level)
    <3>1. q.level \in 1..TopLevel /\ q.level + 1 \in 1..TopLevel+1 /\ expFor[q.level + 1] \in Nat
      BY <1>5, LevelTable DEF Grown
    <3>2. experience < expFor[q.level + 1]
      BY <1>1, <1>4, <2>2 DEF Few
    <3>3. QED BY <1>1, <1>2, <1>4, <3>1, <3>2 DEF Few
  <2>3. QED BY <2>1, <2>2
<1>7. QED BY <1>1, <1>3, <1>4, <1>5, <1>6, FallFits DEF less

LEMMA ProgressStarts == ASSUME L!ProgressAssumption, L!Init PROVE ProgressInv
<1>1. /\ level = 1 /\ experience = 0 /\ healthMax = 150 /\ vocation \in {0, 1}
      /\ skill = [level |-> 10, since |-> 0] /\ magic = [level |-> 0, since |-> 0]
      /\ trained = 0 /\ inGame = TRUE
  BY DEF L!Init, L!At
<1>2. LevelIs
  <2>1. 1 \in 1..TopLevel /\ 2 \in 1..TopLevel+1 /\ 1 \in 1..TopLevel-1 /\ TopLevel # 1
    BY LevelTable
  <2>2. expFor[1] = 0 /\ expFor[2] > 0
    BY DEF L!ProgressAssumption
  <2>3. L!HealthFor(1) = 150
    BY <1>1, HealthIs
  <2>4. L!LevelFits
    BY <1>1, <2>2 DEF L!LevelFits, L!Highest
  <2>5. QED BY <1>1, <2>1, <2>3, <2>4 DEF LevelIs
<1>3. SkillIs(skill, trained)
  <2>1. 10 \in 10..TopSkill /\ 10 # TopSkill /\ 0 < reqTries[11] /\ TopSkill \in Nat /\ 10 <= TopSkill
    BY SkillTable
  <2>2. \A k \in 10+1..TopSkill : reqTries[k] \in Nat
    BY SkillTable
  <2>3. L!Sum(reqTries, 10, 10) = 0
    BY <2>1, <2>2, SumSteps
  <2>4. L!Tries(skill) = 0
    BY <1>1, <2>3 DEF L!Tries, L!Paid
  <2>5. skill \in Ats
    BY <1>1 DEF Ats
  <2>6. QED BY <1>1, <2>1, <2>4, <2>5 DEF SkillIs
<1>4. MagicIs(magic) /\ magic.since < reqMana[magic.level + 1]
  BY <1>1 DEF MagicIs, Ats, L!ProgressAssumption
<1>5. QED BY <1>1, <1>2, <1>3, <1>4, ProgressInvIs

-----------------------------------------------------------------------------
(* Progress: its actions                                                   *)

LEMMA AddExperienceStep ==
    ASSUME L!ProgressAssumption, ProgressInv, NEW n \in Gains, L!addExperience(n)
    PROVE  ProgressInv'
<1>1. LevelIs /\ n \in Nat /\ vocation \in {0, 1}
  BY ProgressInvIs DEF LevelIs, L!ProgressAssumption
<1> DEFINE p == L!WithExperience(L!self, n)
<1>2. L!Becomes(p) /\ UNCHANGED <<vocation, skill, magic, trained, inGame>>
  BY DEF L!addExperience
<1>3. Grown(p) /\ Enough(p) /\ Few(p)
  BY <1>1, WithExperienceFits
<1> HIDE DEF p
<1>4. LevelIs'
  BY <1>1, <1>2, <1>3, LevelBecomes
<1>5. QED BY <1>2, <1>4, ProgressInvIs, ProgressInvIsNext

LEMMA RemoveExperienceStep ==
    ASSUME L!ProgressAssumption, ProgressInv, NEW n \in Losses, L!removeExperience(n)
    PROVE  ProgressInv'
<1>1. LevelIs /\ n \in Nat /\ vocation \in {0, 1}
  BY ProgressInvIs DEF LevelIs, L!ProgressAssumption
<1> DEFINE p == L!WithoutExperience(L!self, n)
<1>2. L!Becomes(p) /\ UNCHANGED <<vocation, skill, magic, trained, inGame>>
  BY DEF L!removeExperience
<1>3. Grown(p) /\ Enough(p) /\ Few(p)
  BY <1>1, WithoutExperienceFits
<1> HIDE DEF p
<1>4. LevelIs'
  BY <1>1, <1>2, <1>3, LevelBecomes
<1>5. QED BY <1>2, <1>4, ProgressInvIs, ProgressInvIsNext

LEMMA LevelKept ==
    ASSUME LevelIs, UNCHANGED <<level, experience, healthMax, vocation>>
    PROVE  LevelIs'
<1>1. L!HealthFor(level)' = L!HealthFor(level)
  BY HealthStays
<1>2. QED BY <1>1 DEF LevelIs, L!LevelFits, L!Highest

LEMMA AddSkillAdvanceStep ==
    ASSUME L!ProgressAssumption, ProgressInv, NEW n \in Counts, L!addSkillAdvance(n)
    PROVE  ProgressInv'
<1>0. /\ LevelIs /\ n \in Nat /\ SkillIs(skill, trained) /\ trained \in Nat
      /\ inGame \in BOOLEAN /\ MagicIs(magic) /\ (inGame => magic.since < reqMana[magic.level + 1])
  BY ProgressInvIs DEF L!ProgressAssumption
<1>1. /\ ~ reqTries[skill.level] > reqTries[skill.level + 1]
      /\ skill' = L!Advanced(skill, n, reqTries, 1)
      /\ trained' = IF skill'.level > skill.level /\ reqTries[skill'.level] > reqTries[skill'.level + 1]
                    THEN L!Tries(skill') ELSE trained + n
      /\ UNCHANGED <<level, experience, healthMax, vocation, magic, inGame>>
  BY DEF L!addSkillAdvance
<1>2. skill \in Ats /\ skill.level \in 10..TopSkill-1 /\ skill.since < reqTries[skill.level + 1]
      /\ L!Tries(skill) = trained
  BY <1>0, <1>1, SkillTable DEF SkillIs
<1> DEFINE r == skill'
<1>3. /\ r \in Ats /\ r.level \in skill.level..TopSkill
      /\ r.level = TopSkill => r.since = 0
      /\ r.level # TopSkill => r.since < reqTries[r.level + 1] /\ L!Tries(r) = trained + n
  BY <1>0, <1>1, <1>2, SkillAdvances
<1> HIDE DEF r
<1>4. r.level \in 10..TopSkill /\ (r.level = TopSkill => r.level > skill.level)
  BY <1>2, <1>3, SkillTable
<1>5. (reqTries[r.level] > reqTries[r.level + 1]) <=> r.level = TopSkill
  BY <1>4, SkillTable
<1>6. L!Tries(r) \in Nat
  <2>1. \A k \in 10+1..TopSkill : reqTries[k] \in Nat
    BY SkillTable
  <2>2. 10 \in Nat /\ TopSkill \in Nat /\ 10 <= TopSkill
    BY SkillTable
  <2>3. L!Sum(reqTries, 10, r.level) \in Nat
    BY <1>4, <2>1, <2>2, SumSteps
  <2>4. QED BY <1>3, <2>3 DEF L!Tries, L!Paid, Ats
<1>7. trained' = L!Tries(r)
  <2>1. trained' = IF r.level > skill.level /\ reqTries[r.level] > reqTries[r.level + 1]
                   THEN L!Tries(r) ELSE trained + n
    BY <1>1 DEF r
  <2>2. QED BY <1>3, <1>4, <1>5, <2>1
<1>8. SkillIs(skill', trained') /\ trained' \in Nat
  BY <1>3, <1>4, <1>6, <1>7 DEF SkillIs, r
<1>9. LevelIs'
  BY <1>0, <1>1, LevelKept
<1>10. QED BY <1>0, <1>1, <1>8, <1>9, ProgressInvIsNext

LEMMA AddManaSpentStep ==
    ASSUME L!ProgressAssumption, ProgressInv, inGame, NEW n \in Counts, L!addManaSpent(n)
    PROVE  ProgressInv'
<1>0. /\ LevelIs /\ n \in Nat /\ SkillIs(skill, trained) /\ trained \in Nat
      /\ MagicIs(magic) /\ magic.since < reqMana[magic.level + 1]
  BY ProgressInvIs DEF L!ProgressAssumption
<1>1. /\ magic.level < MaxMagic /\ magic' = L!Advanced(magic, n, reqMana, 2)
      /\ UNCHANGED <<level, experience, healthMax, vocation, skill, trained, inGame>>
  BY DEF L!addManaSpent
<1>2. magic' \in Ats /\ 0..magic'.level+1 \subseteq DOMAIN reqMana /\ magic'.since < reqMana[magic'.level + 1]
  BY <1>0, <1>1, MagicAdvances DEF MagicIs
<1>3. magic'.since # reqMana[magic'.level + 1]
  <2>1. magic'.level + 1 \in 0..magic'.level+1
    BY <1>2 DEF Ats
  <2>2. reqMana[magic'.level + 1] \in Nat /\ magic'.since \in Nat
    BY <1>2, <2>1 DEF L!ProgressAssumption, Ats
  <2>3. QED BY <1>2, <2>2
<1>4. LevelIs'
  BY <1>0, <1>1, LevelKept
<1>5. QED BY <1>0, <1>1, <1>2, <1>3, <1>4, ProgressInvIsNext DEF MagicIs

LEMMA SetVocationStep ==
    ASSUME L!ProgressAssumption, ProgressInv, L!setVocation
    PROVE  ProgressInv'
<1>0. /\ LevelIs /\ SkillIs(skill, trained) /\ trained \in Nat
      /\ inGame \in BOOLEAN /\ MagicIs(magic) /\ (inGame => magic.since < reqMana[magic.level + 1])
  BY ProgressInvIs
<1>1. vocation = 0 /\ level <= ToLevel /\ vocation' = 1
      /\ UNCHANGED <<level, experience, healthMax, skill, magic, trained, inGame>>
  BY DEF L!setVocation
<1>2. level \in Nat /\ ToLevel \in Nat
  BY <1>0, LevelTable DEF LevelIs, L!ProgressAssumption
<1>3. \A k \in 2..level : L!GainAt(k)' = L!GainAt(k)
  <2>1. ASSUME NEW k \in 2..level PROVE L!GainAt(k)' = L!GainAt(k)
    <3>1. k <= ToLevel
      BY <1>1, <1>2
    <3>2. QED BY <3>1 DEF L!GainAt
  <2>2. QED BY <2>1
<1>4. L!HealthFor(level)' = L!HealthFor(level)
  <2>1. [k \in 2..level |-> L!GainAt(k)'] = [k \in 2..level |-> L!GainAt(k)]
    BY <1>3
  <2>2. QED BY <1>1, <2>1 DEF L!HealthFor
<1>5. LevelIs'
  BY <1>0, <1>1, <1>4 DEF LevelIs, L!LevelFits, L!Highest
<1>6. QED BY <1>0, <1>1, <1>5, ProgressInvIsNext

LEMMA LoginStep ==
    ASSUME L!ProgressAssumption, ProgressInv, L!Login
    PROVE  ProgressInv'
<1>0. /\ LevelIs /\ SkillIs(skill, trained) /\ trained \in Nat /\ MagicIs(magic)
  BY ProgressInvIs
<1>1. /\ inGame' = TRUE /\ UNCHANGED <<level, healthMax, vocation, trained>>
      /\ experience' = IF experience < expFor[level] \/ experience > expFor[level + 1] THEN expFor[level] ELSE experience
      /\ skill' = [skill EXCEPT !.since = IF @ > reqTries[skill.level + 1] THEN 0 ELSE @]
      /\ magic' = [magic EXCEPT !.since = IF @ > reqMana[magic.level + 1] THEN 0 ELSE @]
  BY DEF L!Login
<1>2. level \in 1..TopLevel /\ level + 1 \in 1..TopLevel+1 /\ level \in 1..TopLevel+1
      /\ experience \in Nat /\ L!LevelFits
  BY <1>0, LevelTable DEF LevelIs
<1>3. expFor[level] \in Nat /\ expFor[level + 1] \in Nat
  BY <1>2, LevelTable
<1>4. experience' \in Nat /\ L!LevelFits'
  <2>1. CASE L!Highest(level)
    BY <1>1, <1>2, <1>3, <2>1 DEF L!LevelFits, L!Highest
  <2>2. CASE ~L!Highest(level)
    BY <1>1, <1>2, <1>3, <2>2 DEF L!LevelFits, L!Highest
  <2>3. QED BY <2>1, <2>2
<1>5. LevelIs'
  <2>1. L!HealthFor(level)' = L!HealthFor(level)
    BY <1>1, HealthStays
  <2>2. QED BY <1>0, <1>1, <1>4, <2>1 DEF LevelIs
<1>6. skill' = skill
  <2>1. skill \in Ats /\ skill.since \in Nat
    BY <1>0 DEF SkillIs, Ats
  <2>2. ~ skill.since > reqTries[skill.level + 1]
    <3>1. skill.level \in 10..TopSkill /\ skill.level + 1 \in 10..TopSkill+1
      BY <1>0, SkillTable DEF SkillIs
    <3>2. reqTries[skill.level + 1] \in Nat
      BY <3>1, SkillTable
    <3>3. QED BY <1>0, <2>1, <3>2 DEF SkillIs
  <2>3. skill' = [skill EXCEPT !.since = skill.since]
    BY <1>1, <2>2
  <2>4. QED BY <2>1, <2>3 DEF Ats
<1>7. MagicIs(magic') /\ magic'.since < reqMana[magic'.level + 1]
  <2>1. magic \in Ats /\ magic.level \in Nat /\ magic.since \in Nat /\ 0..magic.level+1 \subseteq DOMAIN reqMana
        /\ magic.since # reqMana[magic.level + 1]
    BY <1>0 DEF MagicIs, Ats
  <2>2. magic.level + 1 \in DOMAIN reqMana /\ magic.level + 1 # 0
    BY <2>1
  <2>3. reqMana[magic.level + 1] \in Nat /\ reqMana[magic.level + 1] > 0
    BY <2>2 DEF L!ProgressAssumption
  <2> DEFINE s == IF magic.since > reqMana[magic.level + 1] THEN 0 ELSE magic.since
  <2>4. s \in Nat /\ s < reqMana[magic.level + 1]
    BY <2>1, <2>3
  <2>5. magic' = [magic EXCEPT !.since = s]
    BY <1>1
  <2> HIDE DEF s
  <2>6. magic'.level = magic.level /\ magic'.since = s /\ magic' \in Ats
    BY <2>1, <2>4, <2>5 DEF Ats
  <2>7. QED BY <2>1, <2>3, <2>4, <2>6 DEF MagicIs
<1>8. QED BY <1>0, <1>1, <1>5, <1>6, <1>7, ProgressInvIsNext

LEMMA DeathTakes ==
    ASSUME L!ProgressAssumption, LevelIs, NEW loss, loss = (experience * LossPercent) \div 1000,
           NEW p, p = L!WithoutExperience(L!self, loss), NEW n \in Nat
    PROVE  /\ Grown(p) /\ Enough(p) /\ Few(p)
           /\ p.experience # 0 => L!Ceil(loss * n, p.experience) \in Nat /\ L!Ceil(loss * n, p.experience) <= n
<1>1. experience \in Nat /\ LossPercent \in Nat /\ LossPercent <= 100
  BY DEF LevelIs, L!ProgressAssumption
<1>2. loss \in Nat /\ 10 * loss <= experience
  BY <1>1, LossIsSmall
<1>3. Grown(p) /\ Enough(p) /\ Few(p) /\ p.experience = IF experience > loss THEN experience - loss ELSE 0
  BY <1>2, WithoutExperienceFits
<1>4. ASSUME p.experience # 0 PROVE L!Ceil(loss * n, p.experience) \in Nat /\ L!Ceil(loss * n, p.experience) <= n
  <2>1. p.experience = experience - loss /\ experience > loss
    BY <1>3, <1>4
  <2>2. p.experience \in Nat /\ p.experience > 0 /\ loss <= p.experience
    BY <1>1, <1>2, <2>1
  <2>3. QED BY <1>2, <2>2, ShareIs
<1>5. QED BY <1>3, <1>4

LEMMA SkillReduces ==
    ASSUME L!ProgressAssumption, SkillIs(skill, trained), trained \in Nat,
           NEW n \in Nat, n <= trained, NEW r, r = L!Reduced(skill, n, reqTries, 10)
    PROVE  SkillIs(r, trained - n)
<1>1. skill \in Ats /\ skill.level \in 10..TopSkill /\ skill.level \in Nat /\ skill.since \in Nat
      /\ L!Paid(skill, reqTries, 10) = trained /\ TopSkill \in Nat
  BY SkillTable DEF SkillIs, Ats, L!Tries
<1>2. \A k \in 10+1..skill.level : reqTries[k] \in Nat
  BY <1>1, SkillTable
<1>3. 10 \in Nat /\ skill.level >= 10 /\ n <= L!Paid(skill, reqTries, 10)
  BY <1>1
<1>4. /\ r \in Ats /\ r.level \in 10..skill.level
      /\ L!Paid(r, reqTries, 10) = L!Paid(skill, reqTries, 10) - n
      /\ r.level = skill.level => r.since = skill.since - n
      /\ r.level < skill.level => r.since < reqTries[r.level + 1]
  <2> DEFINE at == skill
             lowest == 10
  <2>1. /\ at \in Ats /\ lowest \in Nat /\ at.level >= lowest
        /\ \A k \in lowest+1..at.level : reqTries[k] \in Nat
        /\ n <= L!Paid(at, reqTries, lowest) /\ r = L!Reduced(at, n, reqTries, lowest)
    BY <1>1, <1>2, <1>3
  <2> HIDE DEF at, lowest
  <2>2. /\ r \in Ats /\ r.level \in lowest..at.level
        /\ L!Paid(r, reqTries, lowest) = L!Paid(at, reqTries, lowest) - n
        /\ r.level = at.level => r.since = at.since - n
        /\ r.level < at.level => r.since < reqTries[r.level + 1]
    BY <2>1, ReducedIs
  <2>3. QED BY <2>2 DEF at, lowest
<1>5. r.level \in 10..TopSkill /\ L!Tries(r) = trained - n /\ r.since \in Nat
  BY <1>1, <1>4 DEF L!Tries, Ats
<1>6. CASE r.level = skill.level
  <2>1. r.since <= skill.since
    BY <1>1, <1>4, <1>6
  <2>2. r.level = TopSkill => r.since = 0
    BY <1>5, <1>6, <2>1 DEF SkillIs
  <2>3. ASSUME r.level # TopSkill PROVE r.since < reqTries[r.level + 1]
    <3>1. r.level + 1 \in 10..TopSkill+1
      BY <1>1, <1>5
    <3>2. reqTries[r.level + 1] \in Nat /\ skill.since < reqTries[r.level + 1]
      BY <1>6, <2>3, <3>1, SkillTable DEF SkillIs
    <3>3. QED BY <1>1, <1>5, <2>1, <3>2
  <2>4. QED BY <1>4, <1>5, <2>2, <2>3 DEF SkillIs
<1>7. CASE r.level # skill.level
  <2>1. r.level < skill.level /\ r.level # TopSkill
    BY <1>1, <1>4, <1>7
  <2>2. QED BY <1>4, <1>5, <2>1 DEF SkillIs
<1>8. QED BY <1>6, <1>7

LEMMA MagicPaid ==
    ASSUME L!ProgressAssumption, MagicIs(magic)
    PROVE  /\ L!Paid(magic, reqMana, 0) \in Nat /\ magic.level \in Nat /\ magic.since \in Nat
           /\ \A k \in 0..magic.level+1 : reqMana[k] \in Nat /\ (k # 0 => reqMana[k] > 0)
<1>1. magic.level \in Nat /\ magic.since \in Nat /\ 0..magic.level+1 \subseteq DOMAIN reqMana
  BY DEF MagicIs, Ats
<1>2. \A k \in 0..magic.level+1 : reqMana[k] \in Nat /\ (k # 0 => reqMana[k] > 0)
  BY <1>1 DEF L!ProgressAssumption
<1>3. \A k \in 0+1..magic.level : reqMana[k] \in Nat
  BY <1>1, <1>2
<1>4. 0 \in Nat /\ 0 <= magic.level /\ magic.level \in 0..magic.level
  BY <1>1
<1>5. L!Sum(reqMana, 0, magic.level) \in Nat
  BY <1>1, <1>3, <1>4, SumSteps
<1>6. QED BY <1>1, <1>2, <1>5 DEF L!Paid

LEMMA MagicReduces ==
    ASSUME L!ProgressAssumption, MagicIs(magic), magic.since < reqMana[magic.level + 1],
           NEW n \in Nat, n <= L!Paid(magic, reqMana, 0), NEW r, r = L!Reduced(magic, n, reqMana, 0)
    PROVE  MagicIs(r)
<1>1. /\ magic \in Ats /\ magic.level \in Nat /\ magic.since \in Nat /\ 0..magic.level+1 \subseteq DOMAIN reqMana
      /\ \A k \in 0..magic.level+1 : reqMana[k] \in Nat
  BY MagicPaid DEF MagicIs
<1>2. \A k \in 0+1..magic.level : reqMana[k] \in Nat
  BY <1>1
<1>3. 0 \in Nat /\ magic.level >= 0
  BY <1>1
<1>4. /\ r \in Ats /\ r.level \in 0..magic.level
      /\ r.level = magic.level => r.since = magic.since - n
      /\ r.level < magic.level => r.since < reqMana[r.level + 1]
  BY <1>1, <1>2, <1>3, ReducedIs
<1>5. r.level \in Nat /\ r.since \in Nat /\ r.level + 1 \in 0..magic.level+1 /\ 0..r.level+1 \subseteq 0..magic.level+1
  BY <1>1, <1>4 DEF Ats
<1>6. reqMana[r.level + 1] \in Nat
  BY <1>1, <1>5
<1>7. r.since < reqMana[r.level + 1]
  <2>1. CASE r.level = magic.level
    BY <1>1, <1>4, <1>5, <1>6, <2>1
  <2>2. CASE r.level < magic.level
    BY <1>4, <2>2
  <2>3. QED BY <1>1, <1>4, <2>1, <2>2
<1>8. QED BY <1>1, <1>4, <1>5, <1>6, <1>7 DEF MagicIs

LEMMA OnDeathStep ==
    ASSUME L!ProgressAssumption, ProgressInv, inGame, L!onDeath
    PROVE  ProgressInv'
<1>0. /\ LevelIs /\ SkillIs(skill, trained) /\ trained \in Nat /\ vocation \in {0, 1}
      /\ MagicIs(magic) /\ magic.since < reqMana[magic.level + 1]
  BY ProgressInvIs DEF LevelIs
<1> DEFINE loss == (experience * LossPercent) \div 1000
           p == L!WithoutExperience(L!self, loss)
           none == p.experience = 0
           Lost(n) == IF none THEN 0 ELSE L!Ceil(loss * n, p.experience)
           reset == vocation # 0 /\ p.level <= LevelTo
           paid == L!Paid(magic, reqMana, 0)
           much == Huge + (IF magic.level = 0 THEN magic.since ELSE reqMana[1])
<1>1. inGame' = FALSE
  BY DEF L!onDeath
<1>2. reset => /\ L!Becomes([level |-> 1, experience |-> 0, healthMax |-> 150]) /\ vocation' = 0
               /\ skill' = L!At(10, 0) /\ magic' = L!At(0, 0) /\ trained' = 0
  BY DEF L!onDeath
<1>3. ~reset => /\ L!Becomes(p) /\ UNCHANGED vocation
                /\ skill' = L!Reduced(skill, Lost(L!Tries(skill)), reqTries, 10)
                /\ trained' = trained - Lost(L!Tries(skill))
                /\ \/ magic' = L!Reduced(magic, Lost(paid), reqMana, 0)
                   \/ magic' = L!At(0, much)
  BY DEF L!onDeath
<1>4. Grown(p) /\ Enough(p) /\ Few(p)
  <2>1. 0 \in Nat
    OBVIOUS
  <2> HIDE DEF p, loss
  <2>2. loss = (experience * LossPercent) \div 1000 /\ p = L!WithoutExperience(L!self, loss)
    BY DEF p, loss
  <2>3. QED BY <1>0, <2>1, <2>2, DeathTakes
<1>5. ASSUME NEW n \in Nat PROVE Lost(n) \in Nat /\ Lost(n) <= n
  <2>1. p.experience # 0 => L!Ceil(loss * n, p.experience) \in Nat /\ L!Ceil(loss * n, p.experience) <= n
    <3> HIDE DEF p, loss
    <3>1. loss = (experience * LossPercent) \div 1000 /\ p = L!WithoutExperience(L!self, loss)
      BY DEF p, loss
    <3>2. QED BY <1>0, <3>1, DeathTakes
  <2> HIDE DEF p, loss
  <2>2. QED BY <2>1
<1> HIDE DEF loss, p, Lost, paid, much
<1>6. CASE reset
  <2>1. /\ level' = 1 /\ experience' = 0 /\ healthMax' = 150 /\ vocation' = 0 /\ trained' = 0
        /\ skill' = [level |-> 10, since |-> 0] /\ magic' = [level |-> 0, since |-> 0]
    BY <1>2, <1>6 DEF L!Becomes, L!At
  <2>2. L!HealthFor(level)' = 150
    <3>1. L!HealthFor(level)' = 150 + L!Sum([k \in 2..1 |-> L!GainAt(k)'], 1, 1)
      BY <2>1 DEF L!HealthFor
    <3> DEFINE g == [k \in 2..1 |-> L!GainAt(k)']
    <3>2. \A k \in 1+1..1 : g[k] \in Nat
      OBVIOUS
    <3> HIDE DEF g
    <3>3. L!Sum(g, 1, 1) = 0
      BY <3>2, SumSteps
    <3>4. QED BY <3>1, <3>3 DEF g
  <2>3. L!LevelFits'
    BY <2>1 DEF L!LevelFits, L!Highest, L!ProgressAssumption
  <2>4. LevelIs'
    BY <2>1, <2>2, <2>3, LevelTable DEF LevelIs
  <2>5. SkillIs(skill', 0)
    <3>1. 10 \in 10..TopSkill /\ 10 # TopSkill /\ 0 < reqTries[11] /\ TopSkill \in Nat /\ 10 <= TopSkill
      BY SkillTable
    <3>2. \A k \in 10+1..TopSkill : reqTries[k] \in Nat
      BY SkillTable
    <3>3. L!Sum(reqTries, 10, 10) = 0
      BY <3>1, <3>2, SumSteps
    <3> DEFINE s == [level |-> 10, since |-> 0]
    <3>4. s.level = 10 /\ s.since = 0 /\ s \in Ats
      BY DEF Ats
    <3> HIDE DEF s
    <3>5. L!Tries(s) = 0
      BY <3>3, <3>4 DEF L!Tries, L!Paid
    <3>6. SkillIs(s, 0)
      BY <3>1, <3>4, <3>5 DEF SkillIs
    <3>7. QED BY <2>1, <3>6 DEF s
  <2>6. MagicIs(magic')
    BY <2>1 DEF MagicIs, Ats, L!ProgressAssumption
  <2>7. QED BY <1>1, <2>1, <2>4, <2>5, <2>6, ProgressInvIsNext
<1>7. CASE ~reset
  <2>1. LevelIs'
    BY <1>0, <1>3, <1>4, <1>7, LevelBecomes
  <2>2. SkillIs(skill', trained') /\ trained' \in Nat
    <3> DEFINE n == Lost(trained)
    <3>1. n \in Nat /\ n <= trained
      BY <1>0, <1>5
    <3>2. skill' = L!Reduced(skill, n, reqTries, 10) /\ trained' = trained - n
      BY <1>0, <1>3, <1>7 DEF SkillIs
    <3> HIDE DEF n
    <3>3. SkillIs(skill', trained - n)
      BY <1>0, <3>1, <3>2, SkillReduces
    <3>4. QED BY <1>0, <3>1, <3>2, <3>3
  <2>3. MagicIs(magic')
    <3>1. paid \in Nat /\ magic.level \in Nat /\ magic.since \in Nat
          /\ \A k \in 0..magic.level+1 : reqMana[k] \in Nat /\ (k # 0 => reqMana[k] > 0)
      BY <1>0, MagicPaid DEF paid
    <3>2. Lost(paid) \in Nat /\ Lost(paid) <= paid
      BY <1>5, <3>1
    <3>3. CASE magic' = L!Reduced(magic, Lost(paid), reqMana, 0)
      BY <1>0, <3>2, <3>3, MagicReduces DEF paid
    <3>4. CASE magic' = L!At(0, much)
      <4>1. Huge \in Nat /\ Huge > reqMana[1] /\ {0, 1} \subseteq DOMAIN reqMana
        BY DEF L!ProgressAssumption
      <4>2. 1 \in 0..magic.level+1
        BY <3>1
      <4>3. reqMana[1] \in Nat
        BY <3>1, <4>2
      <4>4. much \in Nat /\ much # reqMana[1]
        BY <3>1, <4>1, <4>3 DEF much
      <4>5. QED BY <3>4, <4>1, <4>4 DEF L!At, MagicIs, Ats
    <3>5. QED BY <1>3, <1>7, <3>3, <3>4
  <2>4. QED BY <1>1, <2>1, <2>2, <2>3, ProgressInvIsNext
<1>8. QED BY <1>6, <1>7

LEMMA ProgressUnchanged ==
    ASSUME L!ProgressAssumption, ProgressInv, UNCHANGED L!vars
    PROVE  ProgressInv'
<1>1. UNCHANGED <<level, experience, healthMax, vocation, skill, magic, inGame, trained>>
  BY DEF L!vars
<1>2. LevelIs'
  BY <1>1, ProgressInvIs, LevelKept
<1>3. QED BY <1>1, <1>2, ProgressInvIs, ProgressInvIsNext

LEMMA ProgressInvariant == L!ProgressAssumption /\ L!Spec => []ProgressInv
<1> SUFFICES ASSUME L!ProgressAssumption PROVE L!Spec => []ProgressInv
  OBVIOUS
<1>1. L!Init => ProgressInv
  BY ProgressStarts
<1>2. ProgressInv /\ [L!Next]_(L!vars) => ProgressInv'
  <2> SUFFICES ASSUME ProgressInv, [L!Next]_(L!vars) PROVE ProgressInv'
    OBVIOUS
  <2>1. CASE UNCHANGED L!vars
    BY <2>1, ProgressUnchanged
  <2>2. ASSUME NEW n \in Gains, L!addExperience(n) PROVE ProgressInv'
    BY <2>2, AddExperienceStep
  <2>3. ASSUME NEW n \in Losses, L!removeExperience(n) PROVE ProgressInv'
    BY <2>3, RemoveExperienceStep
  <2>4. ASSUME NEW n \in Counts, L!addSkillAdvance(n) PROVE ProgressInv'
    BY <2>4, AddSkillAdvanceStep
  <2>5. ASSUME NEW n \in Counts, inGame, L!addManaSpent(n) PROVE ProgressInv'
    BY <2>5, AddManaSpentStep
  <2>6. CASE inGame /\ L!onDeath
    BY <2>6, OnDeathStep
  <2>7. CASE L!setVocation
    BY <2>7, SetVocationStep
  <2>8. CASE L!Login
    BY <2>8, LoginStep
  <2>9. QED BY <2>1, <2>2, <2>3, <2>4, <2>5, <2>6, <2>7, <2>8 DEF L!Next
<1>3. QED BY <1>1, <1>2, PTL DEF L!Spec

LEMMA PlayersHaveNumbers == PlayersSpec => L!Spec
<1>1. PlayersInit => L!Init
  BY DEF PlayersInit
<1>2. [PlayersNext]_playersVars => [L!Next]_(L!vars)
  BY DEF PlayersNext, playersVars, lVars, L!vars
<1>3. QED BY <1>1, <1>2, PTL DEF PlayersSpec, L!Spec

\* What a player has gained and lost fits together, for all tables of levels that rise to a
\* highest one and for all amounts: loops over several levels, deaths with their shares and the
\* fall back to a beginner neither lose nor invent experience, health, tries or mana.
THEOREM NumbersAlwaysFit == PlayersSpec => []NumbersFit
<1>1. L!ProgressAssumption
  BY PlayersAssumption
<1>2. ProgressInv => NumbersFit
  BY DEF ProgressInv, NumbersFit, L!NumbersFit
<1>3. QED BY <1>1, <1>2, ProgressInvariant, PlayersHaveNumbers, PTL
=============================================================================
