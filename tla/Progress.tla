------------------------------- MODULE Progress -------------------------------
(***************************************************************************)
(* What a player gains and loses (player.cpp: addExperience,               *)
(* removeExperience, addSkillAdvance, addManaSpent, onDeath; vocation.cpp; *)
(* iologindata.cpp: what a login makes of the saved numbers).              *)
(*                                                                         *)
(* One player with one skill.  Every number is kept beside others that it  *)
(* has to fit: experience and level, level and the health that levels gave *)
(* (of the vocation, or of beginners up to a level), a skill's level and   *)
(* the tries since, the magic level and the mana spent since.  The tables  *)
(* rise up to a level above which their values overflow, and drop there,   *)
(* which is how the code knows the highest level.  A loop of the code is   *)
(* the function of one turn of it, applied as often as there may be turns. *)
(*                                                                         *)
(* Percentages are of integers, so that the rounding of doubles is none.   *)
(* The division by an experience of zero after a death has no value: what  *)
(* it takes of the mana is nothing or Huge, by the processor; of tries,    *)
(* whose counter is narrower, nothing.                                     *)
(***************************************************************************)
EXTENDS Integers

CONSTANTS
    expFor, reqTries, reqMana,  \* for each level
    TopLevel, TopSkill,         \* the highest levels
    Gains, Losses, Counts,      \* amounts that kills and scripts give and take
    LossPercent,                \* of lost experience, after blessings
    VocationGain, BeginnerGain, \* health for a level
    ToLevel, LevelTo,           \* up to which levels gains are a beginner's, and one becomes one again
    Huge,                       \* half the range of the counter of mana
    MaxMagic                    \* bound: from this magic level on no mana is spent

VARIABLES
    level, experience, healthMax, vocation,
    skill, magic,  \* each a level and what was done since
    inGame,
    trained        \* history: tries that count for the skill

\* From its lowest level to the highest a table rises; above that it drops.
Rises(req, lowest, top) ==
    /\ lowest < top /\ req \in [lowest..top + 1 -> Nat]
    /\ \A l \in lowest..top - 1 : req[l] <= req[l + 1]
    /\ req[top] > req[top + 1]

ProgressAssumption ==
    /\ {LossPercent, VocationGain, BeginnerGain, ToLevel, LevelTo, TopLevel, TopSkill, Huge, MaxMagic} \subseteq Nat
    /\ LossPercent <= 100 /\ LevelTo < ToLevel
    /\ Gains \cup Losses \cup Counts \subseteq Nat \ {0}
    /\ Rises(expFor, 1, TopLevel) /\ expFor[1] = 0 /\ expFor[2] > 0
    /\ Rises(reqTries, 10, TopSkill) /\ \A l \in 11..TopSkill : reqTries[l] > 0
    \* The table of mana goes on further than this model's players get.
    /\ {0, 1} \subseteq DOMAIN reqMana /\ \A n \in Counts : 0..MaxMagic + 2 * n \subseteq DOMAIN reqMana
    /\ \A l \in DOMAIN reqMana : reqMana[l] \in Nat /\ (l # 0 => reqMana[l] > 0)
    /\ Huge > reqMana[1]

vars == <<level, experience, healthMax, vocation, skill, magic, inGame, trained>>
self == [level |-> level, experience |-> experience, healthMax |-> healthMax]

At(l, n) == [level |-> l, since |-> n]
Ceil(a, b) == (a + b - 1) \div b

\* What a loop of at most n turns makes of p.
Loop(n, turn, p) == LET after[k \in 0..n] == IF k = 0 THEN p ELSE turn[after[k - 1]] IN after[n]

\* f[from + 1] + ... + f[to]
Sum(f, from, to) == LET sum[k \in from..to] == IF k = from THEN 0 ELSE sum[k - 1] + f[k] IN sum[to]

TypeOK ==
    /\ level \in Nat \ {0} /\ experience \in Nat /\ healthMax \in Nat /\ vocation \in {0, 1}
    /\ skill \in [level : Nat, since : Nat] /\ magic \in [level : Nat, since : Nat]
    /\ trained \in Nat /\ inGame \in BOOLEAN

Init ==
    /\ level = 1 /\ experience = 0 /\ healthMax = 150 /\ vocation \in {0, 1}
    /\ skill = At(10, 0) /\ magic = At(0, 0)
    /\ trained = 0 /\ inGame = TRUE

-----------------------------------------------------------------------------
(* Experience and level                                                    *)

Highest(l) == expFor[l] > expFor[l + 1]

\* What reaching a level gives, and what falling to one takes.
GainAt(l) == IF l <= ToLevel \/ vocation = 0 THEN BeginnerGain ELSE VocationGain
\* Slip: the level that is lost is counted as the one that was gained.
LostAtOrBelow(l) == IF l <= ToLevel \/ vocation = 0 THEN BeginnerGain ELSE VocationGain
LostAt(l) == IF l < ToLevel \/ vocation = 0 THEN BeginnerGain ELSE VocationGain

Selves == [level : Nat, experience : Nat, healthMax : Nat]

Rise(p) ==
    Loop(TopLevel, [q \in Selves |->
        IF q.experience < expFor[q.level + 1] \/ Highest(q.level) THEN q
        ELSE [q EXCEPT !.level = @ + 1, !.healthMax = @ + GainAt(q.level + 1)]], p)
Fall(p) ==
    Loop(p.level, [q \in Selves |->
        IF q.level = 1 \/ q.experience >= expFor[q.level] THEN q
        ELSE [q EXCEPT !.level = @ - 1,
                       !.healthMax = IF @ > LostAt(q.level - 1) THEN @ - LostAt(q.level - 1) ELSE 0]], p)

WithExperience(p, n) == IF Highest(p.level) THEN p ELSE Rise([p EXCEPT !.experience = @ + n])
WithoutExperience(p, n) == Fall([p EXCEPT !.experience = IF @ > n THEN @ - n ELSE 0])

Becomes(p) == level' = p.level /\ experience' = p.experience /\ healthMax' = p.healthMax

addExperience(n) ==
    /\ Becomes(WithExperience(self, n))
    /\ UNCHANGED <<vocation, skill, magic, trained, inGame>>
removeExperience(n) ==
    /\ Becomes(WithoutExperience(self, n))
    /\ UNCHANGED <<vocation, skill, magic, trained, inGame>>

-----------------------------------------------------------------------------
(* Skill and magic                                                         *)

Counting == [level : Nat, since : Nat, left : Nat]
With(at, n) == [level |-> at.level, since |-> at.since, left |-> n]

\* Advances of step levels for what the next one asks; the rest counts for the one after,
\* or is lost at the highest.
Advance(req, step) == [q \in Counting |->
    LET next == req[q.level + 1]
        up == q.level + step
    IN IF q.left = 0 THEN q
       ELSE IF q.since + q.left < next THEN [q EXCEPT !.since = @ + q.left, !.left = 0]
       ELSE With(At(up, 0), IF next > req[up + 1] THEN 0 ELSE q.left - (next - q.since))]
Advanced(at, n, req, step) ==
    LET q == Loop(n, Advance(req, step), With(at, n)) IN At(q.level, q.since)

Reduce(req, lowest) == [q \in Counting |->
    IF q.left > q.since /\ q.level > lowest THEN With(At(q.level - 1, req[q.level]), q.left - q.since) ELSE q]
Reduced(at, n, req, lowest) ==
    LET q == Loop(at.level, Reduce(req, lowest), With(at, n)) IN At(q.level, q.since - q.left)

Paid(at, req, lowest) == at.since + Sum(req, lowest, at.level)
Tries(at) == Paid(at, reqTries, 10)

addSkillAdvance(n) ==
    /\ ~ reqTries[skill.level] > reqTries[skill.level + 1]
    /\ skill' = Advanced(skill, n, reqTries, 1)
    /\ trained' = IF skill'.level > skill.level /\ reqTries[skill'.level] > reqTries[skill'.level + 1]
                  THEN Tries(skill') ELSE trained + n
    /\ UNCHANGED <<level, experience, healthMax, vocation, magic, inGame>>

\* The level is raised where it is counted and again where it is printed.
addManaSpent(n) ==
    /\ magic.level < MaxMagic
    /\ ~ (magic.level > 0 /\ reqMana[magic.level] > reqMana[magic.level + 1])
    /\ magic' = Advanced(magic, n, reqMana, 2)
    /\ UNCHANGED <<level, experience, healthMax, vocation, skill, trained, inGame>>

-----------------------------------------------------------------------------
(* Death, and the way back into the game                                   *)

\* The share that skills lose is that of the lost experience in what is left of it.
onDeath ==
    LET loss == (experience * LossPercent) \div 1000
        p == WithoutExperience(self, loss)
        none == p.experience = 0
        Lost(n) == IF none THEN 0 ELSE Ceil(loss * n, p.experience)
        reset == vocation # 0 /\ p.level <= LevelTo
    IN /\ inGame' = FALSE
       /\ IF reset
          THEN /\ Becomes([level |-> 1, experience |-> 0, healthMax |-> 150]) /\ vocation' = 0
               /\ skill' = At(10, 0) /\ magic' = At(0, 0) /\ trained' = 0
          ELSE /\ Becomes(p)
               /\ skill' = Reduced(skill, Lost(Tries(skill)), reqTries, 10)
               /\ trained' = trained - Lost(Tries(skill))
               /\ \/ magic' = Reduced(magic, Lost(Paid(magic, reqMana, 0)), reqMana, 0)
                  \/ none /\ magic' = At(0, Huge + (IF magic.level = 0 THEN magic.since ELSE reqMana[1]))
               /\ UNCHANGED vocation

\* loadPlayer, after a logout or a death: what does not fit its level is set back.
Login ==
    /\ inGame' = TRUE
    /\ experience' = IF experience < expFor[level] \/ experience > expFor[level + 1]
                     THEN expFor[level] ELSE experience
    /\ LET AsLoaded(at, req) == [at EXCEPT !.since = IF @ > req[at.level + 1] THEN 0 ELSE @]
       IN /\ skill' = AsLoaded(skill, reqTries)
          /\ magic' = AsLoaded(magic, reqMana)
    /\ UNCHANGED <<level, healthMax, vocation, trained>>

\* A beginner chooses his vocation by the level at which he may leave.
setVocation ==
    /\ vocation = 0 /\ level <= ToLevel /\ vocation' = 1
    /\ UNCHANGED <<level, experience, healthMax, skill, magic, trained, inGame>>

Next ==
    \/ /\ inGame
       /\ \/ \E n \in Gains : addExperience(n)
          \/ \E n \in Losses : removeExperience(n)
          \/ \E n \in Counts : addSkillAdvance(n) \/ addManaSpent(n)
          \/ onDeath \/ setVocation
    \/ Login

Spec == Init /\ [][Next]_vars

-----------------------------------------------------------------------------
(* Property                                                                *)

\* Experience is that of the level, and no more than it unless there is no higher one.
LevelFits ==
    /\ expFor[level] <= experience
    /\ Highest(level) \/ experience < expFor[level + 1]

\* However often levels were lost and won back, health is what the levels give.
HealthFor(l) == 150 + Sum([k \in 2..l |-> GainAt(k)], 1, l)

\* Tries are neither lost nor won by an advance, a loss over several levels or a login, and
\* there are too few for the next level; so there is of mana for one who is in the game.
SkillFits ==
    /\ Tries(skill) = trained
    /\ IF reqTries[skill.level] > reqTries[skill.level + 1]
       THEN skill.since = 0 ELSE skill.since < reqTries[skill.level + 1]
MagicFits == inGame => magic.since < reqMana[magic.level + 1]

\* The numbers of a player fit each other, after gains over several levels, losses, deaths,
\* a fall back to a beginner and new logins in every order.
NumbersFit == LevelFits /\ healthMax = HealthFor(level) /\ SkillFits /\ MagicFits
=============================================================================
