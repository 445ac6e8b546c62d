----------------------------- MODULE Creatures ------------------------------
(***************************************************************************)
(* Creatures that think (game.cpp: placeCreature, removeCreature,          *)
(* addCreatureCheck, checkCreatures, cleanup), their idling (monster.cpp)  *)
(* and their summons (creature.cpp), with the references that keep their   *)
(* objects.                                                                *)
(*                                                                         *)
(* checkCreatures calls every creature of a bucket to think or to die, and *)
(* these calls place, remove, wake, idle and kill other creatures, some of *)
(* the same bucket: between two visits of its loop any action of World may *)
(* happen, as it may in the tasks that run while the loop rests.  What a   *)
(* creature's neighbours conclude from its coming or going is a Look of    *)
(* theirs.  The reference of a player's connection is that of Session.     *)
(***************************************************************************)
EXTENDS Integers, FiniteSets

CONSTANTS
    Creatures, NoCreature,
    Monsters,  \* those that idle, and may be summoned; the others are players
    Buckets    \* EVENT_CREATURECOUNT, how many check vectors there are

CreaturesAssumption ==
    /\ IsFiniteSet(Creatures) /\ Monsters \subseteq Creatures /\ NoCreature \notin Creatures
    /\ Buckets \in Nat \ {0}

VARIABLES
    stage,       \* of an object's life
    refs,        \* refCount
    dying,       \* those in the world without health
    isIdle,      \* and those that idle there, or are not in it
    checked,
    checkVector, \* the bucket a creature is in, or will be; -1 for none
    toAdd,       \* toAddCheckCreatureVector
    vectors,     \* checkCreatureVectors
    last,        \* checkCreatureLastIndex
    looping,     \* whether checkCreatures is under way
    toVisit,     \* what its loop has before it
    master,
    released     \* how often a creature is in releaseThings

bodies == <<stage, dying, isIdle>>
checks == <<refs, checked, checkVector, toAdd>>
visits == <<vectors, last, looping, toVisit>>
creatureVars == <<bodies, checks, visits, master, released>>

Indices == 0..Buckets-1

TypeOK ==
    /\ stage \in [Creatures -> {"new", "placed", "removed", "deleted"}]
    /\ refs \in [Creatures -> Nat] /\ released \in [Creatures -> Nat]
    /\ dying \subseteq Creatures /\ isIdle \subseteq Monsters /\ checked \subseteq Creatures
    /\ checkVector \in [Creatures -> Indices \cup {-1}] /\ last \in Indices
    /\ toAdd \subseteq Creatures /\ vectors \in [Indices -> SUBSET Creatures]
    /\ looping \in BOOLEAN /\ toVisit \subseteq Creatures
    /\ master \in [Creatures -> Creatures \cup {NoCreature}]

Init ==
    /\ stage = [c \in Creatures |-> "new"] /\ refs = [c \in Creatures |-> 0]
    /\ dying = {} /\ isIdle = Monsters /\ checked = {}
    /\ checkVector = [c \in Creatures |-> -1] /\ last = 0
    /\ toAdd = {} /\ vectors = [b \in Indices |-> {}] /\ looping = FALSE /\ toVisit = {}
    /\ master = [c \in Creatures |-> NoCreature] /\ released = [c \in Creatures |-> 0]

-----------------------------------------------------------------------------
(* What the handlers are made of                                           *)

Placed == {c \in Creatures : stage[c] = "placed"}
Summons(c) == {s \in Creatures : master[s] = c}
Plus(f, S) == [c \in Creatures |-> IF c \in S THEN f[c] + 1 ELSE f[c]]
Minus(f, S) == [c \in Creatures |-> IF c \in S THEN f[c] - 1 ELSE f[c]]
Staged(S, s) == [c \in Creatures |-> IF c \in S THEN s ELSE stage[c]]
Mastered(S, m) == [c \in Creatures |-> IF c \in S THEN m ELSE master[c]]
Bound(S) == {c \in S : master[c] # NoCreature}

\* Slip: also for those that are in a vector already.
CheckAgain(on, off, counts) ==
    /\ \E pick \in [on -> Indices] :
         checkVector' = [c \in Creatures |-> IF c \in on THEN pick[c] ELSE checkVector[c]]
    /\ checked' = (checked \cup on) \ {c \in off : checkVector'[c] # -1}
    /\ toAdd' = toAdd \cup on /\ refs' = Plus(counts, on)

\* addCreatureCheck for some, then removeCreatureCheck for others; what happened
\* to the references before is in counts.
Check(on, off, counts) ==
    LET fresh == {c \in on : checkVector[c] = -1}
    IN /\ \E pick \in [fresh -> Indices] :
            checkVector' = [c \in Creatures |-> IF c \in fresh THEN pick[c] ELSE checkVector[c]]
       /\ checked' = (checked \cup on) \ {c \in off : checkVector'[c] # -1}
       /\ toAdd' = toAdd \cup fresh /\ refs' = Plus(counts, fresh)

\* The monsters among S whom a wound wakes: setIdle leaves the dead alone.
Woken(S) == (S \cap Monsters \cap Placed) \ dying

\* S leave the world, the living of them idle; whether the dead did no longer
\* matters.
Left(S, dead, idle) ==
    stage' = Staged(S, "removed") /\ dying' = dead \ S /\ isIdle' = idle \cup (S \cap Monsters)

\* Some, and those of kin whose master is among them, or whose master's master is.
Reached(some, kin) ==
    LET upTo[n \in 0..Cardinality(Creatures)] ==
          IF n = 0 THEN some ELSE upTo[n - 1] \cup {s \in kin : master[s] \in upTo[n - 1]}
    IN upTo[Cardinality(Creatures)]

\* All that follow c, and what follows those.
Retinue(c) == Reached({c}, Placed)

\* Those whose last reference goes with releaseThings, and what their destructors
\* let go of.
Kept(n) == {c \in Creatures : refs[c] - released[c] = n}
Gone == Reached({c \in Kept(0) : released[c] > 0}, Kept(1))

-----------------------------------------------------------------------------
(* World: what the calls of the loop, and other tasks, do                  *)

\* placeCreature: the creature sees itself appear before it is checked, when a
\* monster may idle already.
Enter(c, counts) ==
    /\ stage' = Staged({c}, "placed")
    /\ isIdle' \in IF c \in Monsters THEN {isIdle, isIdle \ {c}} ELSE {isIdle}
    /\ Check({c}, {}, Plus(counts, {c}))
    /\ UNCHANGED <<dying, visits, released>>

Place(c) == stage[c] = "new" /\ Enter(c, refs) /\ UNCHANGED master

\* placeSummon: where there is no room the summon's only reference is dropped.
Summon(c, m) ==
    /\ stage[c] = "new" /\ c \in Monsters /\ m \in Placed
    /\ \/ Enter(c, Plus(refs, {c})) /\ master' = Mastered({c}, m)
       \/ /\ stage' = Staged({c}, "deleted")
          /\ UNCHANGED <<dying, isIdle, checks, visits, master, released>>

\* updateIdleStatus: an effect or a target to hunt keeps a monster awake.
Look(c) ==
    /\ c \in (Monsters \cap Placed) \ dying
    /\ \/ isIdle' = isIdle \cup {c} /\ Check({}, {c}, refs)
       \/ isIdle' = isIdle \ {c} /\ Check({c}, {}, refs)
    /\ UNCHANGED <<stage, dying, visits, master, released>>

\* changeHealth down to nothing; a monster is woken first.
Kill(c) ==
    /\ c \in Placed \ dying /\ dying' = dying \cup {c}
    /\ isIdle' = isIdle \ Woken({c}) /\ Check(Woken({c}), {}, refs)
    /\ UNCHANGED <<stage, visits, master, released>>

\* destroySummons: a player's black skull takes them.
DestroySummons(p) ==
    LET lost == Summons(p)
    IN /\ p \in Placed \ Monsters /\ lost # {}
       /\ dying' = dying \cup lost /\ isIdle' = isIdle \ Woken(lost)
       /\ Check(Woken(lost), {}, Minus(refs, lost)) /\ master' = Mastered(lost, NoCreature)
       /\ UNCHANGED <<stage, visits, released>>

\* convinceCreature: out of the service of another monster, or of none; then
\* updateIdleStatus, which a dead one ignores.
Convince(c, m) ==
    LET lost == Summons(c)
        counts == Plus(Minus(Minus(refs, lost), Bound({c})), {c})
        idles(on, off) == isIdle' = (isIdle \ on) \cup off /\ Check(on, off, counts)
    IN /\ {c, m} \subseteq Placed /\ c \in Monsters /\ m # c
       /\ master[c] \in (Monsters \cup {NoCreature}) \ {m}
       /\ dying' = dying \cup lost
       /\ master' = [Mastered(lost, NoCreature) EXCEPT ![c] = m]
       /\ \/ idles(Woken(lost) \cup Woken({c}), {})
          \/ c \notin dying /\ idles(Woken(lost), {c})
       /\ UNCHANGED <<stage, visits, released>>

\* removeCreature of c with all its retinue: for a logout or despawn.  A master
\* that stays drops c, while the removed keep their summons until they are deleted.
Remove(c) ==
    LET S == Retinue(c)
        dropped == {s \in {c} : master[s] \in Placed}
    IN /\ c \in Placed
       /\ Left(S, dying, isIdle)
       /\ Check({}, S, Minus(refs, dropped)) /\ master' = Mastered(dropped, NoCreature)
       /\ released' = Plus(released, S)
       /\ UNCHANGED visits

\* cleanup, as checkCreatureWalk calls it in a task of its own.
Cleanup ==
    /\ LET gone == Gone
           freed == {c \in Creatures : master[c] \in gone}
       IN /\ stage' = Staged(gone, "deleted") /\ master' = Mastered(freed, NoCreature)
          /\ refs' = Minus([c \in Creatures |-> refs[c] - released[c]], freed)
    /\ released' = [c \in Creatures |-> 0]
    /\ UNCHANGED <<dying, isIdle, checked, checkVector, toAdd>>
WalkCleanup == released # [c \in Creatures |-> 0] /\ Cleanup /\ UNCHANGED visits

World ==
    \/ \E c \in Creatures : Place(c) \/ Look(c) \/ Kill(c) \/ DestroySummons(c) \/ Remove(c)
    \/ \E c, m \in Creatures : Summon(c, m) \/ Convince(c, m)
    \/ ~looping /\ WalkCleanup

-----------------------------------------------------------------------------
(* checkCreatures                                                          *)

BeginCheck ==
    LET b == (last + 1) % Buckets
        filled == [i \in Indices |-> vectors[i] \cup {c \in toAdd : checkVector[c] = i}]
    IN /\ ~looping /\ looping' = TRUE
       /\ last' = b /\ vectors' = filled /\ toAdd' = {} /\ toVisit' = filled[b]
       /\ UNCHANGED <<bodies, refs, checked, checkVector, master, released>>

Passed(c) == looping /\ c \in toVisit /\ toVisit' = toVisit \ {c} /\ UNCHANGED <<last, looping>>

\* A creature that is not to be checked leaves the vector.
Leave(c) ==
    /\ Passed(c) /\ c \notin checked
    /\ checkVector' = [checkVector EXCEPT ![c] = -1]
    /\ vectors' = [vectors EXCEPT ![last] = @ \ {c}]
    /\ released' = Plus(released, {c})
    /\ UNCHANGED <<bodies, refs, checked, toAdd, master>>

\* What the living think of, and those whom a script denies their death, is done
\* by actions of World; the script may also heal.
Think(c) ==
    /\ Passed(c) /\ c \in checked
    /\ dying' \in {dying, dying \ {c}}
    /\ UNCHANGED <<stage, isIdle, checks, vectors, master, released>>

\* Monster::onDeath: it leaves its master, its summons are killed and left to
\* their own deaths.
MonsterDies(c) ==
    LET lost == Summons(c)
    IN /\ Passed(c) /\ c \in checked \cap dying \cap Monsters
       /\ Left({c}, dying \cup lost, isIdle \ Woken(lost))
       /\ Check(Woken(lost), {c}, Minus(refs, lost \cup Bound({c})))
       /\ master' = Mastered(lost \cup {c}, NoCreature)
       /\ released' = Plus(released, {c})
       /\ UNCHANGED vectors

\* Player::onDeath: removed with all its retinue.
PlayerDies(c) ==
    LET S == Retinue(c)
    IN /\ Passed(c) /\ c \in (checked \cap dying) \ Monsters
       /\ Left(S, dying, isIdle)
       /\ Check({}, S, refs) /\ released' = Plus(released, S)
       /\ UNCHANGED <<vectors, master>>

EndCheck == looping /\ toVisit = {} /\ looping' = FALSE /\ Cleanup /\ UNCHANGED <<vectors, last, toVisit>>

Loop ==
    \/ BeginCheck \/ EndCheck
    \/ \E c \in Creatures : Leave(c) \/ Think(c) \/ MonsterDies(c) \/ PlayerDies(c)

Next == World \/ Loop

Spec == Init /\ [][Next]_creatureVars

-----------------------------------------------------------------------------
(* Properties                                                              *)

Listings(c) == {i \in Indices : c \in vectors[i]}
Holders(c) ==
    (IF c \in Placed THEN 1 ELSE 0) + (IF c \in toAdd THEN 1 ELSE 0)
        + Cardinality(Listings(c)) + Cardinality(Bound({c})) + released[c]

\* What the flags and the second vector are for, whatever the calls of the loop
\* do to the vector it is in: a creature has one reference for each place that
\* holds it, thus is deleted once and never while it is listed, released or
\* placed; it is in the vector its own mark names or on the way there, and only
\* once; the removed are called no more; and every player and every monster that
\* is awake, and so every dead body too, has its visit to come.
ChecksWhole ==
    \A c \in Creatures :
        /\ refs[c] = Holders(c)
        /\ (stage[c] \in {"new", "deleted"}) = (refs[c] = 0)
        /\ c \in toAdd \/ Listings(c) # {} => checkVector[c] # -1
        /\ checkVector[c] # -1 => (c \in toAdd /\ Listings(c) = {})
                                  \/ (c \notin toAdd /\ Listings(c) = {checkVector[c]})
        /\ c \in checked => c \in Placed
        /\ c \in Placed /\ c \notin isIdle \ dying => c \in checked /\ checkVector[c] # -1

=============================================================================
