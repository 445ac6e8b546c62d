------------------------------- MODULE Decay --------------------------------
(***************************************************************************)
(* Items that decay (game.cpp: startDecay, internalDecayItem, checkDecay,  *)
(* cleanup; item.cpp: setID, canDecay): the buckets of items by the second *)
(* of their next look, the mark on an item that it is in one, and the      *)
(* references of these lists, while players use, change and remove items.  *)
(*                                                                         *)
(* setID gives an item of another kind a new duration and takes its mark,  *)
(* even where a bucket still has it: from then on it may be listed twice,  *)
(* and loses its time twice as fast.  Times are in whole seconds, so none  *)
(* is shorter than the step from one bucket to the next.                   *)
(***************************************************************************)
EXTENDS Integers, FiniteSets

CONSTANTS
    Items,
    Kinds,    \* of Item::items, of one type: their items change id in place
    decayTo,  \* function on Kinds: a kind, Vanish, or Never
    decayTime, stopTime,  \* functions on Kinds
    Vanish, Never,        \* decayTo of 0 and of -1
    Buckets,  \* EVENT_DECAYBUCKETS, in seconds the circle of checkDecay
    MaxLists  \* bound on how often the lists have an item

DecayAssumption ==
    /\ IsFiniteSet(Items) /\ IsFiniteSet(Kinds) /\ Kinds # {} /\ {Vanish, Never} \cap Kinds = {}
    /\ decayTo \in [Kinds -> Kinds \cup {Vanish, Never}]
    /\ decayTime \in [Kinds -> 0..10 * Buckets] /\ stopTime \in [Kinds -> BOOLEAN]
    /\ Buckets \in Nat \ {0, 1} /\ MaxLists \in Nat \ {0}

VARIABLES
    body,       \* of an item: its kind, duration (-1 for none) and mark
    stage, refs,
    toDecay,    \* toDecayItems; here as in the next, how often a list has an item
    decayItems,
    lastBucket, looping,
    toVisit,    \* what the loop of checkDecay has before it
    released    \* how often an item is in releaseThings

lists == <<toDecay, decayItems, lastBucket, looping, toVisit>>
decayVars == <<body, stage, refs, lists, released>>

NoItems == [i \in Items |-> 0]
Times == -1..10 * Buckets
Bodies == [kind : Kinds, duration : Times, decaying : BOOLEAN]

TypeOK ==
    /\ body \in [Items -> Bodies]
    /\ stage \in [Items -> {"new", "placed", "removed", "deleted"}]
    /\ {refs, toDecay, toVisit, released} \subseteq [Items -> Nat]
    /\ decayItems \in [0..Buckets-1 -> [Items -> Nat]]
    /\ lastBucket \in 0..Buckets-1 /\ looping \in BOOLEAN

Init ==
    /\ body = [i \in Items |-> [kind |-> CHOOSE k \in Kinds : TRUE, duration |-> -1, decaying |-> FALSE]]
    /\ stage = [i \in Items |-> "new"] /\ refs = NoItems
    /\ toDecay = NoItems /\ decayItems = [b \in 0..Buckets-1 |-> NoItems]
    /\ lastBucket = 0 /\ looping = FALSE /\ toVisit = NoItems /\ released = NoItems

-----------------------------------------------------------------------------
(* An item's body                                                          *)

More(f, i) == [f EXCEPT ![i] = @ + 1]
Less(f, i) == [f EXCEPT ![i] = @ - 1]

CanDecay(o) == decayTo[o.kind] # Never /\ decayTime[o.kind] > 0

\* setID: what neither decays, nor stops the time of what does, forgets it; a
\* duration is new except where the kind before had stopped it.
SetID(o, k) ==
    LET forgets == decayTime[k] = 0 /\ ~stopTime[k] /\ decayTo[k] = Never
        renews == decayTime[k] > 0 /\ (~stopTime[o.kind] \/ o.duration = -1)
    IN [kind |-> k, decaying |-> o.decaying /\ ~forgets /\ ~renews,
        duration |-> IF forgets THEN -1 ELSE IF renews THEN decayTime[k] ELSE o.duration]

Created(k) == SetID([kind |-> k, duration |-> -1, decaying |-> FALSE], k)

\* internalDecayItem: what has no time left becomes what it decays to.
IsOver(o) == CanDecay(o) /\ ~o.decaying /\ o.duration <= 0
Turned(o) == IF IsOver(o) /\ decayTo[o.kind] # Vanish THEN SetID(o, decayTo[o.kind]) ELSE o

\* startDecay after a change to o, and again after each that it leads to; the last
\* body is the one that stays, or vanishes.
Started(o) ==
    LET next[n \in 0..Cardinality(Kinds)] == IF n = 0 THEN o ELSE Turned(next[n - 1])
        last == next[Cardinality(Kinds)]
    IN [last |-> last, vanishes |-> IsOver(last), listed |-> CanDecay(last) /\ ~last.decaying]

\* What is left of i: gone, listed for its decay, or as it is.  The rest is what
\* has happened to references and releases before.
Start(i, o, counts, freed) ==
    LET s == Started(o)
    IN /\ body' = [body EXCEPT ![i] = [s.last EXCEPT !.decaying = @ \/ (s.listed /\ ~s.vanishes)]]
       /\ \/ /\ s.vanishes
             /\ stage' = [stage EXCEPT ![i] = "removed"] /\ released' = More(freed, i)
             /\ refs' = counts /\ UNCHANGED toDecay
          \/ /\ s.listed /\ ~s.vanishes
             /\ toDecay' = More(toDecay, i) /\ refs' = More(counts, i)
             /\ stage' = [stage EXCEPT ![i] = "placed"] /\ released' = freed
          \/ /\ ~s.listed
             /\ stage' = [stage EXCEPT ![i] = "placed"] /\ released' = freed
             /\ refs' = counts /\ UNCHANGED toDecay

\* How often the lists have i.
Total(first, counts) ==
    LET upTo[b \in 0..Buckets] == IF b = 0 THEN first ELSE upTo[b - 1] + counts[b - 1]
    IN upTo[Buckets]
Listings(i) == Total(toDecay[i], [b \in 0..Buckets-1 |-> decayItems[b][i]])

-----------------------------------------------------------------------------
(* What players and scripts do, also those that an item's change calls     *)

Create(i, k) ==
    /\ stage[i] = "new" /\ Start(i, Created(k), More(refs, i), released)
    /\ UNCHANGED <<decayItems, lastBucket, looping, toVisit>>

\* An item is used, put on, or changed by a script; then startDecay.
Use(i, k) ==
    /\ stage[i] = "placed" /\ k # body[i].kind /\ Listings(i) < MaxLists
    /\ Start(i, SetID(body[i], k), refs, released)
    /\ UNCHANGED <<decayItems, lastBucket, looping, toVisit>>

\* internalRemoveItem
Remove(i) ==
    /\ stage[i] = "placed"
    /\ stage' = [stage EXCEPT ![i] = "removed"] /\ released' = More(released, i)
    /\ UNCHANGED <<body, refs, lists>>

-----------------------------------------------------------------------------
(* checkDecay                                                              *)

BeginCheck ==
    LET b == (lastBucket + 1) % Buckets
    IN /\ ~looping /\ looping' = TRUE /\ toVisit' = decayItems[b]
       /\ UNCHANGED <<body, stage, refs, toDecay, decayItems, lastBucket, released>>

Bucket == (lastBucket + 1) % Buckets
Erased(i) == [decayItems EXCEPT ![Bucket] = Less(@, i)]
Aged(i) ==
    LET had == body[i].duration
    IN [body[i] EXCEPT !.duration = IF had > Buckets THEN had - Buckets ELSE IF had >= 0 THEN 0 ELSE -1]
Due(i) == looping /\ toVisit[i] > 0 /\ toVisit' = Less(toVisit, i) /\ UNCHANGED <<lastBucket, looping>>

\* Slip: the entry goes, the mark stays.
DropMarked(i) ==
    /\ Due(i) /\ (stage[i] # "placed" \/ ~CanDecay(body[i]))
    /\ body' = [body EXCEPT ![i] = Aged(i)]
    /\ decayItems' = Erased(i) /\ released' = More(released, i)
    /\ UNCHANGED <<stage, refs, toDecay>>

\* Removed by now, or of a kind that does not decay.
Drop(i) ==
    /\ Due(i) /\ (stage[i] # "placed" \/ ~CanDecay(body[i]))
    /\ body' = [body EXCEPT ![i] = [Aged(i) EXCEPT !.decaying = FALSE]]
    /\ decayItems' = Erased(i) /\ released' = More(released, i)
    /\ UNCHANGED <<stage, refs, toDecay>>

\* internalDecayItem, and the list's own reference is released.
Decays(i) ==
    /\ Due(i) /\ stage[i] = "placed" /\ CanDecay(body[i]) /\ Aged(i).duration <= 0
    /\ decayItems' = Erased(i)
    /\ IF decayTo[body[i].kind] = Vanish
       THEN /\ stage' = [stage EXCEPT ![i] = "removed"] /\ released' = More(More(released, i), i)
            /\ body' = [body EXCEPT ![i] = Aged(i)]
            /\ UNCHANGED <<refs, toDecay>>
       ELSE Start(i, SetID(Aged(i), decayTo[body[i].kind]), refs, More(released, i))

\* The last circle is not a whole one; otherwise the item stays where it is.
Wait(i) ==
    LET left == Aged(i).duration
    IN /\ Due(i) /\ stage[i] = "placed" /\ CanDecay(body[i]) /\ left > 0
       /\ body' = [body EXCEPT ![i] = Aged(i)]
       /\ decayItems' = IF left < Buckets
                        THEN [Erased(i) EXCEPT ![(Bucket + left) % Buckets] = More(@, i)]
                        ELSE decayItems
       /\ UNCHANGED <<stage, refs, toDecay, released>>

\* cleanup: releaseThings, and the new items to their buckets.
Target(i) ==
    IF body[i].duration >= Buckets THEN lastBucket'
    ELSE (lastBucket' + 1 + IF body[i].duration > 0 THEN body[i].duration ELSE 0) % Buckets
Cleanup ==
    /\ refs' = [i \in Items |-> refs[i] - released[i]] /\ released' = NoItems
    /\ stage' = [i \in Items |-> IF released[i] > 0 /\ refs'[i] = 0 THEN "deleted" ELSE stage[i]]
    /\ decayItems' = [b \in 0..Buckets-1 |->
                        [i \in Items |-> decayItems[b][i] + IF Target(i) = b THEN toDecay[i] ELSE 0]]
    /\ toDecay' = NoItems
    /\ UNCHANGED body

EndCheck == looping /\ toVisit = NoItems /\ lastBucket' = Bucket /\ looping' = FALSE /\ UNCHANGED toVisit /\ Cleanup

\* As other tasks call it.
OtherCleanup == ~looping /\ UNCHANGED <<lastBucket, looping, toVisit>> /\ Cleanup

Next ==
    \/ \E i \in Items : \/ Remove(i) \/ Drop(i) \/ Decays(i) \/ Wait(i)
                        \/ \E k \in Kinds : Create(i, k) \/ Use(i, k)
    \/ BeginCheck \/ EndCheck \/ OtherCleanup

Spec == Init /\ [][Next]_decayVars

-----------------------------------------------------------------------------
(* Properties                                                              *)

\* Whatever is done to an item between its looks, each list that has it holds it:
\* it is deleted once, and never while a bucket, the loop or the world knows it;
\* and an item that is marked as decaying with time left is in a list, thus
\* will decay, for startDecay never lists a marked one.
DecayWhole ==
    \A i \in Items :
        /\ refs[i] = (IF stage[i] = "placed" THEN 1 ELSE 0) + Listings(i) + released[i]
        /\ (stage[i] \in {"new", "deleted"}) = (refs[i] = 0)
        /\ toVisit[i] <= decayItems[Bucket][i]
        /\ body[i].decaying /\ body[i].duration > 0 /\ stage[i] = "placed" => Listings(i) > 0

=============================================================================
