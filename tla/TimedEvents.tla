---------------------------- MODULE TimedEvents -----------------------------
(***************************************************************************)
(* What the rest of the server expects of the scheduler: an event that was *)
(* added stays pending until it is cancelled, fires or is lost in a        *)
(* shutdown; a cancelled event never fires and a fired one is never        *)
(* reported as cancelled.  Only an event that shares its id with another   *)
(* may be taken for that other one.                                        *)
(***************************************************************************)
CONSTANT Events
VARIABLES
    state,
    ambiguous  \* events whose id some other event was given too

vars == <<state, ambiguous>>

Init == state = [e \in Events |-> "idle"] /\ ambiguous = {}

Move(e, from, to) == state[e] \in from /\ state' = [state EXCEPT ![e] = to]

\* The new event may share its id with an older one.
Add(e) == Move(e, {"idle"}, "pending") /\ ambiguous \subseteq ambiguous'
Refuse(e) == Move(e, {"idle"}, "lost")
Cancel(e) == Move(e, {"pending"}, "cancelled")
FireEvent(e) == Move(e, {"pending"}, "fired")
LoseFired(e) == Move(e, {"fired", "both"}, "lost")

\* Cancelled and fired, or dropped without being cancelled.
TakenForAnother(e) ==
    /\ e \in ambiguous
    /\ \/ Move(e, {"cancelled", "fired"}, "both")
       \/ Move(e, {"pending"}, "lost")
       \/ Move(e, {"lost"}, "cancelled")

\* A shutdown loses what is pending or cancelled and still on the queue.
LosePending ==
    \E S \in SUBSET Events :
        /\ S # {} /\ \A e \in S : state[e] \in {"pending", "cancelled"}
        /\ state' = [e \in Events |-> IF e \in S THEN "lost" ELSE state[e]]

Next ==
    \/ \E e \in Events : Add(e)
    \/ /\ LosePending \/ \E e \in Events : \/ Refuse(e) \/ Cancel(e) \/ FireEvent(e)
                                          \/ LoseFired(e) \/ TakenForAnother(e)
       /\ UNCHANGED ambiguous

Spec == Init /\ [][Next]_vars
=============================================================================
