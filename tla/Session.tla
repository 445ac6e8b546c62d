------------------------------ MODULE Session -------------------------------
(***************************************************************************)
(* The sessions of one character (protocolgame.cpp: login, connect,        *)
(* logout; game.cpp: placeCreature, removeCreature, freeThing): which      *)
(* Player object is in the game, which protocol is its client, and what    *)
(* happens when another client logs in with the same name, when a          *)
(* connection is lost, or when the player dies or is kicked.               *)
(*                                                                         *)
(* Everything but the arrival of packets and the loss of a connection runs *)
(* in the dispatcher thread, in the order in which it was queued.  Player  *)
(* objects are shared by the game, the list of creatures that think, and   *)
(* the protocols; counts of references decide when one is deleted.         *)
(***************************************************************************)
EXTENDS Integers, Sequences, FiniteSets

CONSTANTS
    Protocols, NoProtocol,
    ReplaceKick  \* REPLACE_KICK_ON_LOGIN

SessionAssumption ==
    NoProtocol \notin Protocols /\ IsFiniteSet(Protocols) /\ ReplaceKick \in BOOLEAN

VARIABLES
    conn,         \* the connection and the release of its protocol
    player,       \* the protocol's player, 0 if none
    accepts,      \* protocols with m_acceptPackets
    protoRef,     \* m_refCount of the protocol
    eventConnect, \* m_eventConnect: the player it is to connect to, 0 if none
    events,       \* protocols whose connect event the scheduler holds
    before,       \* protocols whose next release is due before that event
    queue,        \* the dispatcher's tasks for these protocols
    stage,        \* where each Player object is
    thingRef,     \* refCount of the Player object
    client,       \* its client
    isConnecting, \* objects that wait for a client that was announced
    checks,       \* objects on the list of creatures that think
    releaseThings \* how often each object is to be released at the next cleanup

protocols == <<conn, player, accepts, protoRef, eventConnect, events, before>>
objects == <<stage, thingRef, client, isConnecting, checks, releaseThings>>
vars == <<protocols, queue, objects>>

\* A protocol logs in once, and makes at most one Player.
Objects == 1..Cardinality(Protocols)
InGame == {o \in Objects : stage[o] = "inGame"}
Open == {"accepted", "login"}
Tasks == [op : {"login", "logout", "connect", "close"}, who : Protocols]

TypeOK ==
    /\ conn \in [Protocols -> Open \cup {"request", "releasing", "deleted"}]
    /\ player \in [Protocols -> Objects \cup {0}] /\ accepts \subseteq Protocols
    /\ protoRef \in [Protocols -> 0..1] /\ eventConnect \in [Protocols -> Objects \cup {0}]
    /\ events \subseteq Protocols /\ before \in [Protocols -> SUBSET Protocols] /\ queue \in Seq(Tasks)
    /\ stage \in [Objects -> {"none", "made", "inGame", "removed", "deleted"}]
    /\ thingRef \in [Objects -> Nat] /\ client \in [Objects -> Protocols \cup {NoProtocol}]
    /\ isConnecting \subseteq Objects /\ checks \subseteq Objects
    /\ releaseThings \in [Objects -> Nat]

Init ==
    /\ conn = [p \in Protocols |-> "accepted"] /\ player = [p \in Protocols |-> 0]
    /\ accepts = {} /\ protoRef = [p \in Protocols |-> 0]
    /\ eventConnect = [p \in Protocols |-> 0] /\ events = {}
    /\ before = [p \in Protocols |-> {}] /\ queue = <<>>
    /\ stage = [o \in Objects |-> "none"] /\ thingRef = [o \in Objects |-> 0]
    /\ client = [o \in Objects |-> NoProtocol] /\ isConnecting = {} /\ checks = {}
    /\ releaseThings = [o \in Objects |-> 0]

-----------------------------------------------------------------------------
(* What the handlers are made of; q is the queue before the step           *)

Task(op, p) == [op |-> op, who |-> p]
IsNext(op, p) == queue # <<>> /\ Head(queue) = Task(op, p)

\* Connection::close asks for the close once.
Disconnect(p, q) ==
    IF conn[p] \in Open
    THEN conn' = [conn EXCEPT ![p] = "request"] /\ queue' = Append(q, Task("close", p))
    ELSE UNCHANGED conn /\ queue' = q

\* Game::removeCreature: the game's own reference goes with the next cleanup.
RemoveCreature(o) ==
    /\ stage' = [stage EXCEPT ![o] = "removed"]
    /\ releaseThings' = [releaseThings EXCEPT ![o] = @ + 1]

KeepObjects == UNCHANGED objects

\* Slips of connect: it takes over a player that has a client, or leaves it
\* marked as one that waits.
CanConnectAlways(o) == stage[o] = "inGame"
CanConnect(o) == stage[o] = "inGame" /\ client[o] = NoProtocol
StillConnecting(o) == isConnecting
Connected(o) == isConnecting \ {o}
RefKept(o) == thingRef
RefAdded(o) == [thingRef EXCEPT ![o] = @ + 1]

Attach(p, o, q) ==
    \/ /\ ~CanConnect(o)
       /\ Disconnect(p, q) /\ KeepObjects /\ UNCHANGED <<player, accepts>>
    \/ /\ CanConnect(o)
       /\ player' = [player EXCEPT ![p] = o] /\ accepts' = accepts \cup {p}
       /\ client' = [client EXCEPT ![o] = p]
       /\ thingRef' = RefAdded(o) /\ isConnecting' = Connected(o)
       /\ queue' = q /\ UNCHANGED <<conn, stage, checks, releaseThings>>

\* A slip of login: the protocol is not referred to before connect.
NotReferred(p) == protoRef[p]
Referred(p) == protoRef[p] + 1

\* ProtocolGame::connect, which first gives back a reference to the protocol.
Connect(p, o, refs, q) ==
    /\ protoRef' = [protoRef EXCEPT ![p] = refs - 1]
    /\ eventConnect' = [eventConnect EXCEPT ![p] = 0]
    /\ Attach(p, o, q)

-----------------------------------------------------------------------------
(* ProtocolGame::login                                                     *)

\* A new Player, referred to by its protocol only, which is its client.
NextObject == CHOOSE o \in Objects : stage[o] = "none" /\ \A b \in 1..(o - 1) : stage[b] # "none"

\* It may not come in: a ban, the waiting list, no place on the map.
EnterRefused(p, o) ==
    /\ stage' = [stage EXCEPT ![o] = "made"] /\ thingRef' = [thingRef EXCEPT ![o] = 1]
    /\ Disconnect(p, Tail(queue))
    /\ UNCHANGED <<accepts, checks, releaseThings>>

\* placeCreature adds the references of the game and of the list of creatures
\* that think.  The login script may have it kicked at once.
EnterGame(p, o) ==
    /\ thingRef' = [thingRef EXCEPT ![o] = 3] /\ checks' = checks \cup {o}
    /\ accepts' = accepts \cup {p}
    /\ \/ /\ stage' = [stage EXCEPT ![o] = "inGame"]
          /\ queue' = Tail(queue) /\ UNCHANGED <<conn, releaseThings>>
       \/ RemoveCreature(o) /\ Disconnect(p, Tail(queue))

LoginNew(p) ==
    /\ IsNext("login", p) /\ InGame = {}
    /\ player' = [player EXCEPT ![p] = NextObject]
    /\ client' = [client EXCEPT ![NextObject] = p]
    /\ EnterRefused(p, NextObject) \/ EnterGame(p, NextObject)
    /\ UNCHANGED <<protoRef, eventConnect, events, before, isConnecting>>

\* Somebody plays the character: he is disconnected, and a second later the new
\* client takes his place.
LoginReplaces(p) ==
    /\ IsNext("login", p)
    /\ \E o \in InGame :
         /\ client[o] # NoProtocol
         /\ \/ /\ eventConnect[p] # 0 \/ ~ReplaceKick
               /\ Disconnect(p, Tail(queue)) /\ KeepObjects
               /\ UNCHANGED <<protoRef, eventConnect, events, before>>
            \/ /\ eventConnect[p] = 0 /\ ReplaceKick
               /\ Disconnect(client[o], Tail(queue))
               /\ isConnecting' = isConnecting \cup {o}
               /\ protoRef' = [protoRef EXCEPT ![p] = Referred(p)]
               /\ eventConnect' = [eventConnect EXCEPT ![p] = o]
               /\ events' = events \cup {p}
               /\ before' = [before EXCEPT ![p] = {q \in Protocols : conn[q] = "releasing"}]
               /\ UNCHANGED <<stage, thingRef, client, checks, releaseThings>>
    /\ UNCHANGED <<player, accepts>>

\* The character is in the game without a client.
LoginReturns(p) ==
    /\ IsNext("login", p)
    /\ \E o \in InGame : client[o] = NoProtocol /\ Connect(p, o, Referred(p), Tail(queue))
    /\ UNCHANGED <<events, before>>

\* The second is over.
Fire(p) ==
    /\ p \in events /\ before[p] = {}
    /\ events' = events \ {p} /\ queue' = Append(queue, Task("connect", p))
    /\ KeepObjects /\ UNCHANGED <<conn, player, accepts, protoRef, eventConnect, before>>

ConnectLater(p) ==
    /\ IsNext("connect", p)
    /\ Connect(p, eventConnect[p], protoRef[p], Tail(queue))
    /\ UNCHANGED <<events, before>>

-----------------------------------------------------------------------------
(* Leaving the game                                                        *)

\* ProtocolGame::logout of p, whose player is o, once nothing forbids it.
LeaveGame(p, o, q) ==
    /\ Disconnect(p, q)
    /\ IF stage[o] = "removed" THEN UNCHANGED <<stage, releaseThings>> ELSE RemoveCreature(o)
    /\ UNCHANGED <<player, accepts, protoRef, eventConnect, events, before,
                   thingRef, client, isConnecting, checks>>

\* A fight, the place or a script may forbid a player to leave.
Logout(p) ==
    /\ IsNext("logout", p)
    /\ \/ player[p] # 0 /\ LeaveGame(p, player[p], Tail(queue))
       \/ /\ player[p] = 0 \/ stage[player[p]] # "removed"
          /\ queue' = Tail(queue) /\ UNCHANGED <<protocols, objects>>

\* Player::kick: through its client, if it has one.
Kick(o) ==
    /\ stage[o] = "inGame"
    /\ IF client[o] # NoProtocol THEN LeaveGame(client[o], o, queue)
       ELSE RemoveCreature(o) /\ UNCHANGED <<protocols, queue, thingRef, client, isConnecting, checks>>

\* Player::onThink, when no answer to a ping has come for a minute.
Think(o) == o \notin isConnecting /\ Kick(o)

\* A player that dies leaves the game and keeps its client.
Die(o) ==
    /\ stage[o] = "inGame" /\ RemoveCreature(o)
    /\ UNCHANGED <<protocols, queue, thingRef, client, isConnecting, checks>>

-----------------------------------------------------------------------------
(* The end of protocols and objects                                        *)

ClientKept(o, p) == client
ClientCleared(o, p) == IF o # 0 /\ client[o] = p THEN [client EXCEPT ![o] = NoProtocol] ELSE client

\* releaseProtocol: while an event, or a message that is not yet sent, still
\* refers to the protocol, try again later.
ReleaseProtocol(p, unsent) ==
    LET o == player[p] IN
    /\ client' = ClientCleared(o, p)
    /\ IF protoRef[p] > 0 \/ unsent
       THEN conn' = [conn EXCEPT ![p] = "releasing"] /\ UNCHANGED <<player, releaseThings>>
       ELSE /\ conn' = [conn EXCEPT ![p] = "deleted"] /\ player' = [player EXCEPT ![p] = 0]
            /\ releaseThings' = IF o = 0 THEN releaseThings ELSE [releaseThings EXCEPT ![o] = @ + 1]
    /\ UNCHANGED <<accepts, protoRef, eventConnect, events, stage, thingRef, isConnecting, checks>>

CloseConnection(p) ==
    /\ IsNext("close", p) /\ queue' = Tail(queue)
    /\ \E unsent \in BOOLEAN : ReleaseProtocol(p, unsent)
    /\ UNCHANGED before
ReleaseAgain(p) ==
    /\ conn[p] = "releasing" /\ ReleaseProtocol(p, FALSE)
    /\ before' = [q \in Protocols |-> before[q] \ {p}] /\ UNCHANGED queue

\* checkCreatures drops who has left the game.
DropCheck(o) ==
    /\ o \in checks /\ stage[o] = "removed"
    /\ checks' = checks \ {o} /\ releaseThings' = [releaseThings EXCEPT ![o] = @ + 1]
    /\ UNCHANGED <<protocols, queue, stage, thingRef, client, isConnecting>>

\* Game::cleanup, at the end of the regular checks.
Cleanup ==
    /\ \E o \in Objects : releaseThings[o] > 0
    /\ thingRef' = [o \in Objects |-> thingRef[o] - releaseThings[o]]
    /\ stage' = [o \in Objects |-> IF releaseThings[o] > 0 /\ thingRef[o] <= releaseThings[o]
                                   THEN "deleted" ELSE stage[o]]
    /\ releaseThings' = [o \in Objects |-> 0]
    /\ UNCHANGED <<protocols, queue, client, isConnecting, checks>>

-----------------------------------------------------------------------------
(* The service thread                                                      *)

FirstPacket(p) ==
    /\ conn[p] = "accepted"
    /\ conn' = [conn EXCEPT ![p] = "login"] /\ queue' = Append(queue, Task("login", p))
    /\ KeepObjects /\ UNCHANGED <<player, accepts, protoRef, eventConnect, events, before>>

\* The client asks to leave; one such packet is under way at a time.
LogoutPacket(p) ==
    /\ conn[p] = "login" /\ player[p] # 0 /\ p \in accepts
    /\ \A i \in DOMAIN queue : queue[i] # Task("logout", p)
    /\ queue' = Append(queue, Task("logout", p))
    /\ UNCHANGED <<protocols, objects>>

LoseConnection(p) ==
    /\ conn[p] \in Open /\ Disconnect(p, queue)
    /\ KeepObjects /\ UNCHANGED <<player, accepts, protoRef, eventConnect, events, before>>

TaskOf(p) ==
    \/ LoginNew(p) \/ LoginReplaces(p) \/ LoginReturns(p) \/ ConnectLater(p)
    \/ Logout(p) \/ CloseConnection(p)

Next ==
    \/ \E p \in Protocols :
         \/ FirstPacket(p) \/ LogoutPacket(p) \/ LoseConnection(p)
         \/ TaskOf(p) \/ Fire(p) \/ ReleaseAgain(p)
    \/ \E o \in Objects : Think(o) \/ Kick(o) \/ Die(o) \/ DropCheck(o)
    \/ Cleanup

Spec == Init /\ [][Next]_vars

-----------------------------------------------------------------------------
(* Properties                                                              *)

One(b) == IF b THEN 1 ELSE 0
Holders(o) == {p \in Protocols : player[p] = o}

\* The count of a Player is the number of those who hold it: the game, the list
\* of creatures, protocols, and what waits for the cleanup.  So nobody holds one
\* that is deleted, and a client is a protocol that exists and holds its player.
PointersLive ==
    /\ \A o \in Objects :
         /\ stage[o] # "deleted" =>
              thingRef[o] = One(stage[o] = "inGame") + One(o \in checks)
                            + Cardinality(Holders(o)) + releaseThings[o]
         /\ stage[o] = "deleted" => o \notin checks /\ Holders(o) = {} /\ releaseThings[o] = 0
         /\ client[o] # NoProtocol => conn[client[o]] # "deleted" /\ player[client[o]] = o
    /\ \A i \in DOMAIN queue : conn[queue[i].who] # "deleted"
    /\ \A p \in events : conn[p] # "deleted"

\* The character is in the game once, and only one connection plays it.
OneSession ==
    /\ Cardinality(InGame) <= 1
    /\ \A o \in InGame : Cardinality({p \in Holders(o) : p \in accepts /\ conn[p] \in Open}) <= 1

\* Whoever holds a player holds one that is there, and one of them plays him (login,
\* connect, logout, kick, death and lost connections in every order).
SessionsSound == PointersLive /\ OneSession

\* A player is spared the logout for lost connections only while a client is on
\* its way to it: it cannot be left in the game for ever, marked as connecting.
ConnectingHasEvent ==
    \A o \in InGame \cap isConnecting : \E p \in Protocols : eventConnect[p] = o
=============================================================================
