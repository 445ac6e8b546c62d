----------------------------- MODULE Connection -----------------------------
(***************************************************************************)
(* One client connection (connection.cpp), the protocol object behind it   *)
(* (protocol.cpp) and the output messages that are under way to it         *)
(* (outputmessage.cpp).                                                    *)
(*                                                                         *)
(* Two threads share them.  The service thread runs the handlers of the    *)
(* socket and of its timers in the order in which they become ready        *)
(* (ioQueue), each under m_connectionLock; the dispatcher thread runs      *)
(* tasks, and after each of them the output pool's sendAll.  The objects   *)
(* hold plain pointers to one another: what keeps them alive is a pair of  *)
(* reference counts, one reference for each message that was handed out.   *)
(***************************************************************************)
EXTENDS Integers, Sequences, FiniteSets

CONSTANTS
    Msgs,       \* OutputMessage objects
    NoMsg,
    MaxPackets, \* bound on the packets the client sends
    SlowLimit   \* the 100 pending writes a slow connection may have

ASSUME ConnectionAssumption ==
    /\ NoMsg \notin Msgs /\ MaxPackets \in Nat /\ SlowLimit \in Nat \ {0}
    /\ Msgs \cap {"close", "game", "releaseConnection", "releaseProtocol"} = {}
    /\ Msgs \cap {"idle", "merge", "visit"} = {}

VARIABLES
    state,        \* m_connectionState
    socket,       \* m_socket: open, closed, deleted
    errors,       \* m_readError, m_writeError
    pendingRead, pendingWrite,
    reading,      \* the async_read under way
    writing,      \* the message of the async_write under way
    armed,        \* the timers that run
    ioQueue,      \* handlers of the service thread that are ready, in order
    received,     \* m_receivedFirst
    packets,      \* packets read so far, for the bound
    proto,        \* the protocol: none, attached, releasing, deleted
    connRef, protoRef,
    buffer,       \* m_outputBuffer of the protocol
    autoSend, addQueue, \* the pool's lists
    visiting,     \* what sendAll has yet to visit of m_autoSend
    tasks,        \* tasks of the dispatcher that concern this connection
    retries,      \* events of the scheduler: releaseConnection, releaseProtocol
    dpc,          \* where the dispatcher thread is
    seen,         \* the counts that the release under way has read
    raced         \* history: two threads updated a count at the same time

connection == <<state, socket, errors, pendingRead, pendingWrite>>
io == <<reading, writing, armed, ioQueue, received, packets>>
protocol == <<proto, buffer>>
counts == <<connRef, protoRef>>
pool == <<autoSend, addQueue, visiting>>
dispatcher == <<tasks, retries, dpc, seen, raced>>
vars == <<connection, io, protocol, counts, pool, dispatcher>>

Elems(s) == {s[i] : i \in DOMAIN s}
Times(e, s) == Cardinality({i \in DOMAIN s : s[i] = e})
InPool == Elems(autoSend) \cup Elems(addQueue) \cup Elems(visiting)
Allocated == InPool \cup ({writing} \ {NoMsg}) \cup (Elems(tasks) \cap Msgs)
             \cup (IF dpc \in Msgs THEN {dpc} ELSE {})
Free == Msgs \ Allocated

Handlers == [op : {"read", "write"}, result : {"ok", "fail", "aborted"}]
            \cup [op : {"timeout"}, result : {"read", "write"}]
            \cup [op : {"stop"}, result : {"ok"}]

TypeOK ==
    /\ state \in {"open", "request", "closing", "closed"}
    /\ socket \in {"open", "closed", "deleted"}
    /\ errors \subseteq {"read", "write"} /\ armed \subseteq {"read", "write"}
    /\ pendingRead \in 0..1 /\ pendingWrite \in Nat
    /\ reading \in {"none", "header", "body"}
    /\ writing \in Msgs \cup {NoMsg} /\ buffer \in Msgs \cup {NoMsg}
    /\ ioQueue \in Seq(Handlers)
    /\ received \in {"nothing", "first"} /\ packets \in 0..MaxPackets
    /\ proto \in {"none", "attached", "releasing", "deleted"}
    /\ connRef \in Int /\ protoRef \in Int
    /\ autoSend \in Seq(Msgs) /\ addQueue \in Seq(Msgs) /\ visiting \in Seq(Msgs)
    /\ tasks \in Seq(Msgs \cup {"close", "game", "releaseConnection", "releaseProtocol"})
    /\ retries \subseteq {"releaseConnection", "releaseProtocol"}
    /\ dpc \in {"idle", "merge", "visit"} \cup Msgs
    /\ raced \in {"no", "yes"}

\* The server has accepted the socket.  A port with a single service creates
\* the protocol at once, and the game protocol greets with a first message.
Init ==
    \E greeting \in Msgs \cup {NoMsg} :
        /\ proto = IF greeting = NoMsg THEN "none" ELSE "attached"
        /\ writing = greeting
        /\ pendingWrite = IF greeting = NoMsg THEN 0 ELSE 1
        /\ connRef = pendingWrite /\ protoRef = pendingWrite
        /\ armed = IF greeting = NoMsg THEN {"read"} ELSE {"read", "write"}
        /\ state = "open" /\ socket = "open" /\ errors = {} /\ pendingRead = 1
        /\ reading = "header" /\ ioQueue = <<>> /\ received = "nothing" /\ packets = 0
        /\ buffer = NoMsg /\ autoSend = <<>> /\ addQueue = <<>> /\ visiting = <<>>
        /\ tasks = <<>> /\ retries = {} /\ dpc = "idle"
        /\ seen = <<0, 0>> /\ raced = "no"

-----------------------------------------------------------------------------
(* close, closeSocket and the release of a message, as parts of handlers   *)

RequestsAlways == TRUE
CanRequest == state \notin {"closed", "request"}
\* Connection::close: the state and the task list afterwards.
StateAfterClose == IF CanRequest THEN "request" ELSE state
WithClose(q) == IF CanRequest THEN Append(q, "close") ELSE q

\* releaseMessage puts its task in front.
WithRelease(m, q) == <<m>> \o q

Close(q) == state' = StateAfterClose /\ tasks' = WithClose(q)

\* closeSocket resets the counters, but only if the socket was still open.
CloseSocket ==
    IF socket = "open"
    THEN socket' = "closed" /\ pendingRead' = 0 /\ pendingWrite' = 0
    ELSE UNCHANGED <<socket, pendingRead, pendingWrite>>

KeepBuffer(m) == UNCHANGED buffer
ForgetBuffer(m) == buffer' = IF buffer = m THEN NoMsg ELSE buffer

-----------------------------------------------------------------------------
(* Connection::send, in either thread; q is the task list before it        *)

Writable == state = "open" /\ "write" \notin errors

\* A slip of send: a write without its timer.

SendNowUntimed(m) ==
    /\ Writable /\ pendingWrite = 0
    /\ pendingWrite' = pendingWrite + 1
    /\ writing' = m /\ UNCHANGED armed
    /\ ForgetBuffer(m)
    /\ UNCHANGED addQueue

\* Nothing is being written: the message is encrypted and written.
SendNow(m) ==
    /\ Writable /\ pendingWrite = 0
    /\ pendingWrite' = pendingWrite + 1
    /\ writing' = m /\ armed' = armed \cup {"write"}
    /\ ForgetBuffer(m)
    /\ UNCHANGED addQueue

\* A write is under way: the message waits for the next sendAll.
SendLater(m) ==
    /\ Writable /\ pendingWrite \in 1..SlowLimit
    /\ addQueue' = Append(addQueue, m)
    /\ UNCHANGED <<pendingWrite, writing, armed, buffer>>

SendRefused(m) ==
    /\ ~Writable \/ pendingWrite > SlowLimit
    /\ ForgetBuffer(m)
    /\ UNCHANGED <<pendingWrite, writing, armed, addQueue>>

-----------------------------------------------------------------------------
(* The network and the timers: what makes a handler ready                  *)

Ready(o) == {i \in DOMAIN ioQueue : ioQueue[i].op = o}
Post(o, r) == ioQueue' = Append(ioQueue, [op |-> o, result |-> r])

\* A closed socket aborts what is under way; results that were ready stay.
Results == IF socket = "open" THEN {"ok", "fail"} ELSE {"aborted"}

CompleteRead(r) ==
    /\ reading # "none" /\ Ready("read") = {} /\ r \in Results
    /\ r = "ok" => packets < MaxPackets
    /\ Post("read", r)
    /\ UNCHANGED <<connection, reading, writing, armed, received, packets,
                   protocol, counts, pool, dispatcher>>

CompleteWrite(r) ==
    /\ writing # NoMsg /\ Ready("write") = {} /\ r \in Results
    /\ Post("write", r)
    /\ UNCHANGED <<connection, reading, writing, armed, received, packets,
                   protocol, counts, pool, dispatcher>>

\* A timer expires: cancel can no longer stop its handler.
Expire(k) ==
    /\ k \in armed
    /\ armed' = armed \ {k} /\ Post("timeout", k)
    /\ UNCHANGED <<connection, reading, writing, received, packets,
                   protocol, counts, pool, dispatcher>>

-----------------------------------------------------------------------------
(* The handlers of the service thread                                      *)

IsNext(o) == ioQueue # <<>> /\ Head(ioQueue).op = o
Result == Head(ioQueue).result
Broken == errors \cup (IF Result = "ok" THEN {} ELSE {"read"})

\* handleReadError closes, unless the read was aborted; both parse handlers
\* then give up if the connection is not open or an error was seen.
\* m_pendingRead keeps its value.
ParseFails ==
    /\ IsNext("read") /\ (state # "open" \/ Broken \cap {"read"} # {})
    /\ errors' = Broken
    /\ Close(tasks)
    /\ reading' = "none" /\ armed' = armed \ {"read"} /\ ioQueue' = Tail(ioQueue)
    /\ UNCHANGED <<socket, pendingRead, pendingWrite, writing, received, packets,
                   protocol, counts, pool, retries, dpc, seen, raced>>

Parses(what) ==
    /\ IsNext("read") /\ reading = what
    /\ state = "open" /\ Broken \cap {"read"} = {}
    /\ ioQueue' = Tail(ioQueue)
    /\ UNCHANGED <<socket, errors, retries, dpc, seen, raced>>

\* parseHeader: a size out of range (a read error) or too many packets.
RejectHeader ==
    /\ Parses("header")
    /\ Close(tasks)
    /\ reading' = "none" /\ armed' = armed \ {"read"}
    /\ UNCHANGED <<pendingRead, pendingWrite, writing, received, packets,
                   protocol, counts, pool>>

ParseHeader ==
    /\ Parses("header")
    /\ reading' = "body" /\ armed' = armed \cup {"read"}
    /\ UNCHANGED <<state, tasks, pendingRead, pendingWrite, writing, received,
                   packets, protocol, counts, pool>>

ReadsOnUncounted ==
    /\ reading' = "header" /\ pendingRead' = pendingRead + 1
    /\ received' = "first" /\ packets' = packets + 1

\* parsePacket, the common tail: the next header is read.
ReadsOn ==
    /\ reading' = "header" /\ pendingRead' = 1
    /\ received' = "first" /\ packets' = packets + 1

\* The first packet names no service that this port has.
UnknownProtocol ==
    /\ Parses("body") /\ received = "nothing" /\ proto = "none"
    /\ Close(tasks)
    /\ pendingRead' = pendingRead - 1 /\ received' = "first" /\ packets' = packets + 1
    /\ reading' = "none" /\ armed' = armed \ {"read"}
    /\ UNCHANGED <<pendingWrite, writing, protocol, counts, pool>>

\* A packet becomes a task that uses the protocol (login, logout) or is ignored.
ParsePacket ==
    /\ Parses("body") /\ ReadsOn /\ armed' = armed \cup {"read"}
    /\ proto' = IF received = "nothing" THEN "attached" ELSE proto
    /\ \/ tasks' = Append(tasks, "game")
       \/ UNCHANGED tasks
    /\ UNCHANGED <<state, pendingWrite, writing, buffer, counts, pool>>

\* The first packet is answered by the service thread itself: disconnectClient
\* sends a message that does not wait for sendAll, and closes.
Rejected(m) ==
    /\ Parses("body") /\ received = "nothing" /\ ReadsOn
    /\ m \in Free
    /\ proto' = "attached"
    /\ connRef' = connRef + 1 /\ protoRef' = protoRef + 1
    /\ \/ /\ pendingWrite = 0 /\ writing' = m /\ pendingWrite' = 1
          /\ armed' = armed \cup {"read", "write"} /\ UNCHANGED addQueue
       \/ /\ pendingWrite # 0 /\ addQueue' = Append(addQueue, m)
          /\ armed' = armed \cup {"read"} /\ UNCHANGED <<writing, pendingWrite>>
    /\ Close(tasks)
    /\ UNCHANGED <<buffer, autoSend, visiting>>

OnWrite ==
    /\ IsNext("write")
    /\ ioQueue' = Tail(ioQueue)
    /\ writing' = NoMsg /\ armed' = armed \ {"write"}
    /\ errors' = errors \cup (IF Result = "ok" THEN {} ELSE {"write"})
    /\ IF state # "open" \/ "write" \in errors'
       THEN CloseSocket /\ Close(WithRelease(writing, tasks))
       ELSE /\ pendingWrite' = pendingWrite - 1
            /\ tasks' = WithRelease(writing, tasks)
            /\ UNCHANGED <<state, socket, pendingRead>>
    /\ UNCHANGED <<reading, received, packets, protocol, counts, pool, retries,
                   dpc, seen, raced>>

\* onReadTimeout and onWriteTimeout.
OnTimeout ==
    /\ IsNext("timeout")
    /\ ioQueue' = Tail(ioQueue)
    /\ LET pending == IF Result = "read" THEN pendingRead ELSE pendingWrite IN
       IF pending > 0 \/ Result \in errors
       THEN CloseSocket /\ Close(tasks)
       ELSE UNCHANGED <<socket, pendingRead, pendingWrite, state, tasks>>
    /\ UNCHANGED <<errors, reading, writing, armed, received, packets, protocol,
                   counts, pool, retries, dpc, seen, raced>>

OnStop ==
    /\ IsNext("stop")
    /\ ioQueue' = Tail(ioQueue)
    /\ socket' = "deleted" /\ armed' = {}
    /\ UNCHANGED <<state, errors, pendingRead, pendingWrite, reading, writing,
                   received, packets, protocol, counts, pool, dispatcher>>

-----------------------------------------------------------------------------
(* The dispatcher thread: tasks                                            *)

IsTask(t) == dpc = "idle" /\ tasks # <<>> /\ Head(tasks) = t

\* What the game does with a connected player in a task of its own or of
\* another one: nothing, output, or a kick.
Act(q) ==
    \/ tasks' = q /\ UNCHANGED <<state, counts, buffer, autoSend>>
    \/ \E m \in Free :
         /\ proto = "attached" /\ buffer = NoMsg
         /\ buffer' = m /\ autoSend' = Append(autoSend, m)
         /\ connRef' = connRef + 1 /\ protoRef' = protoRef + 1
         /\ tasks' = q /\ UNCHANGED state
    \/ /\ proto = "attached" /\ Close(q)
       /\ UNCHANGED <<counts, buffer, autoSend>>

ActKeeps ==
    UNCHANGED <<socket, errors, pendingRead, pendingWrite, io, proto, addQueue,
                visiting, retries, seen, raced>>

GameTask == IsTask("game") /\ dpc' = "merge" /\ Act(Tail(tasks)) /\ ActKeeps

\* Any other task of the dispatcher: it runs all the time.
WorldTask == dpc = "idle" /\ dpc' = "merge" /\ Act(tasks) /\ ActKeeps

\* releaseConnection and releaseProtocol try again every 50 ms.
Retry(k) ==
    /\ k \in retries /\ retries' = retries \ {k}
    /\ tasks' = Append(tasks, k)
    /\ UNCHANGED <<connection, io, protocol, counts, pool, dpc, seen, raced>>

ReleaseAtOnce(rs) == Post("stop", "ok") /\ retries' = rs

\* releaseConnection: deleteConnection leaves the rest to the service thread.
ReleaseConnection(rs) ==
    IF connRef > 0
    THEN retries' = rs \cup {"releaseConnection"} /\ UNCHANGED ioQueue
    ELSE Post("stop", "ok") /\ retries' = rs

ReleaseProtocol ==
    IF protoRef > 0
    THEN proto' = "releasing" /\ retries' = retries \cup {"releaseProtocol"}
    ELSE proto' = "deleted" /\ UNCHANGED retries

\* closeConnection.
CloseConnection ==
    /\ IsTask("close") /\ state = "request"
    /\ tasks' = Tail(tasks) /\ dpc' = "merge"
    /\ LET rs == IF proto = "attached" /\ protoRef > 0
                 THEN retries \cup {"releaseProtocol"} ELSE retries IN
       /\ proto' = IF proto # "attached" THEN proto
                   ELSE IF protoRef > 0 THEN "releasing" ELSE "deleted"
       /\ \/ /\ pendingWrite = 0 \/ "write" \in errors
             /\ CloseSocket /\ state' = "closed" /\ ReleaseConnection(rs)
          \/ /\ pendingWrite # 0 /\ "write" \notin errors
             /\ state' = "closing" /\ retries' = rs
             /\ UNCHANGED <<socket, pendingRead, pendingWrite, ioQueue>>
    /\ UNCHANGED <<errors, reading, writing, armed, received, packets, buffer,
                   counts, pool, seen, raced>>

ReleaseTask ==
    /\ IsTask("releaseConnection") /\ tasks' = Tail(tasks) /\ dpc' = "merge"
    /\ ReleaseConnection(retries)
    /\ UNCHANGED <<connection, reading, writing, armed, received, packets,
                   protocol, counts, pool, seen, raced>>

ReleaseProtocolTask ==
    /\ IsTask("releaseProtocol") /\ tasks' = Tail(tasks) /\ dpc' = "merge"
    /\ ReleaseProtocol
    /\ UNCHANGED <<connection, io, buffer, counts, pool, seen, raced>>

\* internalReleaseMessage decrements both counts without a lock, while the
\* service thread may increment them: one of the two updates can be lost.
BeginRelease(m) ==
    /\ IsTask(m) /\ tasks' = Tail(tasks) /\ dpc' = m
    /\ seen' = <<connRef, protoRef>>
    /\ UNCHANGED <<connection, io, protocol, counts, pool, retries, raced>>

Lowered(count, before) ==
    IF count = before THEN {count - 1} ELSE {count - 1, count, before - 1}

EndRelease(m) ==
    /\ dpc = m /\ dpc' = "merge"
    /\ connRef' \in Lowered(connRef, seen[1])
    /\ protoRef' \in Lowered(protoRef, seen[2])
    /\ raced' = IF connRef' # connRef - 1 \/ protoRef' # protoRef - 1 THEN "yes" ELSE raced
    /\ seen' = <<0, 0>>
    /\ UNCHANGED <<connection, io, protocol, pool, tasks, retries>>

-----------------------------------------------------------------------------
(* The dispatcher thread: OutputMessagePool::sendAll after a task          *)

\* A message that has waited for 10 s is dropped; the others join m_autoSend.
Merge ==
    /\ dpc = "merge"
    /\ \/ /\ addQueue # <<>>
          /\ addQueue' = Tail(addQueue)
          /\ tasks' = WithRelease(Head(addQueue), tasks)
          /\ ForgetBuffer(Head(addQueue))
          /\ UNCHANGED <<autoSend, visiting, dpc>>
       \/ /\ dpc' = "visit" /\ visiting' = autoSend \o addQueue
          /\ autoSend' = <<>> /\ addQueue' = <<>>
          /\ UNCHANGED <<tasks, buffer>>
    /\ UNCHANGED <<connection, io, proto, counts, retries, seen, raced>>

VisitKeeps ==
    UNCHANGED <<state, socket, errors, pendingRead, reading, ioQueue, received,
                packets, proto, counts, retries, seen, raced>>

\* The next message of m_autoSend is larger than 1 KB or older than 10 ms.
VisitSend ==
    /\ dpc = "visit" /\ visiting # <<>>
    /\ LET m == Head(visiting) IN
       \/ (SendNow(m) \/ SendLater(m)) /\ UNCHANGED tasks
       \/ SendRefused(m) /\ tasks' = WithRelease(m, tasks)
    /\ visiting' = Tail(visiting)
    /\ UNCHANGED <<autoSend, dpc>> /\ VisitKeeps

\* It is small and young: it stays for more output to be added; or the end.
VisitKeep ==
    /\ dpc = "visit"
    /\ \/ /\ visiting # <<>>
          /\ visiting' = Tail(visiting) /\ autoSend' = Append(autoSend, Head(visiting))
          /\ UNCHANGED dpc
       \/ visiting = <<>> /\ dpc' = "idle" /\ UNCHANGED <<visiting, autoSend>>
    /\ UNCHANGED <<pendingWrite, writing, armed, addQueue, buffer, tasks>> /\ VisitKeeps

-----------------------------------------------------------------------------
Service ==
    \/ ParseFails \/ RejectHeader \/ ParseHeader \/ UnknownProtocol \/ ParsePacket
    \/ (\E m \in Msgs : Rejected(m)) \/ OnWrite \/ OnTimeout \/ OnStop

Dispatch ==
    \/ GameTask \/ CloseConnection \/ ReleaseTask \/ ReleaseProtocolTask
    \/ (\E m \in Msgs : BeginRelease(m) \/ EndRelease(m)) \/ Merge \/ VisitSend \/ VisitKeep

Network ==
    \/ \E r \in {"ok", "fail", "aborted"} : CompleteRead(r) \/ CompleteWrite(r)
    \/ \E k \in {"read", "write"} : Expire(k)

Next ==
    \/ Service \/ Dispatch \/ Network \/ WorldTask
    \/ \E k \in {"releaseConnection", "releaseProtocol"} : Retry(k)

Spec == Init /\ [][Next]_vars

\* Both threads are scheduled.  The dispatcher always has some task, and since its
\* list is a queue, the other tasks starve none of ours.  A message does not stay
\* young, timers expire, a closed socket aborts its operations and the scheduler
\* calls back.
FairSpec ==
    /\ Spec /\ WF_vars(Service) /\ WF_vars(Dispatch) /\ WF_vars(WorldTask)
    /\ SF_vars(GameTask) /\ SF_vars(CloseConnection) /\ SF_vars(ReleaseTask)
    /\ SF_vars(ReleaseProtocolTask) /\ SF_vars(VisitSend)
    /\ \A m \in Msgs : SF_vars(BeginRelease(m))
    /\ \A k \in {"read", "write"} : WF_vars(Expire(k))
    /\ WF_vars(CompleteRead("aborted")) /\ WF_vars(CompleteWrite("aborted"))
    /\ \A k \in {"releaseConnection", "releaseProtocol"} : WF_vars(Retry(k))

-----------------------------------------------------------------------------
(* Properties                                                              *)

Ops(q) == [i \in DOMAIN q |-> q[i].op]
Stopping == "stop" \in Elems(Ops(ioQueue))

\* As long as the two threads have not updated a count at the same moment, it
\* is the number of messages that are handed out, wherever they are.
RefsExact ==
    raced = "no" => connRef = Cardinality(Allocated) /\ protoRef = Cardinality(Allocated)

\* Then no message outlives the protocol and the connection it points to: the
\* protocol is deleted, and the socket's deletion asked for, after the last one.
MessagesPointToLiveObjects ==
    raced = "no" /\ Allocated # {} =>
        proto \in {"attached", "releasing"} /\ ~Stopping /\ socket # "deleted"

\* At most one write is under way, and while the connection is open the counter
\* says which: the branch for connections with more than 100 pending writes is
\* never taken.
OneWrite ==
    /\ pendingWrite <= 1
    /\ state = "open" => (pendingWrite = 1 <=> writing # NoMsg)

Places(m) ==
    Times(m, autoSend) + Times(m, addQueue) + Times(m, visiting) + Times(m, tasks)
    + (IF writing = m THEN 1 ELSE 0) + (IF dpc = m THEN 1 ELSE 0)

\* A message is in one place at a time, so it is released once; and the buffer
\* that output is appended to is one that is not yet written or released.
MessageOnce ==
    /\ OneWrite
    /\ \A m \in Msgs : Places(m) <= 1
    /\ buffer # NoMsg => buffer \in InPool

\* closeConnection always finds the state it expects, however often and from
\* whichever thread close was called: one task for one request.
CloseTaskMatches ==
    Times("close", tasks) = IF state = "request" THEN 1 ELSE 0

\* A packet's task finds its protocol: none is left when the protocol goes.
TasksFindProtocol == "game" \in Elems(tasks) => proto = "attached"

\* The socket's deletion is asked for once, after the connection is closed.
StopOnce ==
    Times("stop", Ops(ioQueue)) + Times("releaseConnection", tasks)
    + (IF "releaseConnection" \in retries THEN 1 ELSE 0)
    + (IF socket = "deleted" THEN 1 ELSE 0)
    <= IF state = "closed" THEN 1 ELSE 0

\* Nothing on the way between the two threads outlives what it points to.
NothingDangles == RefsExact /\ MessagesPointToLiveObjects /\ TasksFindProtocol

\* However often close is called, and by whom, the connection is closed and released
\* once, and so is each message.
OnceOnly == CloseTaskMatches /\ StopOnce /\ MessageOnce

\* A connection that is being closed loses its socket in the end, even if its
\* last write never completes, unless a count was spoilt.
ClosesInTheEnd == state # "open" ~> (socket = "deleted" \/ raced = "yes")
=============================================================================
