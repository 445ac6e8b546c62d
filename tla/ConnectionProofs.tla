-------------------------- MODULE ConnectionProofs --------------------------
(***************************************************************************)
(* What holds of a connection, its protocol and its messages, for every    *)
(* set of messages and number of packets, in every interleaving of the two *)
(* threads.                                                                *)
(*                                                                         *)
(* The argument counts: how often a task, a handler or a message occurs in *)
(* each list.  Every step of either thread moves, adds or takes one entry. *)
(***************************************************************************)
EXTENDS Connection, FiniteSetTheorems, TLAPS

-----------------------------------------------------------------------------
(* How often an element occurs in a list, and how each way of changing a   *)
(* list changes that.                                                      *)

LEMMA TimesType ==
    ASSUME NEW T, NEW q \in Seq(T), NEW e
    PROVE  /\ IsFiniteSet({i \in DOMAIN q : q[i] = e})
           /\ Times(e, q) \in Nat
           /\ Times(e, q) = 0 <=> e \notin Elems(q)
<1>1. DOMAIN q = 1..Len(q) /\ Len(q) \in Nat
  OBVIOUS
<1>2. IsFiniteSet(1..Len(q))
  BY <1>1, FS_Interval
<1>3. IsFiniteSet({i \in DOMAIN q : q[i] = e})
  BY <1>1, <1>2, FS_Subset
<1>4. Cardinality({i \in DOMAIN q : q[i] = e}) = 0 <=> {i \in DOMAIN q : q[i] = e} = {}
  BY <1>3, FS_EmptySet
<1>5. {i \in DOMAIN q : q[i] = e} = {} <=> e \notin Elems(q)
  BY DEF Elems
<1>6. QED BY <1>3, <1>4, <1>5, FS_CardinalityType DEF Times

LEMMA TimesEmpty ==
    ASSUME NEW e
    PROVE  Times(e, <<>>) = 0
<1>1. {i \in DOMAIN <<>> : <<>>[i] = e} = {}
  OBVIOUS
<1>2. QED BY <1>1, FS_EmptySet DEF Times

LEMMA TimesAppend ==
    ASSUME NEW T, NEW q \in Seq(T), NEW x \in T, NEW e
    PROVE  Times(e, Append(q, x)) = Times(e, q) + (IF x = e THEN 1 ELSE 0)
<1> DEFINE r == Append(q, x)
           C == {i \in DOMAIN q : q[i] = e}
           D == {i \in DOMAIN r : r[i] = e}
<1>1. /\ DOMAIN q = 1..Len(q) /\ DOMAIN r = 1..(Len(q) + 1) /\ Len(q) \in Nat
      /\ r[Len(q) + 1] = x /\ \A i \in 1..Len(q) : r[i] = q[i]
  OBVIOUS
<1> HIDE DEF r
<1>2. D = IF x = e THEN C \cup {Len(q) + 1} ELSE C
  BY <1>1
<1>3. Len(q) + 1 \notin C
  BY <1>1
<1>4. IsFiniteSet(C) /\ Cardinality(C) \in Nat
  BY TimesType DEF Times
<1> HIDE DEF C, D
<1>5. x = e => Cardinality(D) = Cardinality(C) + 1
  BY <1>2, <1>3, <1>4, FS_AddElement
<1>6. x # e => Cardinality(D) = Cardinality(C)
  BY <1>2
<1>7. Cardinality(D) = Cardinality(C) + (IF x = e THEN 1 ELSE 0)
  BY <1>4, <1>5, <1>6
<1>8. QED BY <1>7 DEF C, D, Times, r

\* Two lists in a row.
LEMMA TimesConcat ==
    ASSUME NEW T, NEW q \in Seq(T), NEW r \in Seq(T), NEW e
    PROVE  Times(e, q \o r) = Times(e, q) + Times(e, r)
<1> DEFINE s == q \o r
           C == {i \in DOMAIN q : q[i] = e}
           D == {i \in DOMAIN r : r[i] = e}
           E == {i \in DOMAIN s : s[i] = e}
           F == {i + Len(q) : i \in D}
<1>1. /\ DOMAIN q = 1..Len(q) /\ DOMAIN r = 1..Len(r) /\ DOMAIN s = 1..(Len(q) + Len(r))
      /\ Len(q) \in Nat /\ Len(r) \in Nat
      /\ \A i \in 1..Len(q) : s[i] = q[i]
      /\ \A i \in 1..Len(r) : s[i + Len(q)] = r[i]
  OBVIOUS
<1>2. IsFiniteSet(C) /\ IsFiniteSet(D) /\ Cardinality(C) \in Nat /\ Cardinality(D) \in Nat
  BY TimesType DEF Times
<1> HIDE DEF s
<1>3. E = C \cup F
  <2>1. \A i \in E : i \in C \/ (i - Len(q) \in D /\ i = (i - Len(q)) + Len(q))
    <3>1. TAKE i \in E
    <3>2. CASE i \in 1..Len(q)
      BY <3>2, <1>1
    <3>3. CASE i \notin 1..Len(q)
      <4>1. i - Len(q) \in 1..Len(r) /\ i = (i - Len(q)) + Len(q)
        BY <3>3, <1>1
      <4>2. QED BY <4>1, <1>1
    <3>4. QED BY <3>2, <3>3
  <2>2. C \subseteq E
    BY <1>1
  <2>3. F \subseteq E
    BY <1>1
  <2>4. QED BY <2>1, <2>2, <2>3
<1>4. C \cap F = {}
  BY <1>1
<1>5. IsFiniteSet(F) /\ Cardinality(F) = Cardinality(D)
  <2> DEFINE f == [i \in D |-> i + Len(q)]
  <2>1. f \in Bijection(D, F)
    BY <1>1 DEF Bijection, Injection, Surjection, IsInjective
  <2>2. ExistsBijection(D, F)
    BY <2>1 DEF ExistsBijection
  <2> HIDE DEF D, F, f
  <2>3. QED BY <2>2, <1>2, FS_Bijection
<1> HIDE DEF C, D, E, F
<1>6. Cardinality(E) = Cardinality(C) + Cardinality(D)
  <2>1. Cardinality(C \cup F) = Cardinality(C) + Cardinality(F) - Cardinality(C \cap F)
    BY <1>2, <1>5, FS_Union
  <2>2. Cardinality(C \cap F) = 0
    BY <1>4, FS_EmptySet
  <2>3. QED BY <1>2, <1>3, <1>5, <2>1, <2>2
<1>7. QED BY <1>6 DEF Times, C, D, E, s

LEMMA TimesOne ==
    ASSUME NEW x, NEW e
    PROVE  Times(e, <<x>>) = IF x = e THEN 1 ELSE 0
<1> DEFINE N == IF x = e THEN 1 ELSE 0
<1>1. <<x>> = Append(<<>>, x) /\ <<>> \in Seq({x}) /\ x \in {x} /\ N \in Nat
  OBVIOUS
<1>2. Times(e, Append(<<>>, x)) = Times(e, <<>>) + N
  BY <1>1, TimesAppend
<1>3. Times(e, <<>>) = 0
  BY TimesEmpty
<1> HIDE DEF N
<1>4. Times(e, <<x>>) = N
  BY <1>1, <1>2, <1>3
<1>5. QED BY <1>4 DEF N

\* releaseMessage puts its task in front.
LEMMA TimesFront ==
    ASSUME NEW T, NEW q \in Seq(T), NEW x \in T, NEW e
    PROVE  /\ <<x>> \o q \in Seq(T)
           /\ Times(e, <<x>> \o q) = Times(e, q) + (IF x = e THEN 1 ELSE 0)
<1>1. <<x>> \in Seq(T) /\ <<x>> \o q \in Seq(T)
  OBVIOUS
<1>2. Times(e, <<x>> \o q) = Times(e, <<x>>) + Times(e, q)
  BY <1>1, TimesConcat
<1> DEFINE N == IF x = e THEN 1 ELSE 0
<1>3. Times(e, <<x>>) = N
  BY TimesOne
<1>4. Times(e, q) \in Nat /\ N \in Nat
  BY TimesType
<1> HIDE DEF N
<1>5. Times(e, <<x>> \o q) = Times(e, q) + N
  BY <1>2, <1>3, <1>4
<1>6. QED BY <1>1, <1>5 DEF N

LEMMA TimesTail ==
    ASSUME NEW T, NEW q \in Seq(T), q # <<>>, NEW e
    PROVE  /\ Head(q) \in T /\ Tail(q) \in Seq(T)
           /\ Times(e, q) = Times(e, Tail(q)) + (IF Head(q) = e THEN 1 ELSE 0)
<1>1. Head(q) \in T /\ Tail(q) \in Seq(T) /\ q = <<Head(q)>> \o Tail(q)
  OBVIOUS
<1>2. \A h \in T : \A t \in Seq(T) :
          q = <<h>> \o t => Times(e, q) = Times(e, t) + (IF h = e THEN 1 ELSE 0)
  BY TimesFront
<1>3. QED BY <1>1, <1>2

-----------------------------------------------------------------------------
(* The two lists that both threads write: tasks and ready handlers.        *)

Kinds == {"close", "game", "releaseConnection", "releaseProtocol"}
TaskSet == Msgs \cup Kinds
OpNames == {"read", "write", "timeout", "stop"}

LEMMA TaskTimes ==
    ASSUME NEW q \in Seq(TaskSet), NEW e
    PROVE  /\ Times(e, q) \in Nat
           /\ Times(e, q) = 0 <=> e \notin Elems(q)
           /\ \A t \in TaskSet :
                /\ Append(q, t) \in Seq(TaskSet)
                /\ Times(e, Append(q, t)) = Times(e, q) + (IF t = e THEN 1 ELSE 0)
                /\ <<t>> \o q \in Seq(TaskSet)
                /\ Times(e, <<t>> \o q) = Times(e, q) + (IF t = e THEN 1 ELSE 0)
           /\ q # <<>> =>
                /\ Head(q) \in TaskSet /\ Tail(q) \in Seq(TaskSet)
                /\ Times(e, q) = Times(e, Tail(q)) + (IF Head(q) = e THEN 1 ELSE 0)
<1>1. Times(e, q) \in Nat /\ (Times(e, q) = 0 <=> e \notin Elems(q))
  BY TimesType
<1>2. ASSUME NEW t \in TaskSet
      PROVE  /\ Append(q, t) \in Seq(TaskSet)
             /\ Times(e, Append(q, t)) = Times(e, q) + (IF t = e THEN 1 ELSE 0)
             /\ <<t>> \o q \in Seq(TaskSet)
             /\ Times(e, <<t>> \o q) = Times(e, q) + (IF t = e THEN 1 ELSE 0)
  <2>1. Append(q, t) \in Seq(TaskSet)
    OBVIOUS
  <2>2. QED BY <2>1, TimesAppend, TimesFront
<1>3. q # <<>> =>
        /\ Head(q) \in TaskSet /\ Tail(q) \in Seq(TaskSet)
        /\ Times(e, q) = Times(e, Tail(q)) + (IF Head(q) = e THEN 1 ELSE 0)
  BY TimesTail
<1>4. QED BY <1>1, <1>2, <1>3

LEMMA OpsSequence ==
    ASSUME NEW q \in Seq(Handlers)
    PROVE  /\ Ops(q) \in Seq(OpNames)
           /\ \A h \in Handlers : h.op \in OpNames /\ Ops(Append(q, h)) = Append(Ops(q), h.op)
           /\ q # <<>> => /\ Ops(q) # <<>> /\ Head(Ops(q)) = Head(q).op
                          /\ Ops(Tail(q)) = Tail(Ops(q))
<1>0. \A h \in Handlers : h.op \in OpNames
  BY DEF Handlers, OpNames
<1>1. /\ DOMAIN q = 1..Len(q) /\ Len(q) \in Nat
      /\ \A i \in 1..Len(q) : q[i] \in Handlers
  OBVIOUS
<1>2. Ops(q) = [i \in 1..Len(q) |-> q[i].op]
  BY <1>1 DEF Ops
<1>3. Ops(q) \in Seq(OpNames) /\ Len(Ops(q)) = Len(q)
  BY <1>0, <1>1, <1>2
<1>4. ASSUME NEW h \in Handlers
      PROVE  Ops(Append(q, h)) = Append(Ops(q), h.op)
  <2>1. /\ DOMAIN Append(q, h) = 1..(Len(q) + 1)
        /\ \A i \in 1..(Len(q) + 1) :
             Append(q, h)[i] = IF i = Len(q) + 1 THEN h ELSE q[i]
    BY <1>1
  <2>2. Ops(Append(q, h)) = [i \in 1..(Len(q) + 1) |-> IF i = Len(q) + 1 THEN h.op ELSE q[i].op]
    BY <2>1 DEF Ops
  <2>3. Append(Ops(q), h.op) = [i \in 1..(Len(q) + 1) |-> IF i = Len(q) + 1 THEN h.op ELSE q[i].op]
    BY <1>0, <1>1, <1>2, <1>3
  <2>4. QED BY <2>2, <2>3
<1>5. ASSUME q # <<>>
      PROVE  /\ Ops(q) # <<>> /\ Head(Ops(q)) = Head(q).op
             /\ Ops(Tail(q)) = Tail(Ops(q))
  <2>1. /\ Len(q) > 0 /\ DOMAIN Tail(q) = 1..(Len(q) - 1)
        /\ \A i \in 1..(Len(q) - 1) : Tail(q)[i] = q[i + 1]
    BY <1>1, <1>5
  <2>2. Ops(Tail(q)) = [i \in 1..(Len(q) - 1) |-> q[i + 1].op]
    BY <2>1 DEF Ops
  <2>3. Tail(Ops(q)) = [i \in 1..(Len(q) - 1) |-> q[i + 1].op]
    BY <1>0, <1>1, <1>2, <1>3, <2>1
  <2>4. QED BY <1>1, <1>2, <1>3, <2>1, <2>2, <2>3
<1>6. QED BY <1>0, <1>3, <1>4, <1>5

LEMMA HandlerTimes ==
    ASSUME NEW q \in Seq(Handlers), NEW e
    PROVE  /\ Times(e, Ops(q)) \in Nat
           /\ Times(e, Ops(q)) = 0 <=> e \notin Elems(Ops(q))
           /\ \A h \in Handlers :
                /\ Append(q, h) \in Seq(Handlers)
                /\ Times(e, Ops(Append(q, h))) = Times(e, Ops(q)) + (IF h.op = e THEN 1 ELSE 0)
           /\ q # <<>> =>
                /\ Head(q) \in Handlers /\ Tail(q) \in Seq(Handlers)
                /\ Times(e, Ops(q)) = Times(e, Ops(Tail(q))) + (IF Head(q).op = e THEN 1 ELSE 0)
<1>1. Ops(q) \in Seq(OpNames)
  BY OpsSequence
<1>2. Times(e, Ops(q)) \in Nat /\ (Times(e, Ops(q)) = 0 <=> e \notin Elems(Ops(q)))
  BY <1>1, TimesType
<1>3. ASSUME NEW h \in Handlers
      PROVE  /\ Append(q, h) \in Seq(Handlers)
             /\ Times(e, Ops(Append(q, h))) = Times(e, Ops(q)) + (IF h.op = e THEN 1 ELSE 0)
  <2>1. Append(q, h) \in Seq(Handlers)
    OBVIOUS
  <2>2. h.op \in OpNames /\ Ops(Append(q, h)) = Append(Ops(q), h.op)
    BY OpsSequence
  <2>3. QED BY <1>1, <2>1, <2>2, TimesAppend
<1>4. ASSUME q # <<>>
      PROVE  /\ Head(q) \in Handlers /\ Tail(q) \in Seq(Handlers)
             /\ Times(e, Ops(q)) = Times(e, Ops(Tail(q))) + (IF Head(q).op = e THEN 1 ELSE 0)
  <2>1. Head(q) \in Handlers /\ Tail(q) \in Seq(Handlers)
    BY <1>4
  <2>2. Ops(q) # <<>> /\ Head(Ops(q)) = Head(q).op /\ Ops(Tail(q)) = Tail(Ops(q))
    BY <1>4, OpsSequence
  <2>3. Times(e, Ops(q)) = Times(e, Tail(Ops(q))) + (IF Head(Ops(q)) = e THEN 1 ELSE 0)
    BY <1>1, <2>2, TimesTail
  <2>4. QED BY <2>1, <2>2, <2>3
<1>5. QED BY <1>2, <1>3, <1>4

-----------------------------------------------------------------------------
(* The inductive invariant, in three parts that build on one another.      *)

\* The ready handlers: a result of a write waits only while its message w is being
\* written, and one of a read only while n, the packets read, leave room for one.
OkRead == [op |-> "read", result |-> "ok"]
HandlersTrue(q, w, n) ==
    /\ q \in Seq(Handlers)
    /\ Times("write", Ops(q)) <= IF w = NoMsg THEN 0 ELSE 1
    /\ Times("read", Ops(q)) <= 1
    /\ Times(OkRead, q) > 0 => n < MaxPackets

\* One write and one read at a time.
IoInv ==
    /\ TypeOK /\ seen \in Int \X Int
    /\ OneWrite
    /\ HandlersTrue(ioQueue, writing, packets)
    /\ state = "open" => pendingRead = 1

\* One release of the protocol is on its way while the protocol waits for it.
ReleasesOnce ==
    Times("releaseProtocol", tasks) + (IF "releaseProtocol" \in retries THEN 1 ELSE 0)
    = IF proto = "releasing" THEN 1 ELSE 0

\* The protocol is given up by closeConnection, never before.
ProtocolFollows ==
    /\ proto = "attached" => state \in {"open", "request"}
    /\ proto \in {"releasing", "deleted"} => state # "open"
    /\ state = "open" /\ received = "first" => proto = "attached"

\* A closed connection posts no more packets: theirs are in front of the close.
GamesFirst ==
    \A i, j \in DOMAIN tasks : tasks[i] = "close" /\ tasks[j] = "game" => j < i

ClosingInv ==
    /\ CloseTaskMatches /\ StopOnce /\ ReleasesOnce /\ ProtocolFollows
    /\ TasksFindProtocol /\ GamesFirst

\* Messages are handed out by a protocol only, and sendAll visits all it set out to.
MessagesInv ==
    /\ MessageOnce /\ RefsExact /\ MessagesPointToLiveObjects
    /\ proto = "none" => Allocated = {}
    /\ dpc # "visit" => visiting = <<>>

IInv == IoInv /\ ClosingInv /\ MessagesInv

-----------------------------------------------------------------------------
(* One read and one write at a time.                                       *)

LEMMA Started == Init => IoInv
<1> SUFFICES ASSUME Init PROVE IoInv
  OBVIOUS
<1>1. <<>> \in Seq(Handlers) /\ <<>> \in Seq(Msgs) /\ <<>> \in Seq(TaskSet)
  OBVIOUS
<1>2. Ops(<<>>) = <<>>
  BY DEF Ops
<1>3. HandlersTrue(ioQueue, writing, packets)
  BY <1>1, <1>2, TimesEmpty DEF Init, HandlersTrue
<1>4. PICK greeting \in Msgs \cup {NoMsg} :
        /\ writing = greeting /\ pendingWrite = IF greeting = NoMsg THEN 0 ELSE 1
        /\ proto = IF greeting = NoMsg THEN "none" ELSE "attached"
        /\ armed = IF greeting = NoMsg THEN {"read"} ELSE {"read", "write"}
        /\ connRef = pendingWrite /\ protoRef = pendingWrite
  BY DEF Init
<1>5. OneWrite
  BY <1>4 DEF OneWrite
<1>6. TypeOK
  BY <1>1, <1>4, ConnectionAssumption DEF Init, TypeOK, TaskSet, Kinds
<1>7. seen \in Int \X Int /\ pendingRead = 1
  BY DEF Init
<1>8. QED BY <1>3, <1>5, <1>6, <1>7 DEF IoInv

\* The handler at the head is taken.
LEMMA HandlerTaken ==
    ASSUME NEW q, NEW w, NEW n, HandlersTrue(q, w, n), q # <<>>
    PROVE  /\ HandlersTrue(Tail(q), w, n)
           /\ Head(q).op = "write" => w # NoMsg /\ HandlersTrue(Tail(q), NoMsg, n)
           /\ Head(q).op = "read" => /\ \A k : HandlersTrue(Tail(q), w, k)
                                     /\ \A k, v : v # NoMsg => HandlersTrue(Tail(q), v, k)
           /\ Head(q).op = "read" /\ Head(q).result = "ok" => n < MaxPackets
<1>0. q \in Seq(Handlers) /\ Tail(q) \in Seq(Handlers) /\ Head(q) \in Handlers
  BY HandlerTimes DEF HandlersTrue
<1>1. \A e : /\ Times(e, Ops(Tail(q))) \in Nat
             /\ Times(e, Ops(q)) = Times(e, Ops(Tail(q))) + (IF Head(q).op = e THEN 1 ELSE 0)
  BY <1>0, HandlerTimes
<1>2. Times(OkRead, q) = Times(OkRead, Tail(q)) + (IF Head(q) = OkRead THEN 1 ELSE 0)
  BY <1>0, TimesTail
<1>3. Times(OkRead, Tail(q)) \in Nat
  BY <1>0, TimesType
<1>4. Times("read", Ops(Tail(q))) = 0 => Times(OkRead, Tail(q)) = 0
  <2>1. OkRead \in Elems(Tail(q)) => "read" \in Elems(Ops(Tail(q)))
    BY DEF Elems, Ops, OkRead
  <2>2. Times("read", Ops(Tail(q))) = 0 <=> "read" \notin Elems(Ops(Tail(q)))
    BY <1>0, HandlerTimes
  <2>3. Times(OkRead, Tail(q)) = 0 <=> OkRead \notin Elems(Tail(q))
    BY <1>0, TimesType
  <2>4. QED BY <2>1, <2>2, <2>3
<1>5. /\ Times("read", Ops(Tail(q))) \in Nat /\ Times("write", Ops(Tail(q))) \in Nat
      /\ Times("read", Ops(q)) = Times("read", Ops(Tail(q))) + (IF Head(q).op = "read" THEN 1 ELSE 0)
      /\ Times("write", Ops(q)) = Times("write", Ops(Tail(q))) + (IF Head(q).op = "write" THEN 1 ELSE 0)
  BY <1>1
<1>6. Head(q).op = "read" /\ Head(q).result = "ok" => Head(q) = OkRead
  BY <1>0 DEF Handlers, OkRead
<1> HIDE DEF OkRead
<1>7. /\ Times("write", Ops(q)) <= IF w = NoMsg THEN 0 ELSE 1
      /\ Times("read", Ops(q)) <= 1
      /\ Times(OkRead, q) > 0 => n < MaxPackets
  BY DEF HandlersTrue
<1>8. HandlersTrue(Tail(q), w, n)
  BY <1>0, <1>2, <1>3, <1>5, <1>7 DEF HandlersTrue
<1>9. Head(q).op = "write" => w # NoMsg /\ HandlersTrue(Tail(q), NoMsg, n)
  BY <1>0, <1>2, <1>3, <1>5, <1>7 DEF HandlersTrue
<1>10. Head(q).op = "read" => /\ \A k : HandlersTrue(Tail(q), w, k)
                              /\ \A k, v : v # NoMsg => HandlersTrue(Tail(q), v, k)
  <2> SUFFICES ASSUME Head(q).op = "read"
               PROVE  /\ \A k : HandlersTrue(Tail(q), w, k)
                      /\ \A k, v : v # NoMsg => HandlersTrue(Tail(q), v, k)
    OBVIOUS
  <2>1. Times(OkRead, Tail(q)) = 0 /\ Times("read", Ops(Tail(q))) = 0
    BY <1>4, <1>5, <1>7
  <2>2. Times("write", Ops(Tail(q))) <= 1
    BY <1>5, <1>7
  <2>3. QED BY <1>0, <1>5, <1>7, <2>1, <2>2 DEF HandlersTrue
<1>11. QED BY <1>2, <1>3, <1>6, <1>7, <1>8, <1>9, <1>10

\* A write begins where none was under way.
LEMMA WriteBegun ==
    ASSUME NEW q, NEW w, NEW n, HandlersTrue(q, NoMsg, n), w # NoMsg
    PROVE  HandlersTrue(q, w, n)
<1>1. Times("write", Ops(q)) \in Nat
  BY HandlerTimes DEF HandlersTrue
<1>2. QED BY <1>1 DEF HandlersTrue

\* What Post appends.
LEMMA PostTimes ==
    ASSUME NEW q \in Seq(Handlers), NEW e, NEW o, NEW r,
           [op |-> o, result |-> r] \in Handlers
    PROVE  /\ Append(q, [op |-> o, result |-> r]) \in Seq(Handlers)
           /\ Times(e, Ops(Append(q, [op |-> o, result |-> r]))) =
                Times(e, Ops(q)) + (IF o = e THEN 1 ELSE 0)
<1> DEFINE h == [op |-> o, result |-> r]
<1>1. h \in Handlers /\ h.op = o
  OBVIOUS
<1> HIDE DEF h
<1>2. /\ Append(q, h) \in Seq(Handlers)
      /\ Times(e, Ops(Append(q, h))) = Times(e, Ops(q)) + (IF h.op = e THEN 1 ELSE 0)
  BY <1>1, HandlerTimes
<1>3. QED BY <1>1, <1>2 DEF h

LEMMA HandlerPosted ==
    ASSUME NEW q, NEW w, NEW n, HandlersTrue(q, w, n), NEW o, NEW r,
           [op |-> o, result |-> r] \in Handlers,
           o = "write" => w # NoMsg /\ "write" \notin Elems(Ops(q)),
           o = "read" => "read" \notin Elems(Ops(q)) /\ (r = "ok" => n < MaxPackets)
    PROVE  HandlersTrue(Append(q, [op |-> o, result |-> r]), w, n)
<1> DEFINE h == [op |-> o, result |-> r]
           p == Append(q, h)
<1>1. q \in Seq(Handlers) /\ h \in Handlers
  BY DEF HandlersTrue
<1>2. p \in Seq(Handlers) /\ \A e : Times(e, Ops(p)) = Times(e, Ops(q)) + (IF o = e THEN 1 ELSE 0)
  BY <1>1, PostTimes
<1>3. /\ Times("write", Ops(p)) = Times("write", Ops(q)) + (IF o = "write" THEN 1 ELSE 0)
      /\ Times("read", Ops(p)) = Times("read", Ops(q)) + (IF o = "read" THEN 1 ELSE 0)
  BY <1>2
<1>4. h = OkRead <=> o = "read" /\ r = "ok"
  BY DEF OkRead
<1>5. /\ Times("write", Ops(q)) \in Nat /\ Times("read", Ops(q)) \in Nat
      /\ o = "write" => Times("write", Ops(q)) = 0
      /\ o = "read" => Times("read", Ops(q)) = 0
  BY <1>1, HandlerTimes
<1>6. Times(OkRead, p) = Times(OkRead, q) + (IF h = OkRead THEN 1 ELSE 0)
  <2> HIDE DEF h
  <2>1. QED BY <1>1, TimesAppend
<1>7. Times(OkRead, q) \in Nat
  BY <1>1, TimesType
<1> HIDE DEF p, h
<1>8. HandlersTrue(p, w, n)
  BY <1>2, <1>3, <1>4, <1>5, <1>6, <1>7 DEF HandlersTrue
<1>9. QED BY <1>8 DEF p, h

LEMMA IoInductive == IoInv /\ Next => IoInv'
<1> SUFFICES ASSUME IoInv, Next PROVE IoInv'
  OBVIOUS
<1> USE DEF IoInv
<1>0. /\ TypeOK /\ ioQueue \in Seq(Handlers) /\ tasks \in Seq(TaskSet)
      /\ seen \in Int \X Int /\ HandlersTrue(ioQueue, writing, packets)
  BY DEF TypeOK, TaskSet, Kinds
<1>1. ioQueue # <<>> =>
        /\ Head(ioQueue) \in Handlers
        /\ HandlersTrue(Tail(ioQueue), writing, packets) /\ Tail(ioQueue) \in Seq(Handlers)
  BY <1>0, HandlerTimes, HandlerTaken DEF HandlersTrue
<1>2. IsNext("read") => HandlersTrue(Tail(ioQueue), writing, packets + 1)
  BY <1>0, HandlerTaken DEF IsNext
<1>3. /\ WithClose(tasks) \in Seq(TaskSet)
      /\ \A m \in Msgs : /\ WithRelease(m, tasks) \in Seq(TaskSet)
                         /\ WithClose(WithRelease(m, tasks)) \in Seq(TaskSet)
      /\ tasks # <<>> => Tail(tasks) \in Seq(TaskSet) /\ WithClose(Tail(tasks)) \in Seq(TaskSet)
      /\ StateAfterClose \in {"open", "request", "closing", "closed"} \ {"open"}
  BY <1>0, TaskTimes DEF WithClose, WithRelease, StateAfterClose, CanRequest, TaskSet, Kinds, TypeOK
<1> USE DEF Close, IsNext, TypeOK, TaskSet, Kinds, OneWrite, connection, io, protocol,
            counts, pool, dispatcher
<1>4. CASE ParseFails
  <2>1. errors' \subseteq {"read", "write"} /\ reading' = "none" /\ armed' \subseteq armed
    BY <1>0, <1>4 DEF ParseFails, Broken
  <2>2. state' = StateAfterClose /\ tasks' = WithClose(tasks) /\ ioQueue # <<>>
        /\ ioQueue' = Tail(ioQueue)
    BY <1>4 DEF ParseFails
  <2>3. UNCHANGED <<socket, pendingRead, pendingWrite, writing, received, packets,
                    protocol, counts, pool, retries, dpc, seen, raced>>
    BY <1>4 DEF ParseFails
  <2>4. QED BY <1>0, <1>1, <1>3, <2>1, <2>2, <2>3
<1>5. CASE RejectHeader
  BY <1>0, <1>1, <1>3, <1>5 DEF RejectHeader, Parses
<1>6. CASE ParseHeader
  BY <1>0, <1>1, <1>6 DEF ParseHeader, Parses
<1>7. CASE UnknownProtocol
  <2>1. state' = StateAfterClose /\ tasks' = WithClose(tasks) /\ ioQueue # <<>>
        /\ ioQueue' = Tail(ioQueue) /\ state = "open" /\ packets < MaxPackets
        /\ pendingRead' = 0 /\ received' = "first" /\ packets' = packets + 1
        /\ reading' = "none" /\ armed' = armed \ {"read"}
    <3>1. IsNext("read") /\ state = "open" /\ Broken \cap {"read"} = {}
      BY <1>7 DEF UnknownProtocol, Parses
    <3>2. Head(ioQueue).result = "ok"
      BY <3>1 DEF Broken, Result
    <3>3. packets < MaxPackets
      BY <1>0, <3>1, <3>2, HandlerTaken
    <3>4. QED BY <1>0, <1>7, <3>1, <3>3 DEF UnknownProtocol, Parses
  <2>2. UNCHANGED <<socket, errors, retries, dpc, seen, raced, pendingWrite, writing,
                    protocol, counts, pool>>
    BY <1>7 DEF UnknownProtocol, Parses
  <2>3. HandlersTrue(ioQueue', writing', packets')
    BY <1>2, <1>7, <2>1, <2>2 DEF UnknownProtocol, Parses
  <2>4. QED BY <1>0, <1>3, <2>1, <2>2, <2>3, ConnectionAssumption
<1>8. ASSUME IsNext("read"), state = "open", Broken \cap {"read"} = {}
      PROVE  packets < MaxPackets
  <2>1. Head(ioQueue).result = "ok"
    BY <1>8 DEF Broken, Result
  <2>2. QED BY <1>0, <1>8, <2>1, HandlerTaken
<1>9. CASE ParsePacket
  <2>1. /\ IsNext("read") /\ ioQueue' = Tail(ioQueue) /\ packets < MaxPackets
        /\ UNCHANGED <<socket, errors, retries, dpc, seen, raced>>
    BY <1>8, <1>9 DEF ParsePacket, Parses
  <2>2. /\ reading' = "header" /\ pendingRead' = 1 /\ received' = "first"
        /\ packets' = packets + 1 /\ armed' = armed \cup {"read"}
        /\ proto' \in {proto, "attached"}
        /\ UNCHANGED <<state, pendingWrite, writing, buffer, counts, pool>>
    BY <1>9 DEF ParsePacket, ReadsOn
  <2>3. tasks' \in Seq(TaskSet)
    <3>1. Append(tasks, "game") \in Seq(TaskSet)
      BY <1>0, TaskTimes
    <3>2. tasks' = Append(tasks, "game") \/ tasks' = tasks
      BY <1>9 DEF ParsePacket
    <3>3. QED BY <1>0, <3>1, <3>2
  <2>4. HandlersTrue(ioQueue', writing', packets')
    BY <1>2, <2>1, <2>2
  <2>5. QED BY <1>0, <2>1, <2>2, <2>3, <2>4, ConnectionAssumption
<1>10. ASSUME NEW m \in Msgs, Rejected(m)
       PROVE  IoInv'
  <2>1. /\ IsNext("read") /\ ioQueue' = Tail(ioQueue) /\ packets < MaxPackets
        /\ state = "open" /\ ioQueue # <<>>
        /\ UNCHANGED <<socket, errors, retries, dpc, seen, raced>>
    BY <1>8, <1>10 DEF Rejected, Parses
  <2>2. /\ reading' = "header" /\ pendingRead' = 1 /\ received' = "first"
        /\ packets' = packets + 1 /\ proto' = "attached"
        /\ connRef' = connRef + 1 /\ protoRef' = protoRef + 1
        /\ state' = StateAfterClose /\ tasks' = WithClose(tasks)
        /\ UNCHANGED <<buffer, autoSend, visiting>>
    BY <1>10 DEF Rejected, ReadsOn
  <2>3. addQueue' \in Seq(Msgs) /\ armed' \subseteq {"read", "write"}
    <3>1. Append(addQueue, m) \in Seq(Msgs)
      BY <1>0
    <3>2. \/ addQueue' = addQueue /\ armed' = armed \cup {"read", "write"}
          \/ addQueue' = Append(addQueue, m) /\ armed' = armed \cup {"read"}
      BY <1>10 DEF Rejected
    <3>3. QED BY <1>0, <3>1, <3>2
  <2>4. \/ /\ pendingWrite = 0 /\ writing' = m /\ pendingWrite' = 1
        \/ pendingWrite # 0 /\ UNCHANGED <<writing, pendingWrite>>
    BY <1>10 DEF Rejected
  <2>5. HandlersTrue(ioQueue', writing, packets')
    BY <1>2, <2>1, <2>2
  <2>6. HandlersTrue(ioQueue', writing', packets')
    BY <1>0, <2>1, <2>4, <2>5, WriteBegun, ConnectionAssumption
  <2>7. pendingWrite' \in 0..1 /\ writing' \in Msgs \cup {NoMsg} /\ packets' \in 0..MaxPackets
    BY <1>0, <2>1, <2>2, <2>4, ConnectionAssumption
  <2>8. state' \in {"request", "closing", "closed"}
    BY <1>3, <2>2
  <2>9. tasks' \in Seq(TaskSet) /\ ioQueue' \in Seq(Handlers)
    BY <1>3, <2>2, <2>6 DEF HandlersTrue
  <2>10. QED BY <1>0, <2>1, <2>2, <2>3, <2>6, <2>7, <2>8, <2>9
<1>11. CASE OnWrite \/ OnTimeout
  <2>1. CASE OnWrite
    <3>0. writing # NoMsg
      BY <1>0, <2>1, HandlerTaken DEF OnWrite
    <3>1. /\ ioQueue # <<>> /\ ioQueue' = Tail(ioQueue) /\ writing \in Msgs /\ writing' = NoMsg
          /\ armed' = armed \ {"write"} /\ errors' \subseteq {"read", "write"}
          /\ UNCHANGED <<reading, received, packets, protocol, counts, pool, retries,
                         dpc, seen, raced>>
      BY <1>0, <2>1, <3>0 DEF OnWrite
    <3>2. HandlersTrue(ioQueue', writing', packets')
      <4>1. Head(ioQueue).op = "write"
        BY <2>1 DEF OnWrite
      <4>2. HandlersTrue(Tail(ioQueue), NoMsg, packets)
        BY <1>0, <3>1, <4>1, HandlerTaken
      <4>3. QED BY <3>1, <4>2
    <3>3. CASE state # "open" \/ "write" \in errors'
      <4>1. /\ CloseSocket /\ state' = StateAfterClose
            /\ tasks' = WithClose(WithRelease(writing, tasks))
        BY <2>1, <3>3 DEF OnWrite
      <4>2. /\ socket' \in {"open", "closed", "deleted"} /\ pendingRead' \in 0..1
            /\ pendingWrite' \in 0..1
        BY <1>0, <4>1 DEF CloseSocket
      <4>3. QED BY <1>0, <1>3, <3>1, <3>2, <4>1, <4>2 DEF HandlersTrue
    <3>4. CASE ~(state # "open" \/ "write" \in errors')
      <4>1. pendingWrite' = 0
        BY <1>0, <2>1, <3>1, <3>4, ConnectionAssumption DEF OnWrite
      <4>2. tasks' = WithRelease(writing, tasks) /\ UNCHANGED <<state, socket, pendingRead>>
        BY <2>1, <3>4 DEF OnWrite
      <4>3. QED BY <1>0, <1>3, <3>1, <3>2, <3>4, <4>1, <4>2
    <3>5. QED BY <3>3, <3>4
  <2>2. CASE OnTimeout
    <3>1. /\ ioQueue # <<>> /\ ioQueue' = Tail(ioQueue)
          /\ UNCHANGED <<errors, reading, writing, armed, received, packets, protocol,
                         counts, pool, retries, dpc, seen, raced>>
      BY <2>2 DEF OnTimeout
    <3>2. \/ UNCHANGED <<socket, pendingRead, pendingWrite, state, tasks>>
          \/ CloseSocket /\ state' = StateAfterClose /\ tasks' = WithClose(tasks)
      BY <2>2 DEF OnTimeout
    <3>3. CASE UNCHANGED <<socket, pendingRead, pendingWrite, state, tasks>>
      BY <1>0, <1>1, <3>1, <3>3
    <3>4. CASE CloseSocket /\ state' = StateAfterClose /\ tasks' = WithClose(tasks)
      <4>1. /\ socket' \in {"open", "closed", "deleted"} /\ pendingRead' \in 0..1
            /\ pendingWrite' \in 0..1
        BY <1>0, <3>4 DEF CloseSocket
      <4>2. QED BY <1>0, <1>1, <1>3, <3>1, <3>4, <4>1
    <3>5. QED BY <3>2, <3>3, <3>4
  <2>3. QED BY <1>11, <2>1, <2>2
<1>12. CASE OnStop
  BY <1>0, <1>1, <1>12 DEF OnStop
<1>13. ASSUME NEW q \in Seq(TaskSet), WithClose(q) \in Seq(TaskSet), Act(q), ActKeeps,
              dpc' = "merge"
       PROVE  IoInv'
  <2>1. CASE tasks' = q /\ UNCHANGED <<state, counts, buffer, autoSend>>
    BY <1>0, <1>13, <2>1 DEF ActKeeps
  <2>2. ASSUME NEW m \in Free,
               buffer' = m /\ autoSend' = Append(autoSend, m)
               /\ connRef' = connRef + 1 /\ protoRef' = protoRef + 1
               /\ tasks' = q /\ UNCHANGED state
        PROVE  IoInv'
    <3>1. m \in Msgs /\ Append(autoSend, m) \in Seq(Msgs)
      BY <1>0 DEF Free
    <3>2. QED BY <1>0, <1>13, <2>2, <3>1 DEF ActKeeps
  <2>3. CASE Close(q) /\ UNCHANGED <<counts, buffer, autoSend>>
    BY <1>0, <1>3, <1>13, <2>3 DEF ActKeeps
  <2>4. QED BY <1>13, <2>1, <2>2, <2>3 DEF Act
<1>14. CASE GameTask \/ WorldTask
  BY <1>0, <1>3, <1>13, <1>14 DEF GameTask, WorldTask, IsTask
<1>30. Post("stop", "ok") => HandlersTrue(ioQueue', writing, packets)
  <2>1. [op |-> "stop", result |-> "ok"] \in Handlers
    BY DEF Handlers
  <2>2. HandlersTrue(Append(ioQueue, [op |-> "stop", result |-> "ok"]), writing, packets)
    BY <1>0, <2>1, HandlerPosted
  <2>3. QED BY <2>2 DEF Post
<1>15. CASE CloseConnection
  <2>1. ioQueue' = ioQueue \/ Post("stop", "ok")
    BY <1>15 DEF CloseConnection, ReleaseConnection
  <2>2. HandlersTrue(ioQueue', writing, packets)
    BY <1>0, <1>30, <2>1
  <2>3. /\ retries' \subseteq {"releaseConnection", "releaseProtocol"}
        /\ proto' \in {"none", "releasing", "deleted"}
    BY <1>0, <1>15 DEF CloseConnection, ReleaseConnection
  <2>4. /\ pendingWrite' \in 0..1 /\ pendingRead' \in 0..1
        /\ socket' \in {"open", "closed", "deleted"} /\ state' \in {"closing", "closed"}
    BY <1>0, <1>15 DEF CloseConnection, CloseSocket
  <2>5. /\ tasks' \in Seq(TaskSet) /\ dpc' = "merge"
        /\ UNCHANGED <<errors, reading, writing, armed, received, packets, buffer,
                       counts, pool, seen, raced>>
    BY <1>0, <1>3, <1>15 DEF CloseConnection, IsTask
  <2>6. QED BY <1>0, <2>2, <2>3, <2>4, <2>5 DEF HandlersTrue
<1>16. CASE ReleaseTask
  <2>1. ioQueue' = ioQueue \/ Post("stop", "ok")
    BY <1>16 DEF ReleaseTask, ReleaseConnection
  <2>2. HandlersTrue(ioQueue', writing, packets)
    BY <1>0, <1>30, <2>1
  <2>3. retries' \subseteq {"releaseConnection", "releaseProtocol"}
    BY <1>0, <1>16 DEF ReleaseTask, ReleaseConnection
  <2>4. QED BY <1>0, <1>3, <1>16, <2>2, <2>3 DEF ReleaseTask, IsTask, HandlersTrue
<1>17. CASE ReleaseProtocolTask
  BY <1>0, <1>3, <1>17 DEF ReleaseProtocolTask, IsTask, ReleaseProtocol
<1>18. ASSUME NEW m \in Msgs, BeginRelease(m)
       PROVE  IoInv'
  <2>1. seen' \in Int \X Int
    BY <1>0, <1>18 DEF BeginRelease
  <2>2. tasks' \in Seq(TaskSet) /\ dpc' \in Msgs
    BY <1>3, <1>18 DEF BeginRelease, IsTask
  <2>3. UNCHANGED <<connection, io, protocol, counts, pool, retries, raced>>
    BY <1>18 DEF BeginRelease
  <2>4. QED BY <1>0, <2>1, <2>2, <2>3
<1>19. ASSUME NEW m \in Msgs, EndRelease(m)
       PROVE  IoInv'
  <2>1. seen[1] \in Int /\ seen[2] \in Int /\ seen' \in Int \X Int
    BY <1>0, <1>19 DEF EndRelease
  <2>2. connRef' \in Int /\ protoRef' \in Int
    BY <1>0, <1>19, <2>1 DEF EndRelease, Lowered
  <2>3. raced' \in {"no", "yes"} /\ dpc' = "merge"
    BY <1>0, <1>19 DEF EndRelease
  <2>4. UNCHANGED <<connection, io, protocol, pool, tasks, retries>>
    BY <1>19 DEF EndRelease
  <2>5. QED BY <1>0, <2>1, <2>2, <2>3, <2>4
<1>20. CASE Merge
  <2>1. UNCHANGED <<connection, io, proto, counts, retries, seen, raced>>
    BY <1>20 DEF Merge
  <2>2. /\ tasks' \in Seq(TaskSet) /\ addQueue' \in Seq(Msgs) /\ autoSend' \in Seq(Msgs)
        /\ visiting' \in Seq(Msgs)
    <3>1. autoSend \o addQueue \in Seq(Msgs) /\ <<>> \in Seq(Msgs)
      BY <1>0
    <3>2. addQueue # <<>> => Head(addQueue) \in Msgs /\ Tail(addQueue) \in Seq(Msgs)
      BY <1>0
    <3>3. QED BY <1>0, <1>3, <1>20, <3>1, <3>2 DEF Merge
  <2>3. buffer' \in Msgs \cup {NoMsg} /\ dpc' \in {"merge", "visit"}
    BY <1>0, <1>20 DEF Merge, ForgetBuffer
  <2>4. QED BY <1>0, <2>1, <2>2, <2>3
<1>21. CASE VisitSend
  <2>1. PICK m \in Msgs :
          /\ m = Head(visiting) /\ visiting' = Tail(visiting) /\ Tail(visiting) \in Seq(Msgs)
          /\ Append(addQueue, m) \in Seq(Msgs)
          /\ \/ (SendNow(m) \/ SendLater(m)) /\ UNCHANGED tasks
             \/ SendRefused(m) /\ tasks' = WithRelease(m, tasks)
    BY <1>0, <1>21 DEF VisitSend
  <2>2. UNCHANGED <<state, socket, errors, pendingRead, reading, ioQueue, received,
                    packets, proto, counts, retries, seen, raced, autoSend, dpc>>
    BY <1>21 DEF VisitSend, VisitKeeps
  <2>3. tasks' \in Seq(TaskSet)
    BY <1>0, <1>3, <2>1
  <2>4. buffer' \in Msgs \cup {NoMsg} /\ addQueue' \in Seq(Msgs)
    BY <1>0, <2>1 DEF SendNow, SendLater, SendRefused, ForgetBuffer
  <2>5. \/ UNCHANGED <<pendingWrite, writing, armed>>
        \/ /\ pendingWrite = 0 /\ pendingWrite' = 1 /\ writing' = m /\ state = "open"
           /\ armed' = armed \cup {"write"}
    BY <1>0, <2>1 DEF SendNow, SendLater, SendRefused, Writable
  <2>6. HandlersTrue(ioQueue', writing', packets') /\ UNCHANGED packets
    BY <1>0, <2>2, <2>5, WriteBegun, ConnectionAssumption
  <2>7. /\ pendingWrite' \in 0..1 /\ writing' \in Msgs \cup {NoMsg}
        /\ armed' \subseteq {"read", "write"}
        /\ state' = "open" => (pendingWrite' = 1 <=> writing' # NoMsg)
    <3>1. CASE UNCHANGED <<pendingWrite, writing, armed>>
      BY <1>0, <2>2, <3>1
    <3>2. CASE /\ pendingWrite' = 1 /\ writing' = m /\ armed' = armed \cup {"write"}
      BY <1>0, <2>1, <3>2, ConnectionAssumption
    <3>3. QED BY <2>5, <3>1, <3>2
  <2>8. QED BY <1>0, <2>1, <2>2, <2>3, <2>4, <2>6, <2>7
<1>22. CASE VisitKeep
  <2>1. UNCHANGED <<state, socket, errors, pendingRead, reading, ioQueue, received,
                    packets, proto, counts, retries, seen, raced, pendingWrite, writing,
                    armed, addQueue, buffer, tasks>>
    BY <1>22 DEF VisitKeep, VisitKeeps
  <2>2. visiting # <<>> => /\ Head(visiting) \in Msgs /\ Tail(visiting) \in Seq(Msgs)
                           /\ Append(autoSend, Head(visiting)) \in Seq(Msgs)
    BY <1>0
  <2>3. visiting' \in Seq(Msgs) /\ autoSend' \in Seq(Msgs) /\ dpc' \in {"visit", "idle"}
    BY <1>0, <1>22, <2>2 DEF VisitKeep
  <2>4. QED BY <1>0, <2>1, <2>3
<1>31. \A o \in {"read", "write"} : Ready(o) = {} => o \notin Elems(Ops(ioQueue))
  BY DEF Ready, Ops, Elems
<1>23. ASSUME NEW r \in {"ok", "fail", "aborted"}, CompleteRead(r)
       PROVE  IoInv'
  <2>1. [op |-> "read", result |-> r] \in Handlers
    BY DEF Handlers
  <2>2. ioQueue' = Append(ioQueue, [op |-> "read", result |-> r])
        /\ "read" \notin Elems(Ops(ioQueue)) /\ (r = "ok" => packets < MaxPackets)
    BY <1>31, <1>23 DEF CompleteRead, Post
  <2>3. HandlersTrue(ioQueue', writing, packets)
    BY <1>0, <2>1, <2>2, HandlerPosted
  <2>4. QED BY <1>0, <2>3, <1>23 DEF CompleteRead, HandlersTrue
<1>24. ASSUME NEW r \in {"ok", "fail", "aborted"}, CompleteWrite(r)
       PROVE  IoInv'
  <2>1. [op |-> "write", result |-> r] \in Handlers
    BY DEF Handlers
  <2>2. ioQueue' = Append(ioQueue, [op |-> "write", result |-> r])
        /\ "write" \notin Elems(Ops(ioQueue)) /\ writing # NoMsg
    BY <1>31, <1>24 DEF CompleteWrite, Post
  <2>3. HandlersTrue(ioQueue', writing, packets)
    BY <1>0, <2>1, <2>2, HandlerPosted
  <2>4. QED BY <1>0, <2>3, <1>24 DEF CompleteWrite, HandlersTrue
<1>25. ASSUME NEW k \in {"read", "write"}, Expire(k)
       PROVE  IoInv'
  <2>1. [op |-> "timeout", result |-> k] \in Handlers
    BY DEF Handlers
  <2>2. ioQueue' = Append(ioQueue, [op |-> "timeout", result |-> k])
    BY <1>25 DEF Expire, Post
  <2>3. HandlersTrue(ioQueue', writing, packets)
    BY <1>0, <2>1, <2>2, HandlerPosted
  <2>4. QED BY <1>0, <2>3, <1>25 DEF Expire, HandlersTrue
<1>26. ASSUME NEW k \in {"releaseConnection", "releaseProtocol"}, Retry(k)
       PROVE  IoInv'
  BY <1>0, <1>26, TaskTimes DEF Retry
<1>27. QED
  BY <1>4, <1>5, <1>6, <1>7, <1>8, <1>9, <1>10, <1>11, <1>12, <1>13, <1>14, <1>15, <1>16,
     <1>17, <1>18, <1>19, <1>20, <1>21, <1>22, <1>23, <1>24, <1>25, <1>26
     DEF Next, Service, Dispatch, Network

-----------------------------------------------------------------------------
(* One close, one release of the protocol, one stop.                       *)

GameOrder(q) == \A i, j \in DOMAIN q : q[i] = "close" /\ q[j] = "game" => j < i

LEMMA GameOrderKept ==
    ASSUME NEW q \in Seq(TaskSet), GameOrder(q)
    PROVE  /\ \A t \in TaskSet :
                /\ t # "game" \/ "close" \notin Elems(q) => GameOrder(Append(q, t))
                /\ t # "close" => GameOrder(<<t>> \o q)
           /\ q # <<>> => /\ GameOrder(Tail(q))
                          /\ Head(q) = "close" => "game" \notin Elems(Tail(q))
<1>1. DOMAIN q = 1..Len(q) /\ Len(q) \in Nat
  OBVIOUS
<1>2. ASSUME NEW t \in TaskSet, t # "game" \/ "close" \notin Elems(q)
      PROVE  GameOrder(Append(q, t))
  <2>1. /\ DOMAIN Append(q, t) = 1..(Len(q) + 1)
        /\ \A i \in 1..(Len(q) + 1) : Append(q, t)[i] = IF i = Len(q) + 1 THEN t ELSE q[i]
    BY <1>1
  <2>2. \A i \in DOMAIN q : t = "game" => q[i] # "close"
    BY <1>2 DEF Elems
  <2>3. QED BY <1>1, <2>1, <2>2 DEF GameOrder
<1>3. ASSUME NEW t \in TaskSet, t # "close"
      PROVE  GameOrder(<<t>> \o q)
  <2>1. /\ DOMAIN (<<t>> \o q) = 1..(Len(q) + 1)
        /\ \A i \in 1..(Len(q) + 1) : (<<t>> \o q)[i] = IF i = 1 THEN t ELSE q[i - 1]
    BY <1>1
  <2>2. ASSUME NEW i \in 1..(Len(q) + 1), NEW j \in 1..(Len(q) + 1),
               (<<t>> \o q)[i] = "close", (<<t>> \o q)[j] = "game"
        PROVE  j < i
    <3>1. i # 1 /\ i - 1 \in DOMAIN q /\ q[i - 1] = "close"
      BY <1>1, <1>3, <2>1, <2>2
    <3>2. CASE j = 1
      BY <3>1, <3>2
    <3>3. CASE j # 1
      <4>1. j - 1 \in DOMAIN q /\ q[j - 1] = "game"
        BY <1>1, <2>1, <2>2, <3>3
      <4>2. j - 1 < i - 1
        BY <3>1, <4>1 DEF GameOrder
      <4>3. QED BY <4>2
    <3>4. QED BY <3>2, <3>3
  <2>3. QED BY <2>1, <2>2 DEF GameOrder
<1>4. ASSUME q # <<>>
      PROVE  /\ GameOrder(Tail(q))
             /\ Head(q) = "close" => "game" \notin Elems(Tail(q))
  <2>1. /\ Head(q) = q[1] /\ 1 \in DOMAIN q
        /\ DOMAIN Tail(q) = 1..(Len(q) - 1)
        /\ \A i \in DOMAIN Tail(q) : i + 1 \in DOMAIN q /\ Tail(q)[i] = q[i + 1]
    BY <1>1, <1>4
  <2>2. ASSUME NEW i \in DOMAIN Tail(q), NEW j \in DOMAIN Tail(q),
               Tail(q)[i] = "close", Tail(q)[j] = "game"
        PROVE  j < i
    <3>1. j + 1 < i + 1
      BY <2>1, <2>2 DEF GameOrder
    <3>2. QED BY <2>1, <3>1
  <2>3. ASSUME Head(q) = "close", NEW j \in DOMAIN Tail(q), Tail(q)[j] = "game"
        PROVE  FALSE
    <3>1. j + 1 < 1
      BY <2>1, <2>3 DEF GameOrder
    <3>2. QED BY <2>1, <3>1
  <2>4. QED BY <2>2, <2>3 DEF GameOrder, Elems
<1>5. QED BY <1>2, <1>3, <1>4

\* What the task list q owes to the state, the protocol, the events rs of the
\* scheduler and the number of stops that were asked for.
TasksTrue(q, st, pr, rs, stops) ==
    /\ q \in Seq(TaskSet) /\ stops \in Nat
    /\ Times("close", q) = IF st = "request" THEN 1 ELSE 0
    /\ stops + Times("releaseConnection", q) + (IF "releaseConnection" \in rs THEN 1 ELSE 0)
       <= IF st = "closed" THEN 1 ELSE 0
    /\ Times("releaseProtocol", q) + (IF "releaseProtocol" \in rs THEN 1 ELSE 0)
       = IF pr = "releasing" THEN 1 ELSE 0
    /\ Times("game", q) > 0 => pr = "attached"
    /\ GameOrder(q)

Stops == Times("stop", Ops(ioQueue)) + (IF socket = "deleted" THEN 1 ELSE 0)

LEMMA ClosingMeans ==
    IoInv => (ClosingInv <=> /\ TasksTrue(tasks, state, proto, retries, Stops)
                             /\ ProtocolFollows)
<1> SUFFICES ASSUME IoInv
             PROVE  ClosingInv <=> /\ TasksTrue(tasks, state, proto, retries, Stops)
                                   /\ ProtocolFollows
  OBVIOUS
<1>1. tasks \in Seq(TaskSet) /\ ioQueue \in Seq(Handlers)
  BY DEF IoInv, TypeOK, TaskSet, Kinds
<1>2. /\ Times("stop", Ops(ioQueue)) \in Nat
      /\ Times("releaseConnection", tasks) \in Nat
      /\ Times("game", tasks) \in Nat
      /\ "game" \in Elems(tasks) <=> Times("game", tasks) > 0
  <2>1. Times("game", tasks) \in Nat /\ (Times("game", tasks) = 0 <=> "game" \notin Elems(tasks))
    BY <1>1, TaskTimes
  <2>2. QED BY <1>1, <2>1, TaskTimes, HandlerTimes
<1>3. Stops \in Nat
  BY <1>2 DEF Stops
<1>4. StopOnce <=> Stops + Times("releaseConnection", tasks)
                   + (IF "releaseConnection" \in retries THEN 1 ELSE 0)
                   <= IF state = "closed" THEN 1 ELSE 0
  BY <1>2 DEF StopOnce, Stops
<1>5. GamesFirst <=> GameOrder(tasks)
  BY DEF GamesFirst, GameOrder
<1>6. QED
  BY <1>1, <1>2, <1>3, <1>4, <1>5
     DEF ClosingInv, TasksTrue, CloseTaskMatches, ReleasesOnce, TasksFindProtocol

\* A message is released: its task goes in front.
LEMMA MessageInFront ==
    ASSUME NEW q, NEW st, NEW pr, NEW rs, NEW n, TasksTrue(q, st, pr, rs, n), NEW m \in Msgs
    PROVE  TasksTrue(WithRelease(m, q), st, pr, rs, n)
<1>1. q \in Seq(TaskSet) /\ m \in TaskSet /\ m \notin Kinds
  BY ConnectionAssumption DEF TasksTrue, TaskSet, Kinds
<1>2. \A e \in Kinds : Times(e, <<m>> \o q) = Times(e, q)
  <2>1. TAKE e \in Kinds
  <2>2. Times(e, <<m>> \o q) = Times(e, q) + (IF m = e THEN 1 ELSE 0) /\ Times(e, q) \in Nat
    BY <1>1, TaskTimes
  <2>3. QED BY <1>1, <2>2
<1>3. GameOrder(<<m>> \o q) /\ <<m>> \o q \in Seq(TaskSet)
  BY <1>1, GameOrderKept, TaskTimes DEF TasksTrue, Kinds
<1>4. QED BY <1>2, <1>3 DEF TasksTrue, WithRelease, Kinds

\* A release or a packet is taken from the list.
LEMMA MessageTaken ==
    ASSUME NEW q, NEW st, NEW pr, NEW rs, NEW n, TasksTrue(q, st, pr, rs, n), q # <<>>,
           Head(q) \in Msgs \cup {"game"}
    PROVE  TasksTrue(Tail(q), st, pr, rs, n)
<1>1. q \in Seq(TaskSet) /\ Head(q) \notin Kinds \ {"game"}
  BY ConnectionAssumption DEF TasksTrue, TaskSet, Kinds
<1>2. \A e \in Kinds : /\ Times(e, q) = Times(e, Tail(q)) + (IF Head(q) = e THEN 1 ELSE 0)
                       /\ Times(e, Tail(q)) \in Nat
  BY <1>1, TaskTimes
<1>3. /\ \A e \in Kinds \ {"game"} : Times(e, q) = Times(e, Tail(q))
      /\ Times("game", Tail(q)) > 0 => Times("game", q) > 0
  BY <1>1, <1>2 DEF Kinds
<1>4. GameOrder(Tail(q)) /\ Tail(q) \in Seq(TaskSet)
  BY <1>1, GameOrderKept, TaskTimes DEF TasksTrue
<1>5. QED BY <1>3, <1>4 DEF TasksTrue, Kinds

\* Connection::close, in whichever state.
LEMMA CloseRequested ==
    ASSUME NEW q, NEW pr, NEW rs, NEW n, TasksTrue(q, state, pr, rs, n)
    PROVE  TasksTrue(WithClose(q), StateAfterClose, pr, rs, n)
<1>1. q \in Seq(TaskSet) /\ "close" \in TaskSet
  BY DEF TasksTrue, TaskSet, Kinds
<1>2. CASE ~CanRequest
  BY <1>2 DEF WithClose, StateAfterClose
<1>3. CASE CanRequest
  <2>1. \A e \in Kinds :
          Times(e, Append(q, "close")) = Times(e, q) + (IF "close" = e THEN 1 ELSE 0)
          /\ Times(e, q) \in Nat
    BY <1>1, TaskTimes
  <2>2. /\ \A e \in Kinds \ {"close"} : Times(e, Append(q, "close")) = Times(e, q)
        /\ Times("close", Append(q, "close")) = Times("close", q) + 1
    BY <2>1 DEF Kinds
  <2>3. GameOrder(Append(q, "close")) /\ Append(q, "close") \in Seq(TaskSet)
    BY <1>1, GameOrderKept, TaskTimes DEF TasksTrue
  <2>4. /\ WithClose(q) = Append(q, "close") /\ StateAfterClose = "request"
        /\ state # "request" /\ state # "closed"
    BY <1>3 DEF WithClose, StateAfterClose, CanRequest
  <2>5. QED BY <2>2, <2>3, <2>4 DEF TasksTrue, Kinds
<1>4. QED BY <1>2, <1>3

\* A packet of an open connection.
LEMMA GamePosted ==
    ASSUME NEW q, NEW pr, NEW rs, NEW n, TasksTrue(q, "open", pr, rs, n),
           pr \in {"none", "attached"}
    PROVE  /\ TasksTrue(Append(q, "game"), "open", "attached", rs, n)
           /\ TasksTrue(q, "open", "attached", rs, n)
<1>1. q \in Seq(TaskSet) /\ "game" \in TaskSet
  BY DEF TasksTrue, TaskSet, Kinds
<1>2. \A e \in Kinds :
        Times(e, Append(q, "game")) = Times(e, q) + (IF "game" = e THEN 1 ELSE 0)
        /\ Times(e, q) \in Nat
  BY <1>1, TaskTimes
<1>3. \A e \in Kinds \ {"game"} : Times(e, Append(q, "game")) = Times(e, q)
  BY <1>2 DEF Kinds
<1>4. "close" \notin Elems(q)
  BY <1>1, TaskTimes DEF TasksTrue
<1>5. GameOrder(Append(q, "game")) /\ Append(q, "game") \in Seq(TaskSet)
  BY <1>1, <1>4, GameOrderKept, TaskTimes DEF TasksTrue
<1>6. QED BY <1>3, <1>5 DEF TasksTrue, Kinds

LEMMA ClosingStarted == Init => ClosingInv
<1> SUFFICES ASSUME Init PROVE ClosingInv
  OBVIOUS
<1>1. \A e : Times(e, tasks) = 0 /\ Times(e, Ops(ioQueue)) = 0
  <2>1. tasks = <<>> /\ Ops(ioQueue) = <<>>
    BY DEF Init, Ops
  <2>2. QED BY <2>1, TimesEmpty
<1>2. tasks = <<>> /\ <<>> \in Seq(TaskSet) /\ GameOrder(<<>>)
  BY DEF Init, GameOrder
<1>3. /\ state = "open" /\ socket = "open" /\ retries = {} /\ received = "nothing"
      /\ proto \in {"none", "attached"}
  BY DEF Init
<1>4. TasksTrue(tasks, state, proto, retries, Stops)
  BY <1>1, <1>2, <1>3 DEF TasksTrue, Stops
<1>5. ProtocolFollows
  BY <1>3 DEF ProtocolFollows
<1>6. QED BY <1>4, <1>5, Started, ClosingMeans

LEMMA ClosingInductive == IoInv /\ ClosingInv /\ Next => ClosingInv'
<1> SUFFICES ASSUME IoInv, ClosingInv, Next PROVE ClosingInv'
  OBVIOUS
<1>1. TasksTrue(tasks, state, proto, retries, Stops) /\ ProtocolFollows
  BY ClosingMeans
<1> SUFFICES TasksTrue(tasks', state', proto', retries', Stops') /\ ProtocolFollows'
  <2>1. IoInv'
    BY IoInductive
  <2>2. (IoInv => (ClosingInv <=> /\ TasksTrue(tasks, state, proto, retries, Stops)
                                  /\ ProtocolFollows))'
    BY ClosingMeans, PTL
  <2>3. QED BY <2>1, <2>2
<1>2. /\ TypeOK /\ ioQueue \in Seq(Handlers) /\ tasks \in Seq(TaskSet)
  BY DEF IoInv, TypeOK, TaskSet, Kinds
<1>3. ASSUME ioQueue # <<>>, Head(ioQueue).op # "stop", ioQueue' = Tail(ioQueue),
             socket' = "deleted" <=> socket = "deleted"
      PROVE  Stops' = Stops
  <2>1. Times("stop", Ops(ioQueue)) = Times("stop", Ops(Tail(ioQueue)))
    <3>1. Tail(ioQueue) \in Seq(Handlers)
      BY <1>2, <1>3, HandlerTimes
    <3>2. Times("stop", Ops(Tail(ioQueue))) \in Nat
      BY <3>1, HandlerTimes
    <3>3. QED BY <1>2, <1>3, <3>2, HandlerTimes
  <2>2. QED BY <1>3, <2>1 DEF Stops
<1>4. ASSUME NEW o, NEW r, [op |-> o, result |-> r] \in Handlers, Post(o, r),
             socket' = "deleted" <=> socket = "deleted"
      PROVE  Stops' = Stops + (IF o = "stop" THEN 1 ELSE 0)
  <2>1. Times("stop", Ops(ioQueue')) = Times("stop", Ops(ioQueue)) + (IF o = "stop" THEN 1 ELSE 0)
        /\ Times("stop", Ops(ioQueue)) \in Nat
    BY <1>2, <1>4, PostTimes, HandlerTimes DEF Post
  <2>2. QED BY <1>4, <2>1 DEF Stops
<1>5. ioQueue' = ioQueue /\ (socket' = "deleted" <=> socket = "deleted") => Stops' = Stops
  BY DEF Stops
<1>6. CloseSocket => (socket' = "deleted" <=> socket = "deleted")
  BY DEF CloseSocket
<1>7. [op |-> "stop", result |-> "ok"] \in Handlers
  BY DEF Handlers
<1>8. \A q : Close(q) /\ TasksTrue(q, state, proto, retries, Stops) =>
               TasksTrue(tasks', state', proto, retries, Stops)
  BY CloseRequested DEF Close
<1>9. ASSUME NEW q, Close(q), proto' = proto \/ (state = "open" /\ proto' = "attached"),
             state = "open" => received' \in {received, "first"}
      PROVE  ProtocolFollows'
  <2>1. /\ state' = "request" \/ (state' = state /\ state \in {"request", "closed"})
    BY <1>2, <1>9 DEF Close, StateAfterClose, CanRequest, TypeOK
  <2>2. state' # "open" /\ (proto' = "attached" => state' \in {"open", "request"})
    BY <1>1, <1>9, <2>1 DEF ProtocolFollows
  <2>3. QED BY <2>2 DEF ProtocolFollows
<1>10. CASE ParseFails \/ RejectHeader \/ UnknownProtocol
  <2>1. /\ ioQueue # <<>> /\ Head(ioQueue).op # "stop" /\ ioQueue' = Tail(ioQueue)
        /\ Close(tasks) /\ proto' = proto /\ retries' = retries /\ socket' = socket
        /\ received' \in {received, "first"}
    BY <1>10 DEF ParseFails, RejectHeader, UnknownProtocol, Parses, IsNext, protocol
  <2>2. QED BY <1>1, <1>3, <1>8, <1>9, <2>1
<1>11. CASE ParseHeader
  <2>1. /\ ioQueue # <<>> /\ Head(ioQueue).op # "stop" /\ ioQueue' = Tail(ioQueue)
        /\ UNCHANGED <<tasks, state, proto, retries, socket, received>>
    BY <1>11 DEF ParseHeader, Parses, IsNext, protocol
  <2>2. QED BY <1>1, <1>3, <2>1 DEF ProtocolFollows
<1>12. CASE ParsePacket
  <2>1. /\ ioQueue # <<>> /\ Head(ioQueue).op # "stop" /\ ioQueue' = Tail(ioQueue)
        /\ state = "open" /\ state' = state /\ retries' = retries /\ socket' = socket
        /\ received' = "first" /\ tasks' \in {tasks, Append(tasks, "game")}
        /\ proto' = IF received = "nothing" THEN "attached" ELSE proto
    BY <1>12 DEF ParsePacket, Parses, IsNext, ReadsOn
  <2>2. proto \in {"none", "attached"} /\ proto' = "attached"
    BY <1>1, <1>2, <2>1 DEF ProtocolFollows, TypeOK
  <2>3. TasksTrue(tasks', state', proto', retries', Stops')
    BY <1>1, <1>3, <2>1, <2>2, GamePosted
  <2>4. QED BY <2>1, <2>2, <2>3 DEF ProtocolFollows
<1>13. ASSUME NEW m \in Msgs, Rejected(m)
       PROVE  TasksTrue(tasks', state', proto', retries', Stops') /\ ProtocolFollows'
  <2>1. /\ ioQueue # <<>> /\ Head(ioQueue).op # "stop" /\ ioQueue' = Tail(ioQueue)
        /\ state = "open" /\ Close(tasks) /\ retries' = retries /\ socket' = socket
        /\ received' = "first" /\ proto' = "attached"
    BY <1>13 DEF Rejected, Parses, IsNext, ReadsOn
  <2>2. proto \in {"none", "attached"}
    BY <1>1, <1>2, <2>1 DEF ProtocolFollows, TypeOK
  <2>3. TasksTrue(tasks, state, "attached", retries, Stops)
    BY <1>1, <2>1, <2>2, GamePosted
  <2>4. TasksTrue(tasks', state', "attached", retries, Stops)
    BY <2>1, <2>3, CloseRequested DEF Close
  <2>5. QED BY <1>3, <1>9, <2>1, <2>4
<1>14. CASE OnWrite
  <2>1. /\ ioQueue # <<>> /\ Head(ioQueue).op # "stop" /\ ioQueue' = Tail(ioQueue)
        /\ UNCHANGED <<proto, retries, received>>
        /\ \/ CloseSocket /\ Close(WithRelease(writing, tasks))
           \/ tasks' = WithRelease(writing, tasks) /\ UNCHANGED <<state, socket>>
    BY <1>14 DEF OnWrite, IsNext, protocol
  <2>2. writing \in Msgs
    BY <1>2, <1>14, HandlerTaken DEF IoInv, TypeOK, OnWrite, IsNext
  <2>3. TasksTrue(WithRelease(writing, tasks), state, proto, retries, Stops)
    BY <1>1, <2>2, MessageInFront
  <2>4. Stops' = Stops
    BY <1>3, <1>6, <2>1
  <2>5. CASE CloseSocket /\ Close(WithRelease(writing, tasks))
    BY <1>8, <1>9, <2>1, <2>3, <2>4, <2>5
  <2>6. CASE tasks' = WithRelease(writing, tasks) /\ UNCHANGED <<state, socket>>
    BY <1>1, <2>1, <2>3, <2>4, <2>6 DEF ProtocolFollows
  <2>7. QED BY <2>1, <2>5, <2>6
<1>15. CASE OnTimeout
  <2>1. /\ ioQueue # <<>> /\ Head(ioQueue).op # "stop" /\ ioQueue' = Tail(ioQueue)
        /\ UNCHANGED <<proto, retries, received>>
        /\ \/ CloseSocket /\ Close(tasks)
           \/ UNCHANGED <<state, tasks, socket>>
    BY <1>15 DEF OnTimeout, IsNext, protocol
  <2>2. Stops' = Stops
    BY <1>3, <1>6, <2>1
  <2>3. CASE Close(tasks)
    BY <1>1, <1>8, <1>9, <2>1, <2>2, <2>3
  <2>4. CASE UNCHANGED <<state, tasks, socket>>
    BY <1>1, <2>1, <2>2, <2>4 DEF ProtocolFollows
  <2>5. QED BY <2>1, <2>3, <2>4
<1>16. CASE OnStop
  <2>1. /\ ioQueue # <<>> /\ Head(ioQueue).op = "stop" /\ ioQueue' = Tail(ioQueue)
        /\ socket' = "deleted" /\ UNCHANGED <<proto, retries, received, tasks, state>>
    BY <1>16 DEF OnStop, IsNext, protocol, dispatcher
  <2>2. Times("stop", Ops(ioQueue)) = Times("stop", Ops(Tail(ioQueue))) + 1
        /\ Times("stop", Ops(Tail(ioQueue))) \in Nat
    BY <1>2, <2>1, HandlerTimes
  <2>3. /\ Times("releaseConnection", tasks) \in Nat
        /\ Stops + Times("releaseConnection", tasks) <= 1
    BY <1>1, <1>2, TaskTimes DEF TasksTrue
  <2>4. Stops <= 1
    BY <1>1, <2>3 DEF TasksTrue
  <2>5. Stops' = Stops
    BY <2>1, <2>2, <2>4 DEF Stops
  <2>6. QED BY <1>1, <2>1, <2>5 DEF ProtocolFollows
<1>17. ASSUME NEW q, TasksTrue(q, state, proto, retries, Stops), Act(q), ActKeeps
       PROVE  TasksTrue(tasks', state', proto', retries', Stops') /\ ProtocolFollows'
  <2>1. /\ UNCHANGED <<proto, retries, received, socket, ioQueue>>
        /\ \/ tasks' = q /\ state' = state
           \/ Close(q)
    BY <1>17 DEF Act, ActKeeps, io
  <2>2. Stops' = Stops
    BY <1>5, <2>1
  <2>3. CASE Close(q)
    BY <1>8, <1>9, <1>17, <2>1, <2>2, <2>3
  <2>4. CASE tasks' = q /\ state' = state
    BY <1>1, <1>17, <2>1, <2>2, <2>4 DEF ProtocolFollows
  <2>5. QED BY <2>1, <2>3, <2>4
<1>18. CASE GameTask
  <2>1. TasksTrue(Tail(tasks), state, proto, retries, Stops)
    BY <1>1, <1>18, MessageTaken DEF GameTask, IsTask
  <2>2. QED BY <1>17, <1>18, <2>1 DEF GameTask
<1>19. CASE WorldTask
  BY <1>1, <1>17, <1>19 DEF WorldTask
<1>20. CASE CloseConnection
  <2>1. /\ Head(tasks) = "close" /\ tasks # <<>> /\ tasks' = Tail(tasks) /\ state = "request"
        /\ UNCHANGED <<received, counts>>
    BY <1>20 DEF CloseConnection, IsTask
  <2>2. /\ \A e \in Kinds : /\ Times(e, tasks) = Times(e, Tail(tasks)) + (IF "close" = e THEN 1 ELSE 0)
                            /\ Times(e, Tail(tasks)) \in Nat
        /\ Tail(tasks) \in Seq(TaskSet)
    <3>1. Tail(tasks) \in Seq(TaskSet)
      BY <1>2, <2>1, TaskTimes
    <3>2. ASSUME NEW e \in Kinds
          PROVE  /\ Times(e, tasks) = Times(e, Tail(tasks)) + (IF "close" = e THEN 1 ELSE 0)
                 /\ Times(e, Tail(tasks)) \in Nat
      <4>1. Times(e, tasks) = Times(e, Tail(tasks)) + (IF Head(tasks) = e THEN 1 ELSE 0)
        BY <1>2, <2>1, TaskTimes
      <4>2. Times(e, Tail(tasks)) \in Nat
        BY <3>1, TaskTimes
      <4>3. QED BY <2>1, <4>1, <4>2
    <3>3. QED BY <3>1, <3>2
  <2>3. /\ Times("close", tasks) = Times("close", Tail(tasks)) + 1
        /\ Times("game", tasks) = Times("game", Tail(tasks))
        /\ Times("releaseConnection", tasks) = Times("releaseConnection", Tail(tasks))
        /\ Times("releaseProtocol", tasks) = Times("releaseProtocol", Tail(tasks))
        /\ \A e \in Kinds : Times(e, Tail(tasks)) \in Nat
    BY <2>2 DEF Kinds
  <2>4. "game" \notin Elems(Tail(tasks)) /\ GameOrder(Tail(tasks))
    BY <1>1, <1>2, <2>1, GameOrderKept DEF TasksTrue
  <2>5. Times("game", Tail(tasks)) = 0 /\ Times("close", Tail(tasks)) = 0
    <3>1. Times("game", Tail(tasks)) = 0
      BY <2>2, <2>4, TaskTimes
    <3>2. Times("close", tasks) = 1 /\ Times("close", Tail(tasks)) \in Nat
      BY <1>1, <2>1, <2>3 DEF TasksTrue, Kinds
    <3>3. QED BY <2>3, <3>1, <3>2
  <2>6. /\ Stops = 0 /\ Times("releaseConnection", Tail(tasks)) = 0
        /\ "releaseConnection" \notin retries
    BY <1>1, <2>1, <2>3 DEF TasksTrue, Kinds
  <2> DEFINE rs == IF proto = "attached" /\ protoRef > 0
                   THEN retries \cup {"releaseProtocol"} ELSE retries
  <2>7. proto' = IF proto # "attached" THEN proto
                 ELSE IF protoRef > 0 THEN "releasing" ELSE "deleted"
    BY <1>20 DEF CloseConnection
  <2>8. /\ Times("releaseProtocol", Tail(tasks)) + (IF "releaseProtocol" \in rs THEN 1 ELSE 0)
           = IF proto' = "releasing" THEN 1 ELSE 0
        /\ "releaseConnection" \notin rs
    <3>1. Times("releaseProtocol", Tail(tasks)) + (IF "releaseProtocol" \in retries THEN 1 ELSE 0)
           = IF proto = "releasing" THEN 1 ELSE 0
      BY <1>1, <2>3 DEF TasksTrue
    <3>2. CASE proto # "attached"
      BY <2>6, <2>7, <3>1, <3>2
    <3>3. CASE proto = "attached"
      <4>1. Times("releaseProtocol", Tail(tasks)) = 0 /\ "releaseProtocol" \notin retries
        BY <2>3, <3>1, <3>3 DEF Kinds
      <4>2. QED BY <2>6, <2>7, <3>3, <4>1
    <3>4. QED BY <3>2, <3>3
  <2>9. \/ CloseSocket /\ state' = "closed" /\ ReleaseConnection(rs)
        \/ state' = "closing" /\ retries' = rs /\ UNCHANGED <<socket, ioQueue>>
    BY <1>20 DEF CloseConnection
  <2> HIDE DEF rs
  <2>10. CASE state' = "closing" /\ retries' = rs /\ UNCHANGED <<socket, ioQueue>>
    <3>1. Stops' = 0
      BY <1>5, <2>6, <2>10
    <3>2. TasksTrue(tasks', state', proto', retries', Stops')
      BY <2>1, <2>2, <2>4, <2>5, <2>6, <2>8, <2>10, <3>1 DEF TasksTrue, Kinds
    <3>3. QED BY <1>1, <2>1, <2>7, <2>10, <3>2 DEF ProtocolFollows
  <2>11. CASE CloseSocket /\ state' = "closed" /\ ReleaseConnection(rs)
    <3>1. \/ retries' = rs \cup {"releaseConnection"} /\ Stops' = 0
          \/ retries' = rs /\ Stops' = 1
      <4>1. CASE connRef > 0
        BY <1>5, <1>6, <2>6, <2>11, <4>1 DEF ReleaseConnection
      <4>2. CASE ~(connRef > 0)
        BY <1>4, <1>6, <1>7, <2>6, <2>11, <4>2 DEF ReleaseConnection
      <4>3. QED BY <4>1, <4>2
    <3>2. TasksTrue(tasks', state', proto', retries', Stops')
      <4>1. \/ "releaseConnection" \in retries' /\ Stops' = 0
            \/ "releaseConnection" \notin retries' /\ Stops' = 1
        BY <2>8, <3>1
      <4>2. "releaseProtocol" \in retries' <=> "releaseProtocol" \in rs
        BY <3>1
      <4>3. tasks' = Tail(tasks) /\ state' = "closed"
        BY <2>1, <2>11
      <4>4. QED BY <2>2, <2>4, <2>5, <2>6, <2>8, <4>1, <4>2, <4>3 DEF TasksTrue
    <3>3. QED BY <1>1, <2>1, <2>7, <2>11, <3>2 DEF ProtocolFollows
  <2>12. QED BY <2>9, <2>10, <2>11
<1>21. ASSUME NEW k \in {"releaseConnection", "releaseProtocol"}, tasks # <<>>, Head(tasks) = k
       PROVE  /\ Times(k, tasks) = Times(k, Tail(tasks)) + 1
              /\ \A e \in Kinds : e # k => Times(e, tasks) = Times(e, Tail(tasks))
              /\ \A e \in Kinds : Times(e, Tail(tasks)) \in Nat
              /\ Tail(tasks) \in Seq(TaskSet) /\ GameOrder(Tail(tasks)) /\ k \in Kinds
  <2>1. Tail(tasks) \in Seq(TaskSet)
    BY <1>2, <1>21, TaskTimes
  <2>2. \A e \in Kinds : /\ Times(e, tasks) = Times(e, Tail(tasks)) + (IF k = e THEN 1 ELSE 0)
                         /\ Times(e, Tail(tasks)) \in Nat
    BY <1>2, <1>21, <2>1, TaskTimes
  <2>3. GameOrder(Tail(tasks))
    BY <1>1, <1>2, <1>21, GameOrderKept DEF TasksTrue
  <2>4. k \in Kinds
    BY DEF Kinds
  <2>5. QED BY <2>1, <2>2, <2>3, <2>4
<1>22. CASE ReleaseTask
  <2>1. /\ Head(tasks) = "releaseConnection" /\ tasks # <<>> /\ tasks' = Tail(tasks)
        /\ UNCHANGED <<state, socket, proto, received>> /\ ReleaseConnection(retries)
    BY <1>22 DEF ReleaseTask, IsTask, connection, protocol
  <2>2. /\ Times("releaseConnection", tasks) = Times("releaseConnection", Tail(tasks)) + 1
        /\ \A e \in Kinds \ {"releaseConnection"} : Times(e, tasks) = Times(e, Tail(tasks))
        /\ Times("releaseConnection", Tail(tasks)) \in Nat
        /\ Tail(tasks) \in Seq(TaskSet) /\ GameOrder(Tail(tasks))
    BY <1>21, <2>1 DEF Kinds
  <2>3. /\ Stops = 0 /\ Times("releaseConnection", Tail(tasks)) = 0
        /\ "releaseConnection" \notin retries /\ state = "closed"
    BY <1>1, <2>2 DEF TasksTrue
  <2>4. \/ retries' = retries \cup {"releaseConnection"} /\ Stops' = 0
        \/ retries' = retries /\ Stops' = 1
    <3>1. CASE connRef > 0
      BY <1>5, <2>1, <2>3, <3>1 DEF ReleaseConnection
    <3>2. CASE ~(connRef > 0)
      BY <1>4, <1>7, <2>1, <2>3, <3>2 DEF ReleaseConnection
    <3>3. QED BY <3>1, <3>2
  <2>5. TasksTrue(tasks', state', proto', retries', Stops')
    BY <1>1, <2>1, <2>2, <2>3, <2>4 DEF TasksTrue, Kinds
  <2>6. QED BY <1>1, <2>1, <2>5 DEF ProtocolFollows
<1>23. CASE ReleaseProtocolTask
  <2>1. /\ Head(tasks) = "releaseProtocol" /\ tasks # <<>> /\ tasks' = Tail(tasks)
        /\ UNCHANGED <<state, socket, received, ioQueue>> /\ ReleaseProtocol
    BY <1>23 DEF ReleaseProtocolTask, IsTask, connection, io
  <2>2. /\ Times("releaseProtocol", tasks) = Times("releaseProtocol", Tail(tasks)) + 1
        /\ \A e \in Kinds \ {"releaseProtocol"} : Times(e, tasks) = Times(e, Tail(tasks))
        /\ Times("releaseProtocol", Tail(tasks)) \in Nat
        /\ Tail(tasks) \in Seq(TaskSet) /\ GameOrder(Tail(tasks))
    BY <1>21, <2>1 DEF Kinds
  <2>3. /\ Times("releaseProtocol", Tail(tasks)) = 0 /\ proto = "releasing"
        /\ "releaseProtocol" \notin retries
    BY <1>1, <2>2 DEF TasksTrue
  <2>4. \/ retries' = retries \cup {"releaseProtocol"} /\ proto' = "releasing"
        \/ retries' = retries /\ proto' = "deleted"
    BY <2>1 DEF ReleaseProtocol
  <2>5. Stops' = Stops
    BY <1>5, <2>1
  <2>6. TasksTrue(tasks', state', proto', retries', Stops')
    BY <1>1, <2>1, <2>2, <2>3, <2>4, <2>5 DEF TasksTrue, Kinds
  <2>7. QED BY <1>1, <2>1, <2>3, <2>4, <2>6 DEF ProtocolFollows
<1>24. ASSUME NEW m \in Msgs, BeginRelease(m)
       PROVE  TasksTrue(tasks', state', proto', retries', Stops') /\ ProtocolFollows'
  <2>1. /\ Head(tasks) = m /\ tasks # <<>> /\ tasks' = Tail(tasks)
        /\ UNCHANGED <<state, socket, received, ioQueue, proto, retries>>
    BY <1>24 DEF BeginRelease, IsTask, connection, io, protocol
  <2>2. TasksTrue(Tail(tasks), state, proto, retries, Stops)
    BY <1>1, <2>1, MessageTaken
  <2>3. QED BY <1>1, <1>5, <2>1, <2>2 DEF ProtocolFollows
<1>25. CASE Merge \/ VisitSend
  <2>1. UNCHANGED <<state, socket, received, ioQueue, proto, retries>>
    BY <1>25 DEF Merge, VisitSend, VisitKeeps, connection, io
  <2>2. \/ tasks' = tasks
        \/ \E m \in Msgs : tasks' = WithRelease(m, tasks)
    <3>1. addQueue # <<>> => Head(addQueue) \in Msgs
      BY DEF IoInv, TypeOK
    <3>2. visiting # <<>> => Head(visiting) \in Msgs
      BY DEF IoInv, TypeOK
    <3>3. QED BY <1>25, <3>1, <3>2 DEF Merge, VisitSend
  <2>3. TasksTrue(tasks', state, proto, retries, Stops)
    BY <1>1, <2>2, MessageInFront
  <2>4. QED BY <1>1, <1>5, <2>1, <2>3 DEF ProtocolFollows
<1>26. ASSUME NEW m \in Msgs, EndRelease(m)
       PROVE  TasksTrue(tasks', state', proto', retries', Stops') /\ ProtocolFollows'
  <2>1. UNCHANGED <<tasks, state, socket, received, ioQueue, proto, retries>>
    BY <1>26 DEF EndRelease, connection, io, protocol
  <2>2. QED BY <1>1, <1>5, <2>1 DEF ProtocolFollows
<1>27. CASE VisitKeep
  <2>1. UNCHANGED <<tasks, state, socket, received, ioQueue, proto, retries>>
    BY <1>27 DEF VisitKeep, VisitKeeps
  <2>2. QED BY <1>1, <1>5, <2>1 DEF ProtocolFollows
<1>28. CASE Network
  <2>1. UNCHANGED <<tasks, state, socket, received, proto, retries>>
    BY <1>28 DEF Network, CompleteRead, CompleteWrite, Expire, connection, protocol, dispatcher
  <2>2. \E o \in {"read", "write", "timeout"}, r \in {"ok", "fail", "aborted", "read", "write"} :
          Post(o, r) /\ [op |-> o, result |-> r] \in Handlers
    <3>1. CASE \E r \in {"ok", "fail", "aborted"} : CompleteRead(r)
      BY <3>1 DEF CompleteRead, Handlers
    <3>2. CASE \E r \in {"ok", "fail", "aborted"} : CompleteWrite(r)
      BY <3>2 DEF CompleteWrite, Handlers
    <3>3. CASE \E k \in {"read", "write"} : Expire(k)
      BY <3>3 DEF Expire, Handlers
    <3>4. QED BY <1>28, <3>1, <3>2, <3>3 DEF Network
  <2>3. Stops' = Stops
    <3>1. Stops \in Nat
      BY <1>1 DEF TasksTrue
    <3>2. QED BY <1>4, <2>1, <2>2, <3>1
  <2>4. QED BY <1>1, <2>1, <2>3 DEF ProtocolFollows
<1>29. ASSUME NEW k \in {"releaseConnection", "releaseProtocol"}, Retry(k)
       PROVE  TasksTrue(tasks', state', proto', retries', Stops') /\ ProtocolFollows'
  <2>1. /\ tasks' = Append(tasks, k) /\ k \in retries /\ retries' = retries \ {k}
        /\ UNCHANGED <<state, socket, received, ioQueue, proto>>
    BY <1>29 DEF Retry, connection, io, protocol
  <2>2. /\ \A e \in Kinds : /\ Times(e, Append(tasks, k)) = Times(e, tasks) + (IF k = e THEN 1 ELSE 0)
                            /\ Times(e, tasks) \in Nat
        /\ Append(tasks, k) \in Seq(TaskSet) /\ k \in Kinds
    <3>1. k \in Kinds /\ k \in TaskSet /\ Append(tasks, k) \in Seq(TaskSet)
      BY <1>2 DEF TaskSet, Kinds
    <3>2. ASSUME NEW e \in Kinds
          PROVE  /\ Times(e, Append(tasks, k)) = Times(e, tasks) + (IF k = e THEN 1 ELSE 0)
                 /\ Times(e, tasks) \in Nat
      BY <1>2, <3>1, TaskTimes
    <3>3. QED BY <3>1, <3>2
  <2>3. GameOrder(Append(tasks, k))
    BY <1>1, <1>2, GameOrderKept DEF TasksTrue, TaskSet, Kinds
  <2>4. Stops' = Stops
    BY <1>5, <2>1
  <2>5. TasksTrue(tasks', state', proto', retries', Stops')
    <3>1. /\ Times(k, Append(tasks, k)) = Times(k, tasks) + 1 /\ Times(k, tasks) \in Nat
          /\ \A e \in Kinds : e # k => Times(e, Append(tasks, k)) = Times(e, tasks)
      BY <2>2
    <3>2. CASE k = "releaseConnection"
      BY <1>1, <2>1, <2>2, <2>3, <2>4, <3>1, <3>2 DEF TasksTrue, Kinds
    <3>3. CASE k = "releaseProtocol"
      BY <1>1, <2>1, <2>2, <2>3, <2>4, <3>1, <3>3 DEF TasksTrue, Kinds
    <3>4. QED BY <3>2, <3>3
  <2>6. QED BY <1>1, <2>1, <2>5 DEF ProtocolFollows
<1>30. QED
  BY <1>10, <1>11, <1>12, <1>13, <1>14, <1>15, <1>16, <1>18, <1>19, <1>20, <1>22, <1>23, <1>24,
     <1>25, <1>26, <1>27, <1>28, <1>29
     DEF Next, Service, Dispatch

-----------------------------------------------------------------------------
(* Each message in one place, and one reference for each.                  *)

LEMMA MessageTimes ==
    ASSUME NEW m \in Msgs, NEW q \in Seq(TaskSet)
    PROVE  /\ Times(m, q) \in Nat
           /\ Times(m, WithClose(q)) = Times(m, q)
           /\ \A k \in Kinds : Times(m, Append(q, k)) = Times(m, q)
           /\ q # <<>> => Times(m, Tail(q)) \in Nat
           /\ q # <<>> /\ Head(q) \in Kinds => Times(m, Tail(q)) = Times(m, q)
           /\ q # <<>> => Times(m, q) = Times(m, Tail(q)) + (IF Head(q) = m THEN 1 ELSE 0)
           /\ \A n \in Msgs : Times(m, WithRelease(n, q)) = Times(m, q) + (IF n = m THEN 1 ELSE 0)
           /\ \A n \in Msgs : WithRelease(n, q) \in Seq(TaskSet)
<1>1. m \notin Kinds
  BY ConnectionAssumption DEF Kinds
<1>2. Times(m, q) \in Nat
  BY TaskTimes
<1>3. ASSUME NEW k \in Kinds
      PROVE  Times(m, Append(q, k)) = Times(m, q)
  <2>1. k \in TaskSet /\ k # m
    BY <1>1 DEF TaskSet
  <2>2. Times(m, Append(q, k)) = Times(m, q) + (IF k = m THEN 1 ELSE 0)
    BY <2>1, TaskTimes
  <2>3. QED BY <1>2, <2>1, <2>2
<1>4. Times(m, WithClose(q)) = Times(m, q)
  BY <1>3 DEF WithClose, Kinds
<1>5. ASSUME q # <<>>
      PROVE  /\ Times(m, Tail(q)) \in Nat
             /\ Times(m, q) = Times(m, Tail(q)) + (IF Head(q) = m THEN 1 ELSE 0)
  <2>1. Tail(q) \in Seq(TaskSet)
    BY <1>5
  <2>2. Times(m, Tail(q)) \in Nat
    BY <2>1, TaskTimes
  <2>3. QED BY <1>5, <2>2, TaskTimes
<1>6. q # <<>> /\ Head(q) \in Kinds => Times(m, Tail(q)) = Times(m, q)
  BY <1>1, <1>5
<1>7. ASSUME NEW n \in Msgs
      PROVE  /\ Times(m, WithRelease(n, q)) = Times(m, q) + (IF n = m THEN 1 ELSE 0)
             /\ WithRelease(n, q) \in Seq(TaskSet)
  <2>1. n \in TaskSet
    BY DEF TaskSet
  <2>2. QED BY <2>1, TaskTimes DEF WithRelease
<1>8. QED BY <1>2, <1>3, <1>4, <1>5, <1>6, <1>7

LEMMA PoolAppend ==
    ASSUME NEW q \in Seq(Msgs), NEW n \in Msgs, NEW m \in Msgs
    PROVE  Times(m, Append(q, n)) = Times(m, q) + (IF n = m THEN 1 ELSE 0)
BY TimesAppend

LEMMA PoolTimes ==
    ASSUME NEW m, NEW q \in Seq(Msgs)
    PROVE  /\ Times(m, q) \in Nat
           /\ Times(m, q) = 0 <=> m \notin Elems(q)
           /\ q # <<>> => /\ Times(m, Tail(q)) \in Nat /\ Head(q) \in Msgs
                          /\ Times(m, q) = Times(m, Tail(q)) + (IF Head(q) = m THEN 1 ELSE 0)
<1>1. Times(m, q) \in Nat /\ (Times(m, q) = 0 <=> m \notin Elems(q))
  BY TimesType
<1>3. ASSUME q # <<>>
      PROVE  /\ Times(m, Tail(q)) \in Nat /\ Head(q) \in Msgs
             /\ Times(m, q) = Times(m, Tail(q)) + (IF Head(q) = m THEN 1 ELSE 0)
  <2>1. Tail(q) \in Seq(Msgs) /\ Head(q) \in Msgs
    BY <1>3
  <2>2. Times(m, Tail(q)) \in Nat
    BY <2>1, TimesType
  <2>3. QED BY <1>3, <2>1, <2>2, TimesTail
<1>4. QED BY <1>1, <1>3

LEMMA ElemsFinite ==
    ASSUME NEW T, NEW q \in Seq(T)
    PROVE  IsFiniteSet(Elems(q))
<1>1. DOMAIN q = 1..Len(q) /\ Len(q) \in Nat
  OBVIOUS
<1>2. IsFiniteSet(DOMAIN q)
  BY <1>1, FS_Interval
<1>3. q \in [DOMAIN q -> T]
  BY <1>1
<1>4. q \in Surjection(DOMAIN q, Elems(q))
  BY <1>3 DEF Surjection, Elems
<1>5. QED BY <1>2, <1>4, FS_Surjection

\* The messages that are handed out are those that have a place.
LEMMA PlacesMean ==
    IoInv => /\ Allocated = {m \in Msgs : Places(m) > 0}
             /\ InPool = {m \in Msgs : Times(m, autoSend) + Times(m, addQueue) + Times(m, visiting) > 0}
             /\ IsFiniteSet(Allocated)
             /\ \A m \in Msgs : Places(m) \in Nat
<1> SUFFICES ASSUME IoInv
             PROVE  /\ Allocated = {m \in Msgs : Places(m) > 0}
                    /\ InPool = {m \in Msgs : Times(m, autoSend) + Times(m, addQueue)
                                              + Times(m, visiting) > 0}
                    /\ IsFiniteSet(Allocated)
                    /\ \A m \in Msgs : Places(m) \in Nat
  OBVIOUS
<1>1. /\ autoSend \in Seq(Msgs) /\ addQueue \in Seq(Msgs) /\ visiting \in Seq(Msgs)
      /\ tasks \in Seq(TaskSet) /\ writing \in Msgs \cup {NoMsg}
      /\ dpc \in {"idle", "merge", "visit"} \cup Msgs
  BY DEF IoInv, TypeOK, TaskSet, Kinds
<1>2. \A m \in Msgs :
        /\ Times(m, autoSend) \in Nat /\ (Times(m, autoSend) = 0 <=> m \notin Elems(autoSend))
        /\ Times(m, addQueue) \in Nat /\ (Times(m, addQueue) = 0 <=> m \notin Elems(addQueue))
        /\ Times(m, visiting) \in Nat /\ (Times(m, visiting) = 0 <=> m \notin Elems(visiting))
        /\ Times(m, tasks) \in Nat /\ (Times(m, tasks) = 0 <=> m \notin Elems(tasks))
  BY <1>1, PoolTimes, TaskTimes
<1>3. Elems(autoSend) \subseteq Msgs /\ Elems(addQueue) \subseteq Msgs /\ Elems(visiting) \subseteq Msgs
  BY <1>1 DEF Elems
<1>4. InPool = {m \in Msgs : Times(m, autoSend) + Times(m, addQueue) + Times(m, visiting) > 0}
  BY <1>2, <1>3 DEF InPool
<1>5. \A m \in Msgs : Places(m) \in Nat
  BY <1>2 DEF Places
<1>6. Allocated \subseteq Msgs
  BY <1>1, <1>3 DEF Allocated, InPool
<1>7. ASSUME NEW m \in Msgs
      PROVE  m \in Allocated <=> Places(m) > 0
  <2>1. m \in Allocated <=> \/ m \in Elems(autoSend) \/ m \in Elems(addQueue)
                            \/ m \in Elems(visiting) \/ m \in Elems(tasks)
                            \/ writing = m \/ dpc = m
    BY ConnectionAssumption DEF Allocated, InPool
  <2>2. ASSUME NEW a \in Nat, NEW b \in Nat, NEW c \in Nat, NEW d \in Nat, NEW w \in 0..1, NEW v \in 0..1
        PROVE  a + b + c + d + w + v > 0 <=> a # 0 \/ b # 0 \/ c # 0 \/ d # 0 \/ w = 1 \/ v = 1
    OBVIOUS
  <2>3. Places(m) > 0 <=> \/ Times(m, autoSend) # 0 \/ Times(m, addQueue) # 0
                          \/ Times(m, visiting) # 0 \/ Times(m, tasks) # 0
                          \/ (IF writing = m THEN 1 ELSE 0) = 1 \/ (IF dpc = m THEN 1 ELSE 0) = 1
    BY <1>2, <2>2 DEF Places
  <2>4. QED BY <1>2, <2>1, <2>3
<1>8. Allocated = {m \in Msgs : Places(m) > 0}
  BY <1>6, <1>7
<1>9. IsFiniteSet(Allocated)
  <2>1. IsFiniteSet(InPool)
    BY <1>1, ElemsFinite, FS_Union DEF InPool
  <2>2. IsFiniteSet(Elems(tasks) \cap Msgs) /\ IsFiniteSet({writing} \ {NoMsg})
    <3>1. IsFiniteSet(Elems(tasks)) /\ IsFiniteSet({writing})
      BY <1>1, ElemsFinite, FS_Singleton
    <3>2. QED BY <3>1, FS_Subset
  <2>3. IsFiniteSet(IF dpc \in Msgs THEN {dpc} ELSE {})
    BY FS_Singleton, FS_EmptySet
  <2> DEFINE A == InPool  B == {writing} \ {NoMsg}  C == Elems(tasks) \cap Msgs
             D == IF dpc \in Msgs THEN {dpc} ELSE {}
  <2>4. Allocated = A \cup B \cup C \cup D
    BY DEF Allocated
  <2> HIDE DEF A, B, C, D
  <2>5. IsFiniteSet(A \cup B \cup C \cup D)
    BY <2>1, <2>2, <2>3, FS_Union DEF A, B, C, D
  <2>6. QED BY <2>4, <2>5
<1>10. QED BY <1>4, <1>5, <1>8, <1>9

\* A step moves messages, hands one out, or ends the release of one.
Moves ==
    /\ \A m \in Msgs : Places(m)' = Places(m)
    /\ UNCHANGED <<connRef, protoRef, raced>>

HandsOut(m) ==
    /\ Places(m) = 0 /\ Places(m)' = 1
    /\ \A n \in Msgs \ {m} : Places(n)' = Places(n)
    /\ connRef' = connRef + 1 /\ protoRef' = protoRef + 1 /\ raced' = raced
    /\ proto' = "attached" /\ state \in {"open", "request"}

Releases(m) ==
    /\ EndRelease(m)
    /\ Places(m)' = Places(m) - 1
    /\ \A n \in Msgs \ {m} : Places(n)' = Places(n)

LEMMA PlacesMove ==
    IoInv /\ ClosingInv /\ MessagesInv /\ Next =>
        Moves \/ \E m \in Msgs : HandsOut(m) \/ Releases(m)
<1> SUFFICES ASSUME IoInv, ClosingInv, MessagesInv, Next
             PROVE  Moves \/ \E m \in Msgs : HandsOut(m) \/ Releases(m)
  OBVIOUS
<1>1. /\ autoSend \in Seq(Msgs) /\ addQueue \in Seq(Msgs) /\ visiting \in Seq(Msgs)
      /\ tasks \in Seq(TaskSet) /\ writing \in Msgs \cup {NoMsg}
      /\ dpc \in {"idle", "merge", "visit"} \cup Msgs
      /\ connRef \in Int /\ protoRef \in Int
  BY DEF IoInv, TypeOK, TaskSet, Kinds
<1>2. \A m \in Msgs :
        /\ Times(m, autoSend) \in Nat /\ Times(m, addQueue) \in Nat
        /\ Times(m, visiting) \in Nat /\ Times(m, tasks) \in Nat
        /\ m \notin {"idle", "merge", "visit"} /\ m # NoMsg
  BY <1>1, PoolTimes, TaskTimes, ConnectionAssumption
<1>3. ASSUME \A m \in Msgs : Times(m, tasks') = Times(m, tasks),
             UNCHANGED <<autoSend, addQueue, visiting, writing>>,
             dpc' = dpc \/ (dpc \notin Msgs /\ dpc' \notin Msgs)
      PROVE  \A m \in Msgs : Places(m)' = Places(m)
  <2>1. TAKE m \in Msgs
  <2>2. dpc' = m <=> dpc = m
    BY <1>3
  <2>3. QED BY <1>3, <2>2 DEF Places
<1>4. Free \subseteq Msgs /\ \A m \in Free : Places(m) = 0
  BY PlacesMean DEF Free
<1>5. CASE ParseFails \/ RejectHeader \/ ParseHeader \/ UnknownProtocol \/ ParsePacket \/ OnTimeout
           \/ OnStop
  <2>1. /\ UNCHANGED <<autoSend, addQueue, visiting, writing, dpc, connRef, protoRef, raced>>
        /\ tasks' \in {tasks, WithClose(tasks), Append(tasks, "game")}
    BY <1>5 DEF ParseFails, RejectHeader, ParseHeader, UnknownProtocol, ParsePacket, OnTimeout,
       OnStop, Parses, ReadsOn, Close, pool, counts, dispatcher
  <2>2. ASSUME NEW m \in Msgs
        PROVE  Times(m, tasks') = Times(m, tasks)
    <3>1. /\ Times(m, WithClose(tasks)) = Times(m, tasks)
          /\ Times(m, Append(tasks, "game")) = Times(m, tasks)
      BY <1>1, MessageTimes DEF Kinds
    <3>2. QED BY <2>1, <3>1
  <2>3. QED BY <1>3, <2>1, <2>2 DEF Moves
<1>6. ASSUME NEW m \in Msgs, Rejected(m)
      PROVE  HandsOut(m)
  <2>1. /\ m \in Free /\ connRef' = connRef + 1 /\ protoRef' = protoRef + 1
        /\ tasks' = WithClose(tasks) /\ proto' = "attached" /\ state = "open"
        /\ UNCHANGED <<autoSend, visiting, dpc, raced>>
        /\ \/ pendingWrite = 0 /\ writing' = m /\ UNCHANGED addQueue
           \/ addQueue' = Append(addQueue, m) /\ UNCHANGED writing
    BY <1>6 DEF Rejected, Parses, Close
  <2>2. ASSUME NEW n \in Msgs
        PROVE  Times(n, tasks') = Times(n, tasks)
    BY <1>1, <2>1, MessageTimes
  <2>3. CASE pendingWrite = 0 /\ writing' = m /\ UNCHANGED addQueue
    <3>1. writing = NoMsg
      BY <2>1, <2>3 DEF IoInv, OneWrite
    <3>2. ASSUME NEW n \in Msgs
          PROVE  Places(n)' = Places(n) + (IF n = m THEN 1 ELSE 0)
      BY <1>2, <2>1, <2>2, <2>3, <3>1 DEF Places
    <3>3. QED BY <1>4, <2>1, <3>2, PlacesMean DEF HandsOut
  <2>4. CASE addQueue' = Append(addQueue, m) /\ UNCHANGED writing
    <3>1. ASSUME NEW n \in Msgs
          PROVE  Times(n, addQueue') = Times(n, addQueue) + (IF m = n THEN 1 ELSE 0)
      <4>1. Times(n, Append(addQueue, m)) = Times(n, addQueue) + (IF m = n THEN 1 ELSE 0)
        BY <1>1, PoolAppend
      <4>2. QED BY <2>4, <4>1
    <3>2. ASSUME NEW n \in Msgs
          PROVE  Places(n)' = Places(n) + (IF n = m THEN 1 ELSE 0)
      <4>1. /\ Times(n, autoSend') = Times(n, autoSend)
            /\ Times(n, addQueue') = Times(n, addQueue) + (IF m = n THEN 1 ELSE 0)
            /\ Times(n, visiting') = Times(n, visiting)
            /\ Times(n, tasks') = Times(n, tasks)
            /\ writing' = writing
            /\ dpc' = dpc
        BY <2>1, <2>2, <2>4, <3>1
      <4>2. QED BY <1>2, <4>1 DEF Places
    <3>3. QED BY <1>4, <2>1, <3>2, PlacesMean DEF HandsOut
  <2>5. QED BY <2>1, <2>3, <2>4
<1>7. CASE OnWrite
  <2>1. writing \in Msgs
    BY <1>1, <1>7, HandlerTaken DEF IoInv, OnWrite, IsNext
  <2>2. /\ UNCHANGED <<autoSend, addQueue, visiting, dpc, connRef, protoRef, raced>>
        /\ tasks' \in {WithRelease(writing, tasks), WithClose(WithRelease(writing, tasks))}
        /\ writing' = NoMsg
    BY <1>7 DEF OnWrite, Close, pool, counts
  <2>3. ASSUME NEW m \in Msgs
        PROVE  Times(m, tasks') = Times(m, tasks) + (IF writing = m THEN 1 ELSE 0)
    <3>1. WithRelease(writing, tasks) \in Seq(TaskSet)
      BY <1>1, <2>1, MessageTimes
    <3>2. Times(m, WithClose(WithRelease(writing, tasks))) = Times(m, WithRelease(writing, tasks))
      BY <3>1, MessageTimes
    <3>3. Times(m, WithRelease(writing, tasks)) = Times(m, tasks) + (IF writing = m THEN 1 ELSE 0)
      BY <1>1, <2>1, MessageTimes
    <3>4. QED BY <2>2, <3>2, <3>3
  <2>4. ASSUME NEW m \in Msgs
        PROVE  Places(m)' = Places(m)
    BY <1>2, <2>2, <2>3 DEF Places
  <2>5. QED BY <2>2, <2>4 DEF Moves
<1>8. ASSUME NEW q \in Seq(TaskSet), \A m \in Msgs : Times(m, q) = Times(m, tasks),
             Act(q), ActKeeps, dpc = "idle", dpc' = "merge"
      PROVE  Moves \/ \E m \in Msgs : HandsOut(m)
  <2>1. /\ UNCHANGED <<addQueue, visiting, writing, raced, proto>>
        /\ dpc \notin Msgs /\ dpc' \notin Msgs
    BY <1>2, <1>8 DEF ActKeeps, io
  <2>2. CASE tasks' = q /\ UNCHANGED <<state, counts, buffer, autoSend>>
    BY <1>3, <1>8, <2>1, <2>2 DEF Moves, counts
  <2>3. ASSUME NEW m \in Free, proto = "attached", autoSend' = Append(autoSend, m),
               connRef' = connRef + 1, protoRef' = protoRef + 1, tasks' = q
        PROVE  HandsOut(m) /\ m \in Msgs
    <3>1. m \in Msgs /\ Places(m) = 0
      BY <1>4
    <3>2. ASSUME NEW n \in Msgs
          PROVE  Times(n, autoSend') = Times(n, autoSend) + (IF m = n THEN 1 ELSE 0)
      <4>1. Times(n, Append(autoSend, m)) = Times(n, autoSend) + (IF m = n THEN 1 ELSE 0)
        BY <1>1, <3>1, PoolAppend
      <4>2. QED BY <2>3, <4>1
    <3>3. ASSUME NEW n \in Msgs
          PROVE  Places(n)' = Places(n) + (IF n = m THEN 1 ELSE 0)
      BY <1>2, <1>8, <2>1, <2>3, <3>2 DEF Places
    <3>4. state \in {"open", "request"}
      BY <2>3 DEF ClosingInv, ProtocolFollows
    <3>5. QED BY <2>1, <2>3, <3>1, <3>3, <3>4, PlacesMean DEF HandsOut
  <2>4. CASE Close(q) /\ UNCHANGED <<counts, buffer, autoSend>>
    <3>1. ASSUME NEW m \in Msgs
          PROVE  Times(m, tasks') = Times(m, tasks)
      BY <1>8, <2>4, MessageTimes DEF Close
    <3>2. QED BY <1>3, <2>1, <2>4, <3>1 DEF Moves, counts
  <2>5. QED BY <1>8, <2>2, <2>3, <2>4 DEF Act
<1>9. CASE GameTask
  <2>1. /\ tasks # <<>> /\ Head(tasks) \in Kinds /\ Tail(tasks) \in Seq(TaskSet)
    BY <1>1, <1>9 DEF GameTask, IsTask, Kinds
  <2>2. ASSUME NEW m \in Msgs
        PROVE  Times(m, Tail(tasks)) = Times(m, tasks)
    BY <1>1, <2>1, MessageTimes
  <2>3. QED BY <1>8, <1>9, <2>1, <2>2 DEF GameTask, IsTask
<1>10. CASE WorldTask
  BY <1>1, <1>8, <1>10 DEF WorldTask
<1>11. CASE CloseConnection \/ ReleaseTask \/ ReleaseProtocolTask
  <2>1. /\ tasks # <<>> /\ Head(tasks) \in Kinds /\ tasks' = Tail(tasks)
        /\ dpc = "idle" /\ dpc' = "merge"
        /\ UNCHANGED <<autoSend, addQueue, visiting, writing, connRef, protoRef, raced>>
    BY <1>11 DEF CloseConnection, ReleaseTask, ReleaseProtocolTask, IsTask, Kinds, pool, counts, io
  <2>2. ASSUME NEW m \in Msgs
        PROVE  Times(m, tasks') = Times(m, tasks)
    BY <1>1, <2>1, MessageTimes
  <2>3. QED BY <1>2, <1>3, <2>1, <2>2 DEF Moves
<1>12. ASSUME NEW m \in Msgs, BeginRelease(m)
       PROVE  Moves
  <2>1. /\ tasks # <<>> /\ Head(tasks) = m /\ tasks' = Tail(tasks) /\ dpc = "idle" /\ dpc' = m
        /\ UNCHANGED <<autoSend, addQueue, visiting, writing, connRef, protoRef, raced>>
    BY <1>12 DEF BeginRelease, IsTask, pool, counts, io
  <2>2. \A n \in Msgs : /\ Times(n, tasks) = Times(n, tasks') + (IF m = n THEN 1 ELSE 0)
                        /\ Times(n, tasks') \in Nat
    BY <1>1, <2>1, MessageTimes
  <2>3. ASSUME NEW n \in Msgs
        PROVE  Places(n)' = Places(n)
    <3>1. /\ Times(n, autoSend') = Times(n, autoSend)
          /\ Times(n, addQueue') = Times(n, addQueue)
          /\ Times(n, visiting') = Times(n, visiting)
          /\ Times(n, tasks) = Times(n, tasks') + (IF m = n THEN 1 ELSE 0) /\ Times(n, tasks') \in Nat
          /\ writing' = writing
          /\ dpc # n /\ (dpc' = n <=> m = n)
      BY <1>2, <2>1, <2>2
    <3>2. QED BY <1>2, <3>1 DEF Places
  <2>4. QED BY <2>1, <2>3 DEF Moves
<1>13. ASSUME NEW m \in Msgs, EndRelease(m)
       PROVE  Releases(m)
  <2>1. dpc = m /\ dpc' = "merge" /\ UNCHANGED <<autoSend, addQueue, visiting, writing, tasks>>
    BY <1>13 DEF EndRelease, pool, io
  <2>2. ASSUME NEW n \in Msgs
        PROVE  Places(n)' = Places(n) - (IF m = n THEN 1 ELSE 0)
    BY <1>2, <2>1 DEF Places
  <2>3. QED BY <1>13, <2>2, PlacesMean DEF Releases
<1>14. CASE Merge
  <2>1. UNCHANGED <<writing, connRef, protoRef, raced>> /\ dpc = "merge"
    BY <1>14 DEF Merge, io, counts
  <2>2. CASE /\ addQueue # <<>> /\ addQueue' = Tail(addQueue)
             /\ tasks' = WithRelease(Head(addQueue), tasks)
             /\ UNCHANGED <<autoSend, visiting, dpc>>
    <3>1. \A m \in Msgs : /\ Times(m, addQueue) = Times(m, addQueue') + (IF Head(addQueue) = m THEN 1 ELSE 0)
                          /\ Times(m, addQueue') \in Nat
      BY <1>1, <2>2, PoolTimes
    <3>2. ASSUME NEW m \in Msgs
          PROVE  Times(m, tasks') = Times(m, tasks) + (IF Head(addQueue) = m THEN 1 ELSE 0)
      <4>1. Head(addQueue) \in Msgs
        BY <1>1, <2>2, PoolTimes
      <4>2. Times(m, WithRelease(Head(addQueue), tasks)) =
              Times(m, tasks) + (IF Head(addQueue) = m THEN 1 ELSE 0)
        BY <1>1, <4>1, MessageTimes
      <4>3. QED BY <2>2, <4>2
    <3>3. ASSUME NEW m \in Msgs
          PROVE  Places(m)' = Places(m)
      <4>1. /\ Times(m, autoSend') = Times(m, autoSend)
            /\ Times(m, addQueue) = Times(m, addQueue') + (IF Head(addQueue) = m THEN 1 ELSE 0) /\ Times(m, addQueue') \in Nat
            /\ Times(m, visiting') = Times(m, visiting)
            /\ Times(m, tasks') = Times(m, tasks) + (IF Head(addQueue) = m THEN 1 ELSE 0)
            /\ writing' = writing
            /\ dpc' = dpc
        BY <2>1, <2>2, <3>1, <3>2
      <4>2. QED BY <1>2, <4>1 DEF Places
    <3>4. QED BY <2>1, <3>3 DEF Moves
  <2>3. CASE /\ dpc' = "visit" /\ visiting' = autoSend \o addQueue
             /\ autoSend' = <<>> /\ addQueue' = <<>> /\ UNCHANGED <<tasks, buffer>>
    <3>1. visiting = <<>>
      BY <2>1 DEF MessagesInv
    <3>2. \A m \in Msgs : /\ Times(m, visiting') = Times(m, autoSend) + Times(m, addQueue)
                          /\ Times(m, visiting) = 0 /\ Times(m, autoSend') = 0 /\ Times(m, addQueue') = 0
      BY <1>1, <2>3, <3>1, TimesConcat, TimesEmpty
    <3>3. ASSUME NEW m \in Msgs
          PROVE  Places(m)' = Places(m)
      BY <1>2, <2>1, <2>3, <3>2 DEF Places
    <3>4. QED BY <2>1, <3>3 DEF Moves
  <2>4. QED BY <1>14, <2>2, <2>3 DEF Merge
<1>15. CASE VisitSend
  <2> DEFINE h == Head(visiting)
  <2>1. /\ visiting # <<>> /\ visiting' = Tail(visiting)
        /\ UNCHANGED <<autoSend, dpc, connRef, protoRef, raced, state>>
        /\ \/ (SendNow(h) \/ SendLater(h)) /\ UNCHANGED tasks
           \/ SendRefused(h) /\ tasks' = WithRelease(h, tasks)
    BY <1>15 DEF VisitSend, VisitKeeps, counts
  <2>2. /\ h \in Msgs
        /\ \A m \in Msgs : /\ Times(m, visiting) = Times(m, visiting') + (IF h = m THEN 1 ELSE 0)
                           /\ Times(m, visiting') \in Nat
    BY <1>1, <2>1, PoolTimes
  <2> HIDE DEF h
  <2>3. CASE SendNow(h) /\ UNCHANGED tasks
    <3>1. writing = NoMsg /\ writing' = h /\ UNCHANGED addQueue
      BY <2>3 DEF SendNow, Writable, IoInv, OneWrite
    <3>2. ASSUME NEW m \in Msgs
          PROVE  Places(m)' = Places(m)
      <4>1. /\ Times(m, autoSend') = Times(m, autoSend)
            /\ Times(m, addQueue') = Times(m, addQueue)
            /\ Times(m, visiting) = Times(m, visiting') + (IF h = m THEN 1 ELSE 0) /\ Times(m, visiting') \in Nat
            /\ Times(m, tasks') = Times(m, tasks)
            /\ writing # m /\ writing' = h
            /\ dpc' = dpc
        BY <1>2, <2>1, <2>2, <2>3, <3>1
      <4>2. QED BY <1>2, <4>1 DEF Places
    <3>3. QED BY <2>1, <3>2 DEF Moves
  <2>4. CASE SendLater(h) /\ UNCHANGED tasks
    <3>0. UNCHANGED writing /\ addQueue' = Append(addQueue, h)
      BY <2>4 DEF SendLater
    <3>1. ASSUME NEW m \in Msgs
          PROVE  Times(m, addQueue') = Times(m, addQueue) + (IF h = m THEN 1 ELSE 0)
      <4>1. Times(m, Append(addQueue, h)) = Times(m, addQueue) + (IF h = m THEN 1 ELSE 0)
        BY <1>1, <2>2, PoolAppend
      <4>2. QED BY <3>0, <4>1
    <3>2. ASSUME NEW m \in Msgs
          PROVE  Places(m)' = Places(m)
      <4>1. /\ Times(m, autoSend') = Times(m, autoSend)
            /\ Times(m, addQueue') = Times(m, addQueue) + (IF h = m THEN 1 ELSE 0)
            /\ Times(m, visiting) = Times(m, visiting') + (IF h = m THEN 1 ELSE 0) /\ Times(m, visiting') \in Nat
            /\ Times(m, tasks') = Times(m, tasks)
            /\ writing' = writing
            /\ dpc' = dpc
        BY <2>1, <2>2, <2>4, <3>0, <3>1
      <4>2. QED BY <1>2, <4>1 DEF Places
    <3>3. QED BY <2>1, <3>2 DEF Moves
  <2>5. CASE SendRefused(h) /\ tasks' = WithRelease(h, tasks)
    <3>0. UNCHANGED <<writing, addQueue>>
      BY <2>5 DEF SendRefused
    <3>1. ASSUME NEW m \in Msgs
          PROVE  Times(m, tasks') = Times(m, tasks) + (IF h = m THEN 1 ELSE 0)
      BY <1>1, <2>2, <2>5, MessageTimes
    <3>2. ASSUME NEW m \in Msgs
          PROVE  Places(m)' = Places(m)
      <4>1. /\ Times(m, autoSend') = Times(m, autoSend)
            /\ Times(m, addQueue') = Times(m, addQueue)
            /\ Times(m, visiting) = Times(m, visiting') + (IF h = m THEN 1 ELSE 0) /\ Times(m, visiting') \in Nat
            /\ Times(m, tasks') = Times(m, tasks) + (IF h = m THEN 1 ELSE 0)
            /\ writing' = writing
            /\ dpc' = dpc
        BY <2>1, <2>2, <2>5, <3>0, <3>1
      <4>2. QED BY <1>2, <4>1 DEF Places
    <3>3. QED BY <2>1, <3>2 DEF Moves
  <2>6. QED BY <2>1, <2>3, <2>4, <2>5
<1>16. CASE VisitKeep
  <2>1. /\ UNCHANGED <<addQueue, writing, tasks, connRef, protoRef, raced>> /\ dpc = "visit"
    BY <1>16 DEF VisitKeep, VisitKeeps, counts
  <2>2. CASE /\ visiting # <<>> /\ visiting' = Tail(visiting)
             /\ autoSend' = Append(autoSend, Head(visiting)) /\ UNCHANGED dpc
    <3>1. \A m \in Msgs : /\ Times(m, visiting) = Times(m, visiting') + (IF Head(visiting) = m THEN 1 ELSE 0)
                          /\ Times(m, visiting') \in Nat
      BY <1>1, <2>2, PoolTimes
    <3>2. ASSUME NEW m \in Msgs
          PROVE  Times(m, autoSend') = Times(m, autoSend) + (IF Head(visiting) = m THEN 1 ELSE 0)
      <4>1. Head(visiting) \in Msgs
        BY <1>1, <2>2, PoolTimes
      <4>2. Times(m, Append(autoSend, Head(visiting))) =
              Times(m, autoSend) + (IF Head(visiting) = m THEN 1 ELSE 0)
        BY <1>1, <4>1, PoolAppend
      <4>3. QED BY <2>2, <4>2
    <3>3. ASSUME NEW m \in Msgs
          PROVE  Places(m)' = Places(m)
      <4>1. /\ Times(m, autoSend') = Times(m, autoSend) + (IF Head(visiting) = m THEN 1 ELSE 0)
            /\ Times(m, addQueue') = Times(m, addQueue)
            /\ Times(m, visiting) = Times(m, visiting') + (IF Head(visiting) = m THEN 1 ELSE 0) /\ Times(m, visiting') \in Nat
            /\ Times(m, tasks') = Times(m, tasks)
            /\ writing' = writing
            /\ dpc' = dpc
        BY <2>1, <2>2, <3>1, <3>2
      <4>2. QED BY <1>2, <4>1 DEF Places
    <3>4. QED BY <2>1, <3>3 DEF Moves
  <2>3. CASE visiting = <<>> /\ dpc' = "idle" /\ UNCHANGED <<visiting, autoSend>>
    BY <1>2, <1>3, <2>1, <2>3 DEF Moves
  <2>4. QED BY <1>16, <2>2, <2>3 DEF VisitKeep
<1>17. CASE Network
  <2>1. UNCHANGED <<autoSend, addQueue, visiting, writing, dpc, tasks, connRef, protoRef, raced>>
    BY <1>17 DEF Network, CompleteRead, CompleteWrite, Expire, pool, counts, dispatcher
  <2>2. QED BY <1>3, <2>1 DEF Moves
<1>18. ASSUME NEW k \in {"releaseConnection", "releaseProtocol"}, Retry(k)
       PROVE  Moves
  <2>1. /\ UNCHANGED <<autoSend, addQueue, visiting, writing, dpc, connRef, protoRef, raced>>
        /\ tasks' = Append(tasks, k) /\ k \in Kinds
    BY <1>18 DEF Retry, pool, counts, io, Kinds
  <2>2. ASSUME NEW m \in Msgs
        PROVE  Times(m, tasks') = Times(m, tasks)
    BY <1>1, <2>1, MessageTimes
  <2>3. QED BY <1>3, <2>1, <2>2 DEF Moves
<1>19. QED
  BY <1>5, <1>6, <1>7, <1>9, <1>10, <1>11, <1>12, <1>13, <1>14, <1>15, <1>16, <1>17, <1>18
     DEF Next, Service, Dispatch

LEMMA ElemsChange ==
    ASSUME NEW q \in Seq(Msgs)
    PROVE  /\ \A m \in Msgs : Elems(Append(q, m)) = Elems(q) \cup {m}
           /\ \A r \in Seq(Msgs) : Elems(q \o r) = Elems(q) \cup Elems(r)
           /\ q # <<>> => Head(q) \in Msgs /\ Elems(q) = Elems(Tail(q)) \cup {Head(q)}
<1>1. DOMAIN q = 1..Len(q) /\ Len(q) \in Nat
  OBVIOUS
<1>2. ASSUME NEW m \in Msgs
      PROVE  Elems(Append(q, m)) = Elems(q) \cup {m}
  <2>1. /\ DOMAIN Append(q, m) = 1..(Len(q) + 1)
        /\ Append(q, m)[Len(q) + 1] = m /\ Len(q) + 1 \in 1..(Len(q) + 1)
        /\ \A i \in 1..Len(q) : Append(q, m)[i] = q[i] /\ i \in 1..(Len(q) + 1)
        /\ \A i \in 1..(Len(q) + 1) : i \in 1..Len(q) \/ i = Len(q) + 1
    BY <1>1
  <2>2. QED BY <1>1, <2>1 DEF Elems
<1>3. ASSUME NEW r \in Seq(Msgs)
      PROVE  Elems(q \o r) = Elems(q) \cup Elems(r)
  <2> DEFINE s == q \o r
  <2>1. /\ DOMAIN s = 1..(Len(q) + Len(r)) /\ DOMAIN r = 1..Len(r) /\ Len(r) \in Nat
        /\ \A i \in 1..Len(q) : s[i] = q[i] /\ i \in 1..(Len(q) + Len(r))
        /\ \A i \in 1..Len(r) : s[i + Len(q)] = r[i] /\ i + Len(q) \in 1..(Len(q) + Len(r))
    BY <1>1
  <2> HIDE DEF s
  <2>2. ASSUME NEW i \in DOMAIN s
        PROVE  s[i] \in Elems(q) \cup Elems(r)
    <3>1. CASE i \in 1..Len(q)
      BY <1>1, <2>1, <3>1 DEF Elems
    <3>2. CASE i \notin 1..Len(q)
      <4>1. i - Len(q) \in 1..Len(r) /\ i = (i - Len(q)) + Len(q)
        BY <1>1, <2>1, <3>2
      <4>2. s[i] = r[i - Len(q)]
        BY <2>1, <4>1
      <4>3. QED BY <2>1, <4>1, <4>2 DEF Elems
    <3>3. QED BY <3>1, <3>2
  <2>3. Elems(s) \subseteq Elems(q) \cup Elems(r)
    BY <2>2 DEF Elems
  <2>4. Elems(q) \subseteq Elems(s) /\ Elems(r) \subseteq Elems(s)
    BY <1>1, <2>1 DEF Elems
  <2>5. QED BY <2>3, <2>4 DEF s
<1>4. ASSUME q # <<>>
      PROVE  Head(q) \in Msgs /\ Elems(q) = Elems(Tail(q)) \cup {Head(q)}
  <2>1. /\ Head(q) \in Msgs /\ Head(q) = q[1] /\ 1 \in DOMAIN q
        /\ DOMAIN Tail(q) = 1..(Len(q) - 1)
        /\ \A i \in 1..(Len(q) - 1) : Tail(q)[i] = q[i + 1] /\ i + 1 \in DOMAIN q
        /\ \A i \in DOMAIN q : i = 1 \/ (i - 1 \in 1..(Len(q) - 1) /\ (i - 1) + 1 = i)
    BY <1>1, <1>4
  <2>2. \A i \in DOMAIN q : q[i] \in Elems(Tail(q)) \cup {Head(q)}
    BY <2>1 DEF Elems
  <2>3. \A i \in DOMAIN Tail(q) : Tail(q)[i] \in Elems(q)
    BY <2>1 DEF Elems
  <2>4. QED BY <2>1, <2>2, <2>3 DEF Elems
<1>5. QED BY <1>2, <1>3, <1>4

\* The buffer that output is appended to stays among the messages of the pool, and
\* sendAll ends with nothing left to visit.
LEMMA BufferMove ==
    IoInv /\ MessagesInv /\ Next =>
        /\ buffer' # NoMsg => buffer' \in InPool'
        /\ dpc' # "visit" => visiting' = <<>>
<1> SUFFICES ASSUME IoInv, MessagesInv, Next
             PROVE  /\ buffer' # NoMsg => buffer' \in InPool'
                    /\ dpc' # "visit" => visiting' = <<>>
  OBVIOUS
<1>1. /\ autoSend \in Seq(Msgs) /\ addQueue \in Seq(Msgs) /\ visiting \in Seq(Msgs)
      /\ dpc \in {"idle", "merge", "visit"} \cup Msgs
      /\ buffer # NoMsg => buffer \in InPool
      /\ dpc # "visit" => visiting = <<>>
  BY DEF IoInv, TypeOK, MessagesInv, MessageOnce
<1>2. UNCHANGED <<buffer, autoSend, addQueue, visiting, dpc>> =>
        /\ buffer' # NoMsg => buffer' \in InPool'
        /\ dpc' # "visit" => visiting' = <<>>
  BY <1>1 DEF InPool
<1>3. CASE ParseFails \/ RejectHeader \/ ParseHeader \/ UnknownProtocol \/ ParsePacket \/ OnWrite
           \/ OnTimeout \/ OnStop \/ Network
  <2>1. UNCHANGED <<buffer, autoSend, addQueue, visiting, dpc>>
    BY <1>3 DEF ParseFails, RejectHeader, ParseHeader, UnknownProtocol, ParsePacket, OnWrite, OnTimeout,
       OnStop, Network, CompleteRead, CompleteWrite, Expire, Parses, protocol, pool, dispatcher
  <2>2. QED BY <1>2, <2>1
<1>4. ASSUME NEW m \in Msgs, Rejected(m)
      PROVE  /\ buffer' # NoMsg => buffer' \in InPool'
             /\ dpc' # "visit" => visiting' = <<>>
  <2>1. /\ UNCHANGED <<buffer, autoSend, visiting, dpc>>
        /\ addQueue' \in {addQueue, Append(addQueue, m)}
    BY <1>4 DEF Rejected, Parses
  <2>2. Elems(addQueue) \subseteq Elems(addQueue')
    <3>1. Elems(Append(addQueue, m)) = Elems(addQueue) \cup {m}
      BY <1>1, ElemsChange
    <3>2. QED BY <2>1, <3>1
  <2>3. QED BY <1>1, <2>1, <2>2 DEF InPool
<1>5. ASSUME NEW q, Act(q), ActKeeps, dpc = "idle", dpc' = "merge"
      PROVE  /\ buffer' # NoMsg => buffer' \in InPool'
             /\ dpc' # "visit" => visiting' = <<>>
  <2>1. UNCHANGED <<addQueue, visiting>> /\ visiting = <<>>
    BY <1>1, <1>5 DEF ActKeeps
  <2>2. \/ UNCHANGED <<buffer, autoSend>>
        \/ \E m \in Msgs : buffer' = m /\ autoSend' = Append(autoSend, m)
    BY <1>5 DEF Act, Free
  <2>3. CASE UNCHANGED <<buffer, autoSend>>
    BY <1>1, <2>1, <2>3 DEF InPool
  <2>4. CASE \E m \in Msgs : buffer' = m /\ autoSend' = Append(autoSend, m)
    BY <1>1, <2>1, <2>4, ElemsChange DEF InPool
  <2>5. QED BY <2>2, <2>3, <2>4
<1>6. CASE GameTask \/ WorldTask
  BY <1>5, <1>6 DEF GameTask, WorldTask, IsTask
<1>7. CASE CloseConnection \/ ReleaseTask \/ ReleaseProtocolTask
  <2>1. UNCHANGED <<buffer, autoSend, addQueue, visiting>> /\ dpc = "idle"
    BY <1>7 DEF CloseConnection, ReleaseTask, ReleaseProtocolTask, IsTask, protocol, pool
  <2>2. QED BY <1>1, <2>1 DEF InPool
<1>8. ASSUME NEW m \in Msgs, BeginRelease(m) \/ EndRelease(m)
      PROVE  /\ buffer' # NoMsg => buffer' \in InPool'
             /\ dpc' # "visit" => visiting' = <<>>
  <2>1. UNCHANGED <<buffer, autoSend, addQueue, visiting>> /\ dpc # "visit"
    BY <1>8, ConnectionAssumption DEF BeginRelease, EndRelease, IsTask, protocol, pool
  <2>2. QED BY <1>1, <2>1 DEF InPool
<1>9. CASE Merge
  <2>1. dpc = "merge" /\ visiting = <<>>
    BY <1>1, <1>9 DEF Merge
  <2>2. CASE /\ addQueue # <<>> /\ addQueue' = Tail(addQueue) /\ ForgetBuffer(Head(addQueue))
             /\ UNCHANGED <<autoSend, visiting, dpc>>
    <3>1. Elems(addQueue) = Elems(addQueue') \cup {Head(addQueue)} /\ Head(addQueue) \in Msgs
      BY <1>1, <2>2, ElemsChange
    <3>2. buffer' # NoMsg => buffer' = buffer /\ buffer # Head(addQueue)
      BY <2>2 DEF ForgetBuffer
    <3>3. QED BY <1>1, <2>1, <2>2, <3>1, <3>2 DEF InPool
  <2>3. CASE /\ dpc' = "visit" /\ visiting' = autoSend \o addQueue
             /\ autoSend' = <<>> /\ addQueue' = <<>> /\ UNCHANGED buffer
    <3>1. Elems(visiting') = Elems(autoSend) \cup Elems(addQueue) /\ Elems(<<>>) = {}
      <4>1. Elems(autoSend \o addQueue) = Elems(autoSend) \cup Elems(addQueue)
        BY <1>1, ElemsChange
      <4>2. Elems(<<>>) = {}
        BY DEF Elems
      <4>3. QED BY <2>3, <4>1, <4>2
    <3>2. QED BY <1>1, <2>1, <2>3, <3>1 DEF InPool
  <2>4. QED BY <1>9, <2>2, <2>3 DEF Merge
<1>10. CASE VisitSend
  <2>1. /\ visiting # <<>> /\ visiting' = Tail(visiting) /\ UNCHANGED <<autoSend, dpc>>
        /\ dpc = "visit"
        /\ SendNow(Head(visiting)) \/ SendLater(Head(visiting)) \/ SendRefused(Head(visiting))
    BY <1>10 DEF VisitSend
  <2>2. Elems(visiting) = Elems(visiting') \cup {Head(visiting)} /\ Head(visiting) \in Msgs
    BY <1>1, <2>1, ElemsChange
  <2>3. CASE SendLater(Head(visiting))
    <3>1. addQueue' = Append(addQueue, Head(visiting)) /\ UNCHANGED buffer
      BY <2>3 DEF SendLater
    <3>2. Elems(addQueue') = Elems(addQueue) \cup {Head(visiting)}
      <4>1. Elems(Append(addQueue, Head(visiting))) = Elems(addQueue) \cup {Head(visiting)}
        BY <1>1, <2>2, ElemsChange
      <4>2. QED BY <3>1, <4>1
    <3>3. QED BY <1>1, <2>1, <2>2, <3>1, <3>2 DEF InPool
  <2>4. CASE SendNow(Head(visiting)) \/ SendRefused(Head(visiting))
    <3>1. /\ buffer' # NoMsg => buffer' = buffer /\ buffer # Head(visiting)
          /\ UNCHANGED addQueue
      BY <2>4 DEF SendNow, SendRefused, ForgetBuffer
    <3>2. QED BY <1>1, <2>1, <2>2, <3>1 DEF InPool
  <2>5. QED BY <2>1, <2>3, <2>4
<1>11. CASE VisitKeep
  <2>1. UNCHANGED <<buffer, addQueue>> /\ dpc = "visit"
    BY <1>11 DEF VisitKeep
  <2>2. CASE /\ visiting # <<>> /\ visiting' = Tail(visiting)
             /\ autoSend' = Append(autoSend, Head(visiting)) /\ UNCHANGED dpc
    <3>1. Elems(visiting) = Elems(visiting') \cup {Head(visiting)} /\ Head(visiting) \in Msgs
      BY <1>1, <2>2, ElemsChange
    <3>2. Elems(autoSend') = Elems(autoSend) \cup {Head(visiting)}
      <4>1. Elems(Append(autoSend, Head(visiting))) = Elems(autoSend) \cup {Head(visiting)}
        BY <1>1, <3>1, ElemsChange
      <4>2. QED BY <2>2, <4>1
    <3>3. QED BY <1>1, <2>1, <2>2, <3>1, <3>2 DEF InPool
  <2>3. CASE visiting = <<>> /\ dpc' = "idle" /\ UNCHANGED <<visiting, autoSend>>
    BY <1>1, <2>1, <2>3 DEF InPool
  <2>4. QED BY <1>11, <2>2, <2>3 DEF VisitKeep
<1>12. ASSUME NEW k \in {"releaseConnection", "releaseProtocol"}, Retry(k)
       PROVE  UNCHANGED <<buffer, autoSend, addQueue, visiting, dpc>>
  BY <1>12 DEF Retry, protocol, pool
<1>13. QED
  BY <1>2, <1>3, <1>4, <1>6, <1>7, <1>8, <1>9, <1>10, <1>11, <1>12 DEF Next, Service, Dispatch

\* The protocol is deleted, and the stop asked for, only where the count is zero.
LEMMA ProtocolMove ==
    Next => /\ proto' = "none" => proto = "none"
            /\ \/ proto' \in {proto, "attached", "releasing"}
               \/ proto' = "deleted" /\ ~(protoRef > 0) /\ UNCHANGED counts
<1> SUFFICES ASSUME Next, proto' # proto
             PROVE  proto' \in {"attached", "releasing"} \/ (proto' = "deleted" /\ ~(protoRef > 0)
                                                            /\ UNCHANGED counts)
  OBVIOUS
<1>1. \/ ParsePacket \/ (\E m \in Msgs : Rejected(m)) \/ CloseConnection \/ ReleaseProtocolTask
  <2>1. Service => ParsePacket \/ (\E m \in Msgs : Rejected(m))
    BY DEF Service, ParseFails, RejectHeader, ParseHeader, UnknownProtocol, OnWrite, OnTimeout, OnStop,
       protocol
  <2>2. Dispatch => CloseConnection \/ ReleaseProtocolTask
    BY DEF Dispatch, GameTask, ActKeeps, ReleaseTask, BeginRelease, EndRelease, Merge, VisitSend,
       VisitKeep, VisitKeeps, protocol
  <2>3. ~Network /\ ~WorldTask
    BY DEF Network, CompleteRead, CompleteWrite, Expire, WorldTask, ActKeeps, protocol
  <2>4. \A k \in {"releaseConnection", "releaseProtocol"} : ~Retry(k)
    BY DEF Retry, protocol
  <2>5. QED BY <2>1, <2>2, <2>3, <2>4 DEF Next
<1>2. QED BY <1>1 DEF ParsePacket, Rejected, CloseConnection, ReleaseProtocolTask, ReleaseProtocol, counts

LEMMA StopsMove ==
    IoInv /\ ClosingInv /\ Next =>
        Stops' = Stops \/ (~(connRef > 0) /\ UNCHANGED counts)
<1> SUFFICES ASSUME IoInv, ClosingInv, Next
             PROVE  Stops' = Stops \/ (~(connRef > 0) /\ UNCHANGED counts)
  OBVIOUS
<1>1. ioQueue \in Seq(Handlers) /\ tasks \in Seq(TaskSet)
  BY DEF IoInv, TypeOK, TaskSet, Kinds
<1>2. Times("stop", Ops(ioQueue)) \in Nat
  BY <1>1, HandlerTimes
<1>3. CASE /\ ioQueue # <<>> /\ Head(ioQueue).op # "stop" /\ ioQueue' = Tail(ioQueue)
           /\ socket' = "deleted" <=> socket = "deleted"
  <2>1. Tail(ioQueue) \in Seq(Handlers)
    BY <1>1, <1>3, HandlerTimes
  <2>2. Times("stop", Ops(Tail(ioQueue))) \in Nat
    BY <2>1, HandlerTimes
  <2>3. Times("stop", Ops(ioQueue)) = Times("stop", Ops(Tail(ioQueue)))
    BY <1>1, <1>3, <2>2, HandlerTimes
  <2>4. QED BY <1>3, <2>3 DEF Stops
<1>4. ASSUME NEW o \in {"read", "write", "timeout"}, NEW r, [op |-> o, result |-> r] \in Handlers,
             Post(o, r), socket' = socket
      PROVE  Stops' = Stops
  <2>1. Times("stop", Ops(ioQueue')) = Times("stop", Ops(ioQueue)) + (IF o = "stop" THEN 1 ELSE 0)
    BY <1>1, <1>4, PostTimes DEF Post
  <2>2. Times("stop", Ops(ioQueue')) = Times("stop", Ops(ioQueue))
    BY <1>2, <2>1
  <2>3. QED BY <1>4, <2>2 DEF Stops
<1>5. CASE ioQueue' = ioQueue /\ (socket' = "deleted" <=> socket = "deleted")
  BY <1>5 DEF Stops
<1>6. CASE ParseFails \/ RejectHeader \/ ParseHeader \/ UnknownProtocol \/ ParsePacket
           \/ (\E m \in Msgs : Rejected(m)) \/ OnWrite \/ OnTimeout
  BY <1>3, <1>6 DEF ParseFails, RejectHeader, ParseHeader, UnknownProtocol, ParsePacket, Rejected,
     OnWrite, OnTimeout, Parses, IsNext, CloseSocket
<1>7. CASE OnStop
  <2>1. /\ ioQueue # <<>> /\ Head(ioQueue).op = "stop" /\ ioQueue' = Tail(ioQueue)
        /\ socket' = "deleted"
    BY <1>7 DEF OnStop, IsNext
  <2>2. Tail(ioQueue) \in Seq(Handlers)
    BY <1>1, <2>1, HandlerTimes
  <2>3. Times("stop", Ops(Tail(ioQueue))) \in Nat
    BY <2>2, HandlerTimes
  <2>4. Times("stop", Ops(ioQueue)) = Times("stop", Ops(Tail(ioQueue))) + 1
    BY <1>1, <2>1, HandlerTimes
  <2>5. Stops <= 1
    <3>1. TasksTrue(tasks, state, proto, retries, Stops)
      BY ClosingMeans
    <3>2. Times("releaseConnection", tasks) \in Nat
      BY <1>1, TaskTimes
    <3>3. QED BY <3>1, <3>2 DEF TasksTrue
  <2>6. QED BY <2>1, <2>3, <2>4, <2>5 DEF Stops
<1>8. CASE GameTask \/ WorldTask \/ ReleaseProtocolTask
  BY <1>5, <1>8 DEF GameTask, WorldTask, ReleaseProtocolTask, ActKeeps, connection, io
<1>9. CASE CloseConnection
  <2>1. UNCHANGED counts /\ (socket' = "deleted" <=> socket = "deleted")
    BY <1>9 DEF CloseConnection, CloseSocket
  <2>2. ioQueue' = ioQueue \/ ~(connRef > 0)
    BY <1>9 DEF CloseConnection, ReleaseConnection
  <2>3. QED BY <1>5, <2>1, <2>2
<1>10. CASE ReleaseTask
  <2>1. UNCHANGED counts /\ socket' = socket /\ (ioQueue' = ioQueue \/ ~(connRef > 0))
    BY <1>10 DEF ReleaseTask, ReleaseConnection, connection
  <2>2. QED BY <1>5, <2>1
<1>11. CASE \E m \in Msgs : BeginRelease(m) \/ EndRelease(m)
  BY <1>5, <1>11 DEF BeginRelease, EndRelease, connection, io
<1>12. CASE Merge \/ VisitSend \/ VisitKeep
  BY <1>5, <1>12 DEF Merge, VisitSend, VisitKeep, VisitKeeps, connection, io
<1>13. CASE \E r \in {"ok", "fail", "aborted"} : CompleteRead(r)
  <2>1. PICK r \in {"ok", "fail", "aborted"} : CompleteRead(r)
    BY <1>13
  <2>2. [op |-> "read", result |-> r] \in Handlers
    BY DEF Handlers
  <2>3. Post("read", r) /\ socket' = socket
    BY <2>1 DEF CompleteRead, connection
  <2>4. QED BY <1>4, <2>2, <2>3
<1>14. CASE \E r \in {"ok", "fail", "aborted"} : CompleteWrite(r)
  <2>1. PICK r \in {"ok", "fail", "aborted"} : CompleteWrite(r)
    BY <1>14
  <2>2. [op |-> "write", result |-> r] \in Handlers
    BY DEF Handlers
  <2>3. Post("write", r) /\ socket' = socket
    BY <2>1 DEF CompleteWrite, connection
  <2>4. QED BY <1>4, <2>2, <2>3
<1>15. CASE \E k \in {"read", "write"} : Expire(k)
  <2>1. PICK k \in {"read", "write"} : Expire(k)
    BY <1>15
  <2>2. [op |-> "timeout", result |-> k] \in Handlers
    BY DEF Handlers
  <2>3. Post("timeout", k) /\ socket' = socket
    BY <2>1 DEF Expire, connection
  <2>4. QED BY <1>4, <2>2, <2>3
<1>16. CASE \E k \in {"releaseConnection", "releaseProtocol"} : Retry(k)
  BY <1>5, <1>16 DEF Retry, connection, io
<1>17. QED
  BY <1>6, <1>7, <1>8, <1>9, <1>10, <1>11, <1>12, <1>13, <1>14, <1>15, <1>16
     DEF Next, Service, Dispatch, Network

LEMMA MessagesStarted == Init => MessagesInv
<1> SUFFICES ASSUME Init PROVE MessagesInv
  OBVIOUS
<1>1. /\ autoSend = <<>> /\ addQueue = <<>> /\ visiting = <<>> /\ tasks = <<>>
      /\ dpc = "idle" /\ buffer = NoMsg /\ socket = "open" /\ ioQueue = <<>>
  BY DEF Init
<1>2. \A m : Times(m, <<>>) = 0
  BY TimesEmpty
<1>3. OneWrite
  BY Started DEF IoInv
<1>4. \A m \in Msgs : Places(m) = IF writing = m THEN 1 ELSE 0
  BY <1>1, <1>2, ConnectionAssumption DEF Places
<1>5. MessageOnce
  BY <1>1, <1>3, <1>4 DEF MessageOnce
<1>6. Elems(<<>>) = {}
  BY DEF Elems
<1>7. Allocated = {writing} \ {NoMsg}
  BY <1>1, <1>6, ConnectionAssumption DEF Allocated, InPool
<1>8. /\ writing = NoMsg => connRef = 0 /\ protoRef = 0 /\ proto = "none"
      /\ writing # NoMsg => connRef = 1 /\ protoRef = 1 /\ proto = "attached"
  BY DEF Init
<1>9. RefsExact
  <2>1. CASE writing = NoMsg
    <3>1. Allocated = {}
      BY <1>7, <2>1
    <3>2. QED BY <1>8, <2>1, <3>1, FS_EmptySet DEF RefsExact
  <2>2. CASE writing # NoMsg
    <3>1. Allocated = {writing}
      BY <1>7, <2>2
    <3>2. QED BY <1>8, <2>2, <3>1, FS_Singleton DEF RefsExact
  <2>3. QED BY <2>1, <2>2
<1>10. ~Stopping
  BY <1>1 DEF Stopping, Ops, Elems
<1>11. MessagesPointToLiveObjects /\ (proto = "none" => Allocated = {})
  BY <1>1, <1>7, <1>8, <1>10 DEF MessagesPointToLiveObjects
<1>12. QED BY <1>1, <1>5, <1>9, <1>11 DEF MessagesInv

LEMMA StopsMean == IoInv => (Stops = 0 <=> ~Stopping /\ socket # "deleted")
<1> SUFFICES ASSUME IoInv PROVE Stops = 0 <=> ~Stopping /\ socket # "deleted"
  OBVIOUS
<1>1. ioQueue \in Seq(Handlers)
  BY DEF IoInv, TypeOK
<1>2. Times("stop", Ops(ioQueue)) \in Nat
      /\ (Times("stop", Ops(ioQueue)) = 0 <=> "stop" \notin Elems(Ops(ioQueue)))
  BY <1>1, HandlerTimes
<1>3. QED BY <1>2 DEF Stops, Stopping

LEMMA MessagesInductive == IoInv /\ ClosingInv /\ MessagesInv /\ Next => MessagesInv'
<1> SUFFICES ASSUME IoInv, ClosingInv, MessagesInv, Next PROVE MessagesInv'
  OBVIOUS
<1>1. IoInv' /\ ClosingInv'
  BY IoInductive, ClosingInductive
<1>2. /\ Allocated = {m \in Msgs : Places(m) > 0} /\ IsFiniteSet(Allocated)
      /\ \A m \in Msgs : Places(m) \in Nat
  BY PlacesMean
<1>3. /\ Allocated' = {m \in Msgs : Places(m)' > 0}
      /\ \A m \in Msgs : Places(m)' \in Nat
  <2>1. (IoInv => /\ Allocated = {m \in Msgs : Places(m) > 0}
                  /\ InPool = {m \in Msgs : Times(m, autoSend) + Times(m, addQueue) + Times(m, visiting) > 0}
                  /\ IsFiniteSet(Allocated)
                  /\ \A m \in Msgs : Places(m) \in Nat)'
    BY PlacesMean, PTL
  <2>2. QED BY <1>1, <2>1
<1>4. /\ Stops = 0 <=> ~Stopping /\ socket # "deleted"
      /\ Stops' = 0 <=> ~Stopping' /\ socket' # "deleted"
  <2>1. (IoInv => (Stops = 0 <=> ~Stopping /\ socket # "deleted"))'
    BY StopsMean, PTL
  <2>2. QED BY <1>1, <2>1, StopsMean
<1>5. \A m \in Msgs : Places(m) <= 1
  BY DEF MessagesInv, MessageOnce
<1>6. raced = "no" => connRef = Cardinality(Allocated) /\ protoRef = Cardinality(Allocated)
  BY DEF MessagesInv, RefsExact
<1>7. raced = "no" /\ Allocated # {} => /\ proto \in {"attached", "releasing"} /\ Stops = 0
                                        /\ connRef > 0 /\ protoRef > 0
  <2>1. Cardinality(Allocated) \in Nat /\ (Cardinality(Allocated) = 0 <=> Allocated = {})
    BY <1>2, FS_CardinalityType, FS_EmptySet
  <2>2. QED BY <1>4, <1>6, <2>1 DEF MessagesInv, MessagesPointToLiveObjects
<1>8. proto = "none" => Allocated = {}
  BY DEF MessagesInv
<1>9. (buffer # NoMsg => buffer \in InPool)' /\ (dpc # "visit" => visiting = <<>>)'
  BY BufferMove
<1>10. OneWrite'
  BY <1>1 DEF IoInv
<1>11. /\ proto' = "none" => proto = "none"
       /\ \/ proto' \in {proto, "attached", "releasing"}
          \/ proto' = "deleted" /\ ~(protoRef > 0) /\ UNCHANGED counts
  BY ProtocolMove
<1>12. Stops' = Stops \/ (~(connRef > 0) /\ UNCHANGED counts)
  BY StopsMove
<1> SUFFICES /\ \A m \in Msgs : Places(m)' <= 1
             /\ (raced = "no" => connRef = Cardinality(Allocated) /\ protoRef = Cardinality(Allocated))'
             /\ (raced = "no" /\ Allocated # {} => proto \in {"attached", "releasing"} /\ Stops = 0)'
             /\ (proto = "none" => Allocated = {})'
  BY <1>4, <1>9, <1>10
     DEF MessagesInv, MessageOnce, RefsExact, MessagesPointToLiveObjects
<1>13. CASE Moves
  <2>1. Allocated' = Allocated
    BY <1>2, <1>3, <1>13 DEF Moves
  <2>2. \A m \in Msgs : Places(m)' <= 1
    BY <1>5, <1>13 DEF Moves
  <2>3. QED BY <1>6, <1>7, <1>8, <1>11, <1>12, <1>13, <2>1, <2>2 DEF Moves
<1>14. ASSUME NEW m \in Msgs, HandsOut(m)
       PROVE  /\ \A n \in Msgs : Places(n)' <= 1
              /\ (raced = "no" => connRef = Cardinality(Allocated) /\ protoRef = Cardinality(Allocated))'
              /\ (raced = "no" /\ Allocated # {} => proto \in {"attached", "releasing"} /\ Stops = 0)'
              /\ (proto = "none" => Allocated = {})'
  <2>1. Allocated' = Allocated \cup {m} /\ m \notin Allocated
    BY <1>2, <1>3, <1>14 DEF HandsOut
  <2>2. Cardinality(Allocated') = Cardinality(Allocated) + 1
    BY <1>2, <2>1, FS_AddElement
  <2>3. \A n \in Msgs : Places(n)' <= 1
    BY <1>5, <1>14 DEF HandsOut
  <2>4. Stops = 0
    <3>1. TasksTrue(tasks, state, proto, retries, Stops) /\ state # "closed"
      BY <1>14, ClosingMeans DEF HandsOut
    <3>2. Times("releaseConnection", tasks) \in Nat
      BY TaskTimes DEF IoInv, TypeOK, TaskSet, Kinds
    <3>3. QED BY <3>1, <3>2 DEF TasksTrue
  <2>5. Stops' = Stops
    <3>1. connRef \in Int
      BY DEF IoInv, TypeOK
    <3>2. QED BY <1>12, <1>14, <3>1 DEF HandsOut, counts
  <2>6. (proto = "attached")'
    BY <1>14 DEF HandsOut
  <2>7. (raced = "no" => connRef = Cardinality(Allocated) /\ protoRef = Cardinality(Allocated))'
    BY <1>6, <1>14, <2>2 DEF HandsOut
  <2>8. QED BY <2>3, <2>4, <2>5, <2>6, <2>7
<1>15. ASSUME NEW m \in Msgs, Releases(m)
       PROVE  /\ \A n \in Msgs : Places(n)' <= 1
              /\ (raced = "no" => connRef = Cardinality(Allocated) /\ protoRef = Cardinality(Allocated))'
              /\ (raced = "no" /\ Allocated # {} => proto \in {"attached", "releasing"} /\ Stops = 0)'
              /\ (proto = "none" => Allocated = {})'
  <2>1. Places(m) = 1 /\ Places(m)' = 0
    BY <1>2, <1>3, <1>5, <1>15 DEF Releases
  <2>2. Allocated' = Allocated \ {m} /\ m \in Allocated
    BY <1>2, <1>3, <1>15, <2>1 DEF Releases
  <2>3. Cardinality(Allocated') = Cardinality(Allocated) - 1
    BY <1>2, <2>2, FS_RemoveElement
  <2>4. \A n \in Msgs : Places(n)' <= 1
    BY <1>5, <1>15, <2>1 DEF Releases
  <2>5. raced' = "no" => raced = "no" /\ connRef' = connRef - 1 /\ protoRef' = protoRef - 1
    BY <1>15 DEF Releases, EndRelease
  <2>6. UNCHANGED <<proto, socket, ioQueue>>
    BY <1>15 DEF Releases, EndRelease, connection, io, protocol
  <2>7. Stops' = Stops
    BY <2>6 DEF Stops
  <2>8. (raced = "no" => connRef = Cardinality(Allocated) /\ protoRef = Cardinality(Allocated))'
    BY <1>6, <2>3, <2>5
  <2>9. QED BY <1>7, <1>8, <2>2, <2>4, <2>5, <2>6, <2>7, <2>8
<1>16. QED BY <1>13, <1>14, <1>15, PlacesMove

-----------------------------------------------------------------------------
(* The theorems.                                                           *)

LEMMA Inductive == Spec => []IInv
<1>1. Init => IInv
  BY Started, ClosingStarted, MessagesStarted DEF IInv
<1>2. IInv /\ [Next]_vars => IInv'
  <2> SUFFICES ASSUME IInv, [Next]_vars PROVE IInv'
    OBVIOUS
  <2>1. CASE Next
    BY <2>1, IoInductive, ClosingInductive, MessagesInductive DEF IInv
  <2>2. CASE UNCHANGED vars
    <3>1. UNCHANGED <<state, socket, errors, pendingRead, pendingWrite, reading, writing, armed,
                      ioQueue, received, packets, proto, buffer, connRef, protoRef, autoSend,
                      addQueue, visiting, tasks, retries, dpc, seen, raced>>
      BY <2>2 DEF vars, connection, io, protocol, counts, pool, dispatcher
    <3>2. IoInv'
      BY <3>1 DEF IInv, IoInv, TypeOK, OneWrite
    <3>3. ClosingInv'
      BY <3>1 DEF IInv, ClosingInv, CloseTaskMatches, StopOnce, ReleasesOnce, ProtocolFollows,
         TasksFindProtocol, GamesFirst
    <3>4. MessagesInv'
      BY <3>1 DEF IInv, MessagesInv, MessageOnce, OneWrite, Places, RefsExact, Allocated, InPool,
         MessagesPointToLiveObjects, Stopping
    <3>5. QED BY <3>2, <3>3, <3>4 DEF IInv
  <2>3. QED BY <2>1, <2>2
<1>3. QED BY <1>1, <1>2, PTL DEF Spec

\* However often close is called, and by whom, the connection is closed and released
\* once, its socket's deletion is asked for once, and each message is in one place
\* until it is released (Connection::close, closeConnection, releaseConnection,
\* OutputMessagePool::sendAll).
THEOREM ClosedOnce == Spec => []OnceOnly
<1>1. IInv => OnceOnly
  BY DEF IInv, ClosingInv, MessagesInv, OnceOnly
<1>2. QED BY <1>1, Inductive, PTL

\* Until two threads spoil a count, each count is the number of messages handed out,
\* and no message outlives the protocol or the connection it points to; and a
\* packet's task always finds its protocol (releaseProtocol, deleteConnection,
\* internalReleaseMessage).
THEOREM NobodyDangles == Spec => []NothingDangles
<1>1. IInv => NothingDangles
  BY DEF IInv, ClosingInv, MessagesInv, NothingDangles
<1>2. QED BY <1>1, Inductive, PTL
=============================================================================
