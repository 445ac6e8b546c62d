---------------------------- MODULE ServerProofs ----------------------------
(***************************************************************************)
(* What holds of the server's life for every set of players, staff and     *)
(* signals, and whatever their number.                                     *)
(***************************************************************************)
EXTENDS Server, FiniteSetTheorems, TLAPS

Tasks == {Command(c) : c \in Commands} \cup Requests

-----------------------------------------------------------------------------
(* The tasks, and what adding, taking and marking one does to the list.    *)

LEMMA CommandFields ==
    ASSUME NEW c \in Commands
    PROVE  Command(c) \in Tasks /\ Command(c).op = c
BY DEF Command, Tasks

LEMMA TaskFields ==
    ASSUME NEW t \in Tasks
    PROVE  /\ t.op \in Commands \cup {"login", "play", "logout"}
           /\ t.op \in {"login", "play", "logout"} => t.who \in Players /\ t \in Requests
<1>1. CASE t \in {Command(c) : c \in Commands}
  <2>1. PICK c \in Commands : t = Command(c)
    BY <1>1
  <2>2. t.op = c
    BY <2>1, CommandFields
  <2>3. c \notin {"login", "play", "logout"}
    BY DEF Commands, Events, Minutes
  <2>4. QED BY <2>2, <2>3
<1>2. CASE t \in Requests
  BY <1>2 DEF Requests
<1>3. QED BY <1>1, <1>2 DEF Tasks

\* The number of tasks of one kind on a list.
Count(q, e) == Cardinality({i \in DOMAIN q : q[i].op = e})

LEMMA CountFinite ==
    ASSUME NEW q \in Seq(Tasks), NEW e
    PROVE  /\ IsFiniteSet({i \in DOMAIN q : q[i].op = e})
           /\ Count(q, e) \in Nat
<1>1. DOMAIN q = 1..Len(q) /\ Len(q) \in Nat
  OBVIOUS
<1>2. IsFiniteSet(1..Len(q))
  BY <1>1, FS_Interval
<1>3. IsFiniteSet({i \in DOMAIN q : q[i].op = e})
  BY <1>1, <1>2, FS_Subset
<1>4. QED BY <1>3, FS_CardinalityType DEF Count

LEMMA CountEmpty ==
    ASSUME NEW e
    PROVE  Count(<<>>, e) = 0
<1>1. {i \in DOMAIN <<>> : <<>>[i].op = e} = {}
  OBVIOUS
<1>2. QED BY <1>1, FS_EmptySet DEF Count

LEMMA CountAppend ==
    ASSUME NEW q \in Seq(Tasks), NEW t \in Tasks, NEW e
    PROVE  Count(Append(q, t), e) = Count(q, e) + (IF t.op = e THEN 1 ELSE 0)
<1> DEFINE r == Append(q, t)
           C == {i \in DOMAIN q : q[i].op = e}
           D == {i \in DOMAIN r : r[i].op = e}
<1>1. /\ DOMAIN q = 1..Len(q) /\ DOMAIN r = 1..(Len(q) + 1) /\ Len(q) \in Nat
      /\ r[Len(q) + 1] = t /\ \A i \in 1..Len(q) : r[i] = q[i]
  OBVIOUS
<1> HIDE DEF r
<1>2. D = IF t.op = e THEN C \cup {Len(q) + 1} ELSE C
  BY <1>1
<1>3. Len(q) + 1 \notin C
  BY <1>1
<1>4. IsFiniteSet(C) /\ Cardinality(C) \in Nat
  BY CountFinite DEF Count
<1> HIDE DEF C, D
<1>5. t.op = e => Cardinality(D) = Cardinality(C) + 1
  BY <1>2, <1>3, <1>4, FS_AddElement
<1>6. t.op # e => Cardinality(D) = Cardinality(C)
  BY <1>2
<1>7. Cardinality(D) = Cardinality(C) + (IF t.op = e THEN 1 ELSE 0)
  BY <1>4, <1>5, <1>6
<1>8. QED BY <1>7 DEF C, D, Count, r

LEMMA CountTail ==
    ASSUME NEW q \in Seq(Tasks), q # <<>>, NEW e
    PROVE  /\ Head(q) \in Tasks /\ Tail(q) \in Seq(Tasks)
           /\ Count(q, e) = Count(Tail(q), e) + (IF Head(q).op = e THEN 1 ELSE 0)
<1> DEFINE r == Tail(q)
           C == {i \in DOMAIN r : r[i].op = e}
           S == {i + 1 : i \in C}
           D == {i \in DOMAIN q : q[i].op = e}
<1>1. /\ DOMAIN q = 1..Len(q) /\ Len(q) \in Nat \ {0} /\ DOMAIN r = 1..(Len(q) - 1)
      /\ q[1] = Head(q) /\ \A i \in 1..(Len(q) - 1) : r[i] = q[i + 1]
      /\ r \in Seq(Tasks) /\ Head(q) \in Tasks
  OBVIOUS
<1> HIDE DEF r
<1>2. IsFiniteSet(C) /\ IsFiniteSet(D) /\ Cardinality(C) \in Nat
  BY <1>1, CountFinite DEF Count
<1>3. D = IF Head(q).op = e THEN S \cup {1} ELSE S
  <2>1. \A i \in DOMAIN q : i = 1 \/ (i - 1 \in DOMAIN r /\ q[i] = r[i - 1] /\ (i - 1) + 1 = i)
    BY <1>1
  <2>2. \A i \in DOMAIN r : i + 1 \in DOMAIN q /\ q[i + 1] = r[i] /\ i + 1 # 1
    BY <1>1
  <2>3. 1 \in DOMAIN q
    BY <1>1
  <2>4. QED BY <1>1, <2>1, <2>2, <2>3
<1>4. S \subseteq D /\ 1 \notin S
  BY <1>1, <1>3
<1>5. IsFiniteSet(S)
  BY <1>2, <1>4, FS_Subset
<1>6. Cardinality(S) = Cardinality(C)
  <2> DEFINE f == [i \in C |-> i + 1]
  <2>1. f \in Bijection(C, S)
    BY <1>1 DEF Bijection, Injection, Surjection, IsInjective
  <2>2. ExistsBijection(C, S)
    BY <2>1 DEF ExistsBijection
  <2> HIDE DEF C, S, f
  <2>3. QED BY <2>2, <1>2, FS_Bijection
<1> HIDE DEF C, D, S
<1>7. Cardinality(D) = Cardinality(C) + (IF Head(q).op = e THEN 1 ELSE 0)
  <2>1. Head(q).op = e => Cardinality(D) = Cardinality(C) + 1
    BY <1>3, <1>4, <1>5, <1>6, FS_AddElement
  <2>2. Head(q).op # e => Cardinality(D) = Cardinality(C)
    BY <1>3, <1>6
  <2>3. QED BY <1>2, <2>1, <2>2
<1>8. QED BY <1>1, <1>7 DEF Count, C, D, r

\* Tasks that find nobody stay where they are and count as what they were,
\* but for those of the players who are gone.
LEMMA Marked ==
    ASSUME NEW q \in Seq(Tasks), NEW gone, NEW r, r = TasksFindNobody(q, gone)
    PROVE  /\ r \in Seq(Tasks) /\ DOMAIN r = DOMAIN q
           /\ \A i \in DOMAIN q : \/ r[i] = q[i] /\ ~(q[i].op = "play" /\ q[i].who \in gone)
                                  \/ r[i].op = "nobody" /\ q[i].op = "play" /\ q[i].who \in gone
           /\ \A e : e \notin {"play", "nobody"} => Count(r, e) = Count(q, e)
<1>0. "nobody" \in Commands /\ Command("nobody") \in Tasks /\ Command("nobody").op = "nobody"
  BY CommandFields DEF Commands
<1>1. DOMAIN q = 1..Len(q) /\ Len(q) \in Nat /\ \A i \in 1..Len(q) : q[i] \in Tasks
  OBVIOUS
<1>2. r = [i \in 1..Len(q) |-> IF q[i].op = "play" /\ q[i].who \in gone
                               THEN Command("nobody") ELSE q[i]]
  BY <1>1 DEF TasksFindNobody
<1>3. r \in [1..Len(q) -> Tasks]
  BY <1>0, <1>1, <1>2
<1>4. r \in Seq(Tasks) /\ DOMAIN r = DOMAIN q
  BY <1>1, <1>3
<1>5. \A i \in DOMAIN q : \/ r[i] = q[i] /\ ~(q[i].op = "play" /\ q[i].who \in gone)
                          \/ r[i].op = "nobody" /\ q[i].op = "play" /\ q[i].who \in gone
  BY <1>0, <1>1, <1>2
<1>6. ASSUME NEW e, e \notin {"play", "nobody"} PROVE Count(r, e) = Count(q, e)
  <2>1. {i \in DOMAIN r : r[i].op = e} = {i \in DOMAIN q : q[i].op = e}
    BY <1>4, <1>5, <1>6
  <2>2. QED BY <2>1 DEF Count
<1>7. QED BY <1>4, <1>5, <1>6

-----------------------------------------------------------------------------
(* The calls of the global save and of the tick that are under way: those  *)
(* that are scheduled and those that are queued.                           *)

Saves(q, es) == es["save5"] + Count(q, "save5") + (es["save3"] + Count(q, "save3"))
                + (es["save1"] + Count(q, "save1")) + (es["save0"] + Count(q, "save0"))
Ticks(q, es) == es["tick"] + Count(q, "tick")

\* There is one more call of that kind on the second list or schedule.
OneMoreOf(e, q, es, r, fs) ==
    \A f \in Events : fs[f] + Count(r, f) = es[f] + Count(q, f) + (IF f = e THEN 1 ELSE 0)

\* The sums differ by one when one kind of call does.
LEMMA OneMore ==
    ASSUME NEW q \in Seq(Tasks), NEW es \in [Events -> Nat],
           NEW r \in Seq(Tasks), NEW fs \in [Events -> Nat], NEW e,
           OneMoreOf(e, q, es, r, fs)
    PROVE  /\ Saves(r, fs) = Saves(q, es) + (IF e \in Minutes THEN 1 ELSE 0)
           /\ Ticks(r, fs) = Ticks(q, es) + (IF e = "tick" THEN 1 ELSE 0)
<1> DEFINE a(f) == es[f] + Count(q, f)
           b(f) == fs[f] + Count(r, f)
<1>1. \A f \in Events : a(f) \in Nat /\ b(f) \in Nat
  <2>1. \A f \in Events : es[f] \in Nat /\ Count(q, f) \in Nat /\ fs[f] \in Nat /\ Count(r, f) \in Nat
    BY CountFinite
  <2>2. QED BY <2>1
<1>2. \A f \in Events : b(f) = a(f) + (IF f = e THEN 1 ELSE 0)
  <2>1. \A f \in Events : es[f] \in Nat /\ Count(q, f) \in Nat /\ fs[f] \in Nat /\ Count(r, f) \in Nat
    BY CountFinite
  <2>2. QED BY <2>1 DEF OneMoreOf
<1>3. /\ Saves(q, es) = a("save5") + a("save3") + a("save1") + a("save0") /\ Ticks(q, es) = a("tick")
      /\ Saves(r, fs) = b("save5") + b("save3") + b("save1") + b("save0") /\ Ticks(r, fs) = b("tick")
  BY DEF Saves, Ticks
<1> HIDE DEF a, b
<1>4. /\ a("save5") \in Nat /\ a("save3") \in Nat /\ a("save1") \in Nat /\ a("save0") \in Nat
      /\ a("tick") \in Nat
  BY <1>1 DEF Events, Minutes
<1>5. CASE e \notin {"save5", "save3", "save1", "save0", "tick"}
  <2>1. /\ b("save5") = a("save5") /\ b("save3") = a("save3") /\ b("save1") = a("save1")
        /\ b("save0") = a("save0") /\ b("tick") = a("tick")
    BY <1>2, <1>4, <1>5 DEF Events, Minutes
  <2>2. QED BY <2>1, <1>3, <1>4, <1>5 DEF Minutes
<1>6. CASE e = "tick"
  <2>1. /\ b("save5") = a("save5") /\ b("save3") = a("save3") /\ b("save1") = a("save1")
        /\ b("save0") = a("save0") /\ b("tick") = a("tick") + 1
    BY <1>2, <1>4, <1>6 DEF Events, Minutes
  <2>2. QED BY <2>1, <1>3, <1>4, <1>6 DEF Minutes
<1>7. CASE e = "save5"
  <2>1. /\ b("save5") = a("save5") + 1 /\ b("save3") = a("save3") /\ b("save1") = a("save1")
        /\ b("save0") = a("save0") /\ b("tick") = a("tick")
    BY <1>2, <1>4, <1>7 DEF Events, Minutes
  <2>2. QED BY <2>1, <1>3, <1>4, <1>7 DEF Minutes
<1>8. CASE e = "save3"
  <2>1. /\ b("save5") = a("save5") /\ b("save3") = a("save3") + 1 /\ b("save1") = a("save1")
        /\ b("save0") = a("save0") /\ b("tick") = a("tick")
    BY <1>2, <1>4, <1>8 DEF Events, Minutes
  <2>2. QED BY <2>1, <1>3, <1>4, <1>8 DEF Minutes
<1>9. CASE e = "save1"
  <2>1. /\ b("save5") = a("save5") /\ b("save3") = a("save3") /\ b("save1") = a("save1") + 1
        /\ b("save0") = a("save0") /\ b("tick") = a("tick")
    BY <1>2, <1>4, <1>9 DEF Events, Minutes
  <2>2. QED BY <2>1, <1>3, <1>4, <1>9 DEF Minutes
<1>10. CASE e = "save0"
  <2>1. /\ b("save5") = a("save5") /\ b("save3") = a("save3") /\ b("save1") = a("save1")
        /\ b("save0") = a("save0") + 1 /\ b("tick") = a("tick")
    BY <1>2, <1>4, <1>10 DEF Events, Minutes
  <2>2. QED BY <2>1, <1>3, <1>4, <1>10 DEF Minutes
<1>11. QED BY <1>5, <1>6, <1>7, <1>8, <1>9, <1>10

LEMMA SumsAreNat ==
    ASSUME NEW q \in Seq(Tasks), NEW es \in [Events -> Nat]
    PROVE  Saves(q, es) \in Nat /\ Ticks(q, es) \in Nat
<1> DEFINE a(f) == es[f] + Count(q, f)
<1>1. \A e \in Events : es[e] \in Nat /\ Count(q, e) \in Nat
  BY CountFinite
<1>2. \A e \in Events : a(e) \in Nat
  BY <1>1
<1>3. Saves(q, es) = a("save5") + a("save3") + a("save1") + a("save0") /\ Ticks(q, es) = a("tick")
  BY DEF Saves, Ticks
<1> HIDE DEF a
<1>4. /\ a("save5") \in Nat /\ a("save3") \in Nat /\ a("save1") \in Nat /\ a("save0") \in Nat
      /\ a("tick") \in Nat
  BY <1>2 DEF Events, Minutes
<1>5. QED BY <1>3, <1>4

LEMMA SumsAppend ==
    ASSUME NEW q \in Seq(Tasks), NEW t \in Tasks, NEW es \in [Events -> Nat]
    PROVE  /\ Saves(Append(q, t), es) = Saves(q, es) + (IF t.op \in Minutes THEN 1 ELSE 0)
           /\ Ticks(Append(q, t), es) = Ticks(q, es) + (IF t.op = "tick" THEN 1 ELSE 0)
<1>1. \A e \in Events : /\ es[e] \in Nat /\ Count(q, e) \in Nat
                        /\ Count(Append(q, t), e) = Count(q, e) + (IF e = t.op THEN 1 ELSE 0)
  BY CountFinite, CountAppend
<1>2. Append(q, t) \in Seq(Tasks)
  OBVIOUS
<1>3. OneMoreOf(t.op, q, es, Append(q, t), es)
  BY <1>1 DEF OneMoreOf
<1>4. QED BY <1>2, <1>3, OneMore

LEMMA SumsTail ==
    ASSUME NEW q \in Seq(Tasks), q # <<>>, NEW es \in [Events -> Nat]
    PROVE  /\ Saves(q, es) = Saves(Tail(q), es) + (IF Head(q).op \in Minutes THEN 1 ELSE 0)
           /\ Ticks(q, es) = Ticks(Tail(q), es) + (IF Head(q).op = "tick" THEN 1 ELSE 0)
<1>0. Tail(q) \in Seq(Tasks)
  BY CountTail
<1>1. \A e \in Events : /\ es[e] \in Nat /\ Count(Tail(q), e) \in Nat
                        /\ Count(q, e) = Count(Tail(q), e) + (IF e = Head(q).op THEN 1 ELSE 0)
  BY <1>0, CountFinite, CountTail
<1>2. OneMoreOf(Head(q).op, Tail(q), es, q, es)
  BY <1>1 DEF OneMoreOf
<1>3. QED BY <1>0, <1>2, OneMore

LEMMA SumsMarked ==
    ASSUME NEW q \in Seq(Tasks), NEW gone, NEW es \in [Events -> Nat]
    PROVE  /\ Saves(TasksFindNobody(q, gone), es) = Saves(q, es)
           /\ Ticks(TasksFindNobody(q, gone), es) = Ticks(q, es)
<1> DEFINE r == TasksFindNobody(q, gone)
<1>1. \A e : e \notin {"play", "nobody"} => Count(r, e) = Count(q, e)
  BY Marked
<1> HIDE DEF r
<1>2. \A e \in {"save5", "save3", "save1", "save0", "tick"} : Count(r, e) = Count(q, e)
  BY <1>1
<1>3. QED BY <1>2 DEF Saves, Ticks, r

-----------------------------------------------------------------------------
(* The inductive invariant.                                                *)

\* Until the game is started there is nobody in it and nothing scheduled: the
\* loader's task is alone on the list, and no service accepts a connection.
Fresh == \E i \in DOMAIN taskList : taskList[i].op = "otserv"
Boot ==
    /\ main = "serving" => ports = "bound"
    /\ Fresh => taskList = <<Command("otserv")>> /\ dpc = "idle" /\ dispatcher = "running"
    /\ Fresh \/ dpc = "binding" => ports = "none"
    /\ Fresh \/ dpc \in {"binding", "starting"} =>
         /\ online = {} /\ unsaved = {} /\ asked = "no"
         /\ \A e \in Events : events[e] = 0
         /\ \A i \in DOMAIN taskList : taskList[i].op \notin Events

\* A list on which every player's task belongs to one of those players.
PlaysIn(q, players) == \A i \in DOMAIN q : q[i].op = "play" => q[i].who \in players

\* A player's task is queued for those who are in the game only; after a
\* shutdown that was asked for nothing is left to be done by any of them.
TasksTrue ==
    /\ PlaysIn(taskList, online)
    /\ asked = "yes" => unsaved = {} /\ dispatcher # "running" /\ PlaysIn(taskList, {})

Chains == Saves(taskList, events) <= 1 /\ Ticks(taskList, events) <= 1

IInv == TypeOK /\ Boot /\ TasksTrue /\ Chains /\ ClosedKeepsOut

LEMMA ListType ==
    Tasks = {Command(c) : c \in Commands} \cup Requests
BY DEF Tasks

LEMMA InitIInv == Init => IInv
<1> SUFFICES ASSUME Init PROVE IInv
  OBVIOUS
<1> USE ServerAssumption DEF Init
<1>0. "otserv" \in Commands /\ Command("otserv") \in Tasks /\ Command("otserv").op = "otserv"
  BY CommandFields DEF Commands
<1>1. taskList \in Seq(Tasks) /\ DOMAIN taskList = {1} /\ taskList[1] = Command("otserv")
  BY <1>0
<1>2. TypeOK
  <2>1. events \in [Events -> 0..3]
    OBVIOUS
  <2>2. QED BY <1>1, <2>1 DEF TypeOK, Tasks
<1>3. Boot /\ TasksTrue
  BY <1>0, <1>1 DEF Boot, TasksTrue, PlaysIn, Events, Minutes
<1>4. Chains
  <2>1. <<>> \in Seq(Tasks) /\ taskList = Append(<<>>, Command("otserv"))
    OBVIOUS
  <2>2. \A e \in Events : Count(taskList, e) = 0 /\ events[e] = 0
    <3> SUFFICES ASSUME NEW e \in Events PROVE Count(taskList, e) = 0 /\ events[e] = 0
      OBVIOUS
    <3>1. e # "otserv"
      BY DEF Events, Minutes
    <3>2. Count(taskList, e) = Count(<<>>, e) + (IF Command("otserv").op = e THEN 1 ELSE 0)
      BY ONLY <1>0, <2>1, CountAppend
    <3>3. QED BY <1>0, <3>1, <3>2, CountEmpty
  <2>3. QED BY <2>2 DEF Chains, Saves, Ticks, Events, Minutes
<1>5. ClosedKeepsOut
  BY DEF ClosedKeepsOut
<1>6. QED BY <1>2, <1>3, <1>4, <1>5 DEF IInv

-----------------------------------------------------------------------------
(* What a task does when it is executed.                                   *)

\* A list that the dispatcher may be left with, once the game is started.
ListOK(q) ==
    /\ q \in Seq(Tasks)
    /\ Saves(q, events) <= 1 /\ Ticks(q, events) <= 1
    /\ PlaysIn(q, online)
    /\ asked = "yes" => PlaysIn(q, {})
    /\ \A i \in DOMAIN q : q[i].op # "otserv"

WorldOK ==
    /\ gameState \in {"none", "startup", "init", "normal", "closing", "closed", "shutdown"}
    /\ dispatcher \in {"running", "closing", "terminated"}
    /\ scheduler \in {"running", "closing", "terminated"}
    /\ events \in [Events -> Nat]
    /\ unsaved \subseteq online /\ online \subseteq Players
    /\ asked \in {"no", "yes"}
    /\ asked = "yes" => unsaved = {} /\ dispatcher # "running"
    /\ ClosedKeepsOut

\* One more command on the list, the call of no event.
LEMMA AppendOK ==
    ASSUME WorldOK, NEW q, ListOK(q), NEW t \in Tasks,
           t.op \notin Events \cup {"otserv"},
           t.op = "play" => t.who \in online /\ asked # "yes"
    PROVE  ListOK(Append(q, t))
<1>1. q \in Seq(Tasks) /\ events \in [Events -> Nat] /\ Append(q, t) \in Seq(Tasks)
  BY DEF ListOK, WorldOK
<1>2. Saves(q, events) \in Nat /\ Ticks(q, events) \in Nat
  BY <1>1, SumsAreNat
<1>3. /\ Saves(Append(q, t), events) = Saves(q, events) + (IF t.op \in Minutes THEN 1 ELSE 0)
      /\ Ticks(Append(q, t), events) = Ticks(q, events) + (IF t.op = "tick" THEN 1 ELSE 0)
  BY <1>1, SumsAppend
<1>4. Saves(Append(q, t), events) <= 1 /\ Ticks(Append(q, t), events) <= 1
  BY <1>2, <1>3 DEF ListOK, Events
<1>5. \A i \in DOMAIN Append(q, t) : Append(q, t)[i] = t \/ (i \in DOMAIN q /\ Append(q, t)[i] = q[i])
  BY <1>1
<1>6. QED BY <1>1, <1>4, <1>5 DEF ListOK, PlaysIn

LEMMA AddedOK ==
    ASSUME WorldOK, NEW q, ListOK(q), NEW c \in Commands \ (Events \cup {"otserv"}),
           NEW d \in Commands \ (Events \cup {"otserv"})
    PROVE  /\ ListOK(Added(q, <<Command(c)>>))
           /\ ListOK(Added(q, <<Command(c), Command(d)>>))
<1>1. /\ Command(c) \in Tasks /\ Command(c).op = c /\ c # "play"
      /\ Command(d) \in Tasks /\ Command(d).op = d /\ d # "play"
  BY CommandFields DEF Commands, Events, Minutes
<1>2. ListOK(Append(q, Command(c)))
  BY <1>1, AppendOK
<1>3. ListOK(Append(Append(q, Command(c)), Command(d)))
  BY <1>1, <1>2, AppendOK
<1>4. q \in Seq(Tasks)
  BY DEF ListOK
<1>5. q \o <<Command(c)>> = Append(q, Command(c))
  BY <1>1, <1>4
<1>6. q \o <<Command(c), Command(d)>> = Append(Append(q, Command(c)), Command(d))
  BY <1>1, <1>4
<1>7. QED BY <1>2, <1>3, <1>5, <1>6 DEF Added

\* Players leave: their tasks find nobody.
LEMMA MarkedOK ==
    ASSUME WorldOK, NEW q, ListOK(q), NEW gone
    PROVE  /\ ListOK(TasksFindNobody(q, gone))
           /\ PlaysIn(TasksFindNobody(q, gone), online \ gone)
<1> DEFINE r == TasksFindNobody(q, gone)
<1>1. q \in Seq(Tasks) /\ events \in [Events -> Nat]
  BY DEF ListOK, WorldOK
<1>2. /\ r \in Seq(Tasks) /\ DOMAIN r = DOMAIN q
      /\ \A i \in DOMAIN q : \/ r[i] = q[i] /\ ~(q[i].op = "play" /\ q[i].who \in gone)
                             \/ r[i].op = "nobody" /\ q[i].op = "play" /\ q[i].who \in gone
  BY <1>1, Marked
<1>3. Saves(r, events) = Saves(q, events) /\ Ticks(r, events) = Ticks(q, events)
  BY <1>1, SumsMarked
<1> HIDE DEF r
<1>4. PlaysIn(r, online \ gone)
  BY <1>2 DEF ListOK, PlaysIn
<1>5. asked = "yes" => PlaysIn(r, {})
  BY <1>2 DEF ListOK, PlaysIn
<1>6. \A i \in DOMAIN r : r[i].op # "otserv"
  BY <1>2 DEF ListOK
<1>7. ListOK(r)
  BY <1>2, <1>3, <1>4, <1>5, <1>6 DEF ListOK, PlaysIn
<1>8. QED BY <1>4, <1>7 DEF r

\* The list stands when nothing it depends on changes but to its good.
LEMMA ListReached ==
    ASSUME NEW r, ListOK(r), taskList' = r, UNCHANGED events, PlaysIn(r, online'),
           asked' = "yes" => asked = "yes" \/ PlaysIn(r, {})
    PROVE  ListOK(taskList)'
BY DEF ListOK, PlaysIn

\* The tasks of the operator and of the game's end.
LEMMA CommandKeeps ==
    ASSUME WorldOK, NEW q, ListOK(q), ShutDown(q) \/ CloseGame(q) \/ OpenGame(q) \/ GoDown(q)
    PROVE  WorldOK' /\ ListOK(taskList)'
<1>0. PlaysIn(q, online) /\ q \in Seq(Tasks)
  BY DEF ListOK
<1>1. CASE ShutDown(q) /\ gameState = "shutdown"
  <2>1. taskList' = q /\ UNCHANGED <<events, dispatcher, scheduler, gameState, online, unsaved, asked>>
    BY <1>1 DEF ShutDown, Reached, world
  <2>2. QED BY <1>0, <2>1, ListReached DEF WorldOK, ClosedKeepsOut
<1>2. CASE ShutDown(q) /\ gameState # "shutdown"
  <2> DEFINE left == TasksFindNobody(q, online)
  <2>1. /\ gameState' = "shutdown" /\ asked' = "yes" /\ online' = {} /\ unsaved' = {}
        /\ scheduler' = "closing" /\ dispatcher' = "closing" /\ UNCHANGED events
        /\ taskList' = IF CloseInstance THEN Added(left, <<Command("down")>>) ELSE left
    BY <1>2 DEF ShutDown, SaveGameState
  <2>2. ListOK(left) /\ PlaysIn(left, {})
    <3>1. online \ online = {}
      OBVIOUS
    <3>2. QED BY <3>1, MarkedOK
  <2> HIDE DEF left
  <2>3. "down" \in Commands \ (Events \cup {"otserv"}) /\ Command("down").op = "down"
    BY CommandFields DEF Commands, Events, Minutes
  <2>4. ListOK(Added(left, <<Command("down")>>))
    BY <2>2, <2>3, AddedOK
  <2>5. PlaysIn(Added(left, <<Command("down")>>), {})
    <3>1. left \in Seq(Tasks) /\ Command("down") \in Tasks
      BY <2>2, <2>3, CommandFields DEF ListOK
    <3>2. \A i \in DOMAIN (left \o <<Command("down")>>) :
             \/ i \in DOMAIN left /\ (left \o <<Command("down")>>)[i] = left[i]
             \/ (left \o <<Command("down")>>)[i] = Command("down")
      BY <3>1
    <3>3. PlaysIn(left \o <<Command("down")>>, {})
      BY <2>2, <2>3, <3>2 DEF PlaysIn
    <3>4. QED BY <2>2, <3>3 DEF Added
  <2>6. ListOK(taskList') /\ PlaysIn(taskList', {})
    BY <2>1, <2>2, <2>4, <2>5
  <2>7. ListOK(taskList)'
    BY <2>1, <2>6 DEF ListOK
  <2>8. QED BY <2>1, <2>7 DEF WorldOK, ClosedKeepsOut
<1>3. CASE CloseGame(q) /\ gameState \in {"shutdown", "closed"}
  <2>1. taskList' = q /\ UNCHANGED <<events, dispatcher, scheduler, gameState, online, unsaved, asked>>
    BY <1>3 DEF CloseGame, Reached, world
  <2>2. QED BY <1>0, <2>1, ListReached DEF WorldOK, ClosedKeepsOut
<1>4. CASE CloseGame(q) /\ gameState \notin {"shutdown", "closed"}
  <2> DEFINE left == TasksFindNobody(q, online \ Staff)
  <2>1. /\ gameState' = "closed" /\ online' = online \cap Staff /\ unsaved' = {}
        /\ taskList' = left /\ UNCHANGED <<events, dispatcher, scheduler, asked>>
    BY <1>4 DEF CloseGame, Reached, SaveGameState
  <2>2. ListOK(left) /\ PlaysIn(left, online')
    <3>1. online \ (online \ Staff) = online'
      BY <2>1
    <3>2. QED BY <3>1, MarkedOK
  <2> HIDE DEF left
  <2>3. ListOK(taskList)'
    BY <2>1, <2>2, ListReached
  <2>4. QED BY <2>1, <2>3 DEF WorldOK, ClosedKeepsOut
<1>5. CASE OpenGame(q)
  <2>1. /\ taskList' = q /\ gameState' \in {gameState, "normal"}
        /\ UNCHANGED <<events, dispatcher, scheduler, online, unsaved, asked>>
    BY <1>5 DEF OpenGame, Reached
  <2>2. QED BY <1>0, <2>1, ListReached DEF WorldOK, ClosedKeepsOut
<1>6. CASE GoDown(q)
  <2>1. /\ taskList' = q /\ events' = [e \in Events |-> 0] /\ dispatcher' = "terminated"
        /\ scheduler' = "terminated" /\ UNCHANGED <<gameState, online, unsaved, asked>>
    BY <1>6 DEF GoDown, world
  <2>2. Saves(q, events') <= Saves(q, events) /\ Ticks(q, events') <= Ticks(q, events)
    <3> DEFINE none == [e \in Events |-> 0]
    <3>1. events \in [Events -> Nat] /\ none \in [Events -> Nat]
      BY DEF WorldOK
    <3>2. \A e \in Events : none[e] = 0 /\ events[e] \in Nat /\ Count(q, e) \in Nat
      BY <1>0, <3>1, CountFinite
    <3> HIDE DEF none
    <3>3. \A e \in Events : none[e] + Count(q, e) <= events[e] + Count(q, e)
      BY <3>2
    <3> DEFINE a(e) == events[e] + Count(q, e)
               b(e) == none[e] + Count(q, e)
    <3>4. \A e \in Events : a(e) \in Nat /\ b(e) \in Nat /\ b(e) <= a(e)
      BY <3>2, <3>3
    <3>5. /\ Saves(q, events) = a("save5") + a("save3") + a("save1") + a("save0")
          /\ Saves(q, none) = b("save5") + b("save3") + b("save1") + b("save0")
          /\ Ticks(q, events) = a("tick") /\ Ticks(q, none) = b("tick")
      BY DEF Saves, Ticks
    <3> HIDE DEF a, b
    <3>6. \A e \in {"save5", "save3", "save1", "save0", "tick"} : a(e) \in Nat /\ b(e) \in Nat /\ b(e) <= a(e)
      BY <3>4 DEF Events, Minutes
    <3>7. Saves(q, none) <= Saves(q, events) /\ Ticks(q, none) <= Ticks(q, events)
      BY <3>5, <3>6
    <3>8. QED BY <2>1, <3>7 DEF none
  <2>3. Saves(q, events') \in Nat /\ Ticks(q, events') \in Nat /\ Saves(q, events) \in Nat
        /\ Ticks(q, events) \in Nat
    BY <1>0, <2>1, SumsAreNat DEF WorldOK
  <2>4. Saves(q, events') <= 1 /\ Ticks(q, events') <= 1
    BY <2>2, <2>3 DEF ListOK
  <2>5. ListOK(taskList)'
    BY <2>1, <2>4 DEF ListOK
  <2>6. QED BY <2>1, <2>5 DEF WorldOK, ClosedKeepsOut
<1>7. QED BY <1>1, <1>2, <1>3, <1>4, <1>5, <1>6

\* The calls of the daily save and of the tick.
LEMMA ScheduledKeeps ==
    ASSUME WorldOK, NEW q, ListOK(q), NEW e \in Events,
           e \in Minutes => Saves(q, events) = 0, e = "tick" => Ticks(q, events) = 0,
           taskList' = q, events' = Scheduled(events, e), UNCHANGED <<online, asked>>
    PROVE  ListOK(taskList)' /\ events' \in [Events -> Nat]
<1>1. q \in Seq(Tasks) /\ events \in [Events -> Nat]
  BY DEF ListOK, WorldOK
<1>2. Saves(q, events) \in Nat /\ Ticks(q, events) \in Nat
  BY <1>1, SumsAreNat
<1>3. CASE scheduler = "running"
  <2>1. events' = [events EXCEPT ![e] = @ + 1]
    BY <1>3 DEF Scheduled
  <2>2. /\ events' \in [Events -> Nat]
        /\ Saves(q, events') = Saves(q, events) + (IF e \in Minutes THEN 1 ELSE 0)
        /\ Ticks(q, events') = Ticks(q, events) + (IF e = "tick" THEN 1 ELSE 0)
    <3>1. \A f \in Events : events[f] \in Nat /\ Count(q, f) \in Nat
      BY <1>1, CountFinite
    <3>2. events' \in [Events -> Nat]
      BY <1>1, <2>1
    <3>3. \A f \in Events : events'[f] = events[f] + (IF f = e THEN 1 ELSE 0)
      BY <1>1, <2>1, <3>1
    <3>4. \A f \in Events : events'[f] \in Nat
      BY <3>2
    <3>5. OneMoreOf(e, q, events, q, events')
      BY <3>1, <3>3, <3>4 DEF OneMoreOf
    <3>6. QED BY <1>1, <3>2, <3>5, OneMore
  <2>3. Saves(q, events') <= 1 /\ Ticks(q, events') <= 1
    <3>1. "tick" \notin Minutes
      BY DEF Minutes
    <3>2. QED BY <1>2, <2>2, <3>1 DEF ListOK
  <2>4. QED BY <2>2, <2>3 DEF ListOK
<1>4. CASE scheduler # "running"
  BY <1>1, <1>4 DEF Scheduled, ListOK
<1>5. QED BY <1>3, <1>4

\* A task is taken from the list and executed, by the loop or by the flush.
LEMMA ExecuteKeeps ==
    ASSUME WorldOK, ListOK(taskList), taskList # <<>>, Execute(Head(taskList), Tail(taskList))
    PROVE  WorldOK' /\ ListOK(taskList)'
<1>0. taskList \in Seq(Tasks) /\ events \in [Events -> Nat]
  BY DEF ListOK, WorldOK
<1>1. PICK t \in Tasks, q \in Seq(Tasks) : t = Head(taskList) /\ q = Tail(taskList)
  BY <1>0, CountTail
<1>2. /\ t = taskList[1] /\ 1 \in DOMAIN taskList
      /\ \A i \in DOMAIN q : i + 1 \in DOMAIN taskList /\ q[i] = taskList[i + 1]
  BY <1>0, <1>1
<1>3. /\ Saves(taskList, events) = Saves(q, events) + (IF t.op \in Minutes THEN 1 ELSE 0)
      /\ Ticks(taskList, events) = Ticks(q, events) + (IF t.op = "tick" THEN 1 ELSE 0)
  BY <1>0, <1>1, SumsTail
<1>4. Saves(q, events) \in Nat /\ Ticks(q, events) \in Nat
  BY <1>0, SumsAreNat
<1>5. /\ Saves(q, events) <= 1 /\ Ticks(q, events) <= 1
      /\ t.op \in Minutes => Saves(q, events) = 0
      /\ t.op = "tick" => Ticks(q, events) = 0
  BY <1>3, <1>4 DEF ListOK
<1>6. t.op # "otserv" /\ (t.op = "play" => t.who \in online /\ asked # "yes")
  BY <1>2 DEF ListOK, PlaysIn
<1>7. ListOK(q) /\ PlaysIn(q, online)
  BY <1>2, <1>5 DEF ListOK, PlaysIn
<1>8. Execute(t, q)
  BY <1>1
<1>9. /\ t.op \in Commands \cup {"login", "play", "logout"}
      /\ t.op \in {"login", "play", "logout"} => t.who \in Players
  BY TaskFields
<1> DEFINE Op == t.op
<1>10. CASE Op \in {"quit", "close", "open", "down"}
  <2>1. ShutDown(q) \/ CloseGame(q) \/ OpenGame(q) \/ GoDown(q)
    BY <1>8, <1>10 DEF Execute
  <2>2. QED BY <1>7, <2>1, CommandKeeps
<1>11. CASE Op \in {"save5", "save3", "save1"}
  <2>1. PICK e \in {"save3", "save1", "save0"} : Prepare(e, q)
    BY <1>8, <1>11 DEF Execute
  <2>2. /\ gameState' \in {gameState, "closing"} /\ events' = Scheduled(events, e) /\ taskList' = q
        /\ UNCHANGED <<online, unsaved, asked, dispatcher, scheduler>>
    BY <2>1 DEF Prepare
  <2>3. e \in Events /\ e \in Minutes /\ e # "tick" /\ Op \in Minutes
    BY <1>11, <2>1 DEF Events, Minutes
  <2>4. ListOK(taskList)' /\ events' \in [Events -> Nat]
    BY <1>5, <1>7, <2>2, <2>3, ScheduledKeeps
  <2>5. QED BY <2>2, <2>4 DEF WorldOK, ClosedKeepsOut
<1>12. CASE Op = "save0"
  <2>1. GlobalSave(q) /\ UNCHANGED <<gameState, online, unsaved, asked, dispatcher, scheduler>>
    BY <1>8, <1>12 DEF Execute, GlobalSave, world
  <2>2. {"quit", "close", "open"} \subseteq Commands \ (Events \cup {"otserv"})
    BY DEF Commands, Events, Minutes
  <2>3. CASE ShutdownAtSave
    <3>1. taskList' = Added(q, <<Command("quit")>>) /\ UNCHANGED events
      BY <2>1, <2>3 DEF GlobalSave
    <3>2. ListOK(taskList')
      BY <1>7, <2>2, <3>1, AddedOK
    <3>3. ListOK(taskList)'
      BY <2>1, <3>1, <3>2 DEF ListOK
    <3>4. QED BY <2>1, <3>1, <3>3 DEF WorldOK, ClosedKeepsOut
  <2>4. CASE ~ShutdownAtSave
    <3> DEFINE r == Added(q, <<Command("close"), Command("open")>>)
    <3>1. taskList' = r /\ events' = Scheduled(events, "save5")
      BY <2>1, <2>4 DEF GlobalSave
    <3>2. ListOK(r)
      BY <1>7, <2>2, AddedOK
    <3>3. Saves(r, events) = 0
      <4>1. PICK c \in Tasks, d \in Tasks : c = Command("close") /\ d = Command("open")
                                            /\ c.op = "close" /\ d.op = "open"
        BY CommandFields DEF Commands
      <4>2. r \in {q, Append(Append(q, c), d)} /\ Append(q, c) \in Seq(Tasks)
        <5>1. q \o <<c, d>> = Append(Append(q, c), d) /\ Append(q, c) \in Seq(Tasks)
          OBVIOUS
        <5>2. QED BY <4>1, <5>1 DEF Added
      <4>3. Saves(q, events) = 0
        BY <1>5, <1>12 DEF Minutes
      <4> HIDE DEF r
      <4>4. Saves(Append(q, c), events) = Saves(q, events) + (IF c.op \in Minutes THEN 1 ELSE 0)
        BY <1>0, SumsAppend
      <4>5. Saves(Append(Append(q, c), d), events)
              = Saves(Append(q, c), events) + (IF d.op \in Minutes THEN 1 ELSE 0)
        BY <1>0, <4>2, SumsAppend
      <4>6. c.op \notin Minutes /\ d.op \notin Minutes
        BY <4>1 DEF Minutes
      <4>7. Saves(Append(q, c), events) = 0
        BY <4>3, <4>4, <4>6
      <4>8. Saves(Append(Append(q, c), d), events) = 0
        BY <4>5, <4>6, <4>7
      <4>9. QED BY <4>2, <4>3, <4>8
    <3> HIDE DEF r
    <3>4. "save5" \in Events /\ "save5" # "tick"
      BY DEF Events, Minutes
    <3>5. ListOK(taskList)' /\ events' \in [Events -> Nat]
      BY <2>1, <3>1, <3>2, <3>3, <3>4, ScheduledKeeps
    <3>6. QED BY <2>1, <3>5 DEF WorldOK, ClosedKeepsOut
  <2>5. QED BY <2>3, <2>4
<1>13. CASE Op = "tick"
  <2>1. /\ taskList' = q /\ events' = Scheduled(events, "tick")
        /\ UNCHANGED <<gameState, online, unsaved, asked, dispatcher, scheduler>>
    BY <1>8, <1>13 DEF Execute, world
  <2>2. "tick" \in Events /\ "tick" \notin Minutes
    BY DEF Events, Minutes
  <2>3. ListOK(taskList)' /\ events' \in [Events -> Nat]
    BY <1>5, <1>7, <1>13, <2>1, <2>2, ScheduledKeeps
  <2>4. QED BY <2>1, <2>3 DEF WorldOK, ClosedKeepsOut
<1>14. CASE Op \in {"save", "nobody"}
  <2>1. /\ taskList' = q /\ unsaved' \in {unsaved, {}}
        /\ UNCHANGED <<events, gameState, online, asked, dispatcher, scheduler>>
    BY <1>8, <1>14 DEF Execute, Reached, SaveGameState, world
  <2>2. ListOK(taskList)'
    BY <1>7, <2>1, ListReached
  <2>3. QED BY <2>1, <2>2 DEF WorldOK, ClosedKeepsOut
<1>15. CASE Op \in {"login", "play", "logout"}
  <2>0. Play(t, q) /\ t.who \in Players
    BY <1>8, <1>9, <1>15 DEF Execute
  <2>1. CASE Op = "login"
    <3>1. /\ online' = (IF MayEnter(t.who) THEN online \cup {t.who} ELSE online) /\ taskList' = q
          /\ UNCHANGED <<events, dispatcher, scheduler, unsaved, gameState, asked>>
      BY <2>0, <2>1 DEF Play, Reached
    <3>2. PlaysIn(q, online')
      BY <1>7, <3>1 DEF PlaysIn
    <3>3. ListOK(taskList)'
      BY <1>7, <3>1, <3>2, ListReached
    <3>4. QED BY <2>0, <3>1, <3>3 DEF WorldOK, ClosedKeepsOut, MayEnter
  <2>2. CASE Op = "play"
    <3>1. /\ unsaved' = (IF t.who \in online THEN unsaved \cup {t.who} ELSE unsaved) /\ taskList' = q
          /\ UNCHANGED <<events, dispatcher, scheduler, online, gameState, asked>>
      BY <2>0, <2>2 DEF Play, Reached
    <3>2. ListOK(taskList)'
      BY <1>7, <3>1, ListReached
    <3>3. QED BY <1>6, <2>2, <3>1, <3>2 DEF WorldOK, ClosedKeepsOut
  <2>3. CASE Op = "logout"
    <3>1. /\ online' = online \ {t.who} /\ unsaved' = unsaved \ {t.who}
          /\ taskList' = TasksFindNobody(q, {t.who})
          /\ UNCHANGED <<events, dispatcher, scheduler, gameState, asked>>
      BY <2>0, <2>3 DEF Play, Reached
    <3>2. ListOK(taskList') /\ PlaysIn(taskList', online')
      BY <1>7, <3>1, MarkedOK
    <3>3. ListOK(taskList)'
      BY <3>1, <3>2, ListReached
    <3>4. QED BY <3>1, <3>3 DEF WorldOK, ClosedKeepsOut
  <2>4. QED BY <1>15, <2>1, <2>2, <2>3
<1>16. QED
  BY <1>6, <1>9, <1>10, <1>11, <1>12, <1>13, <1>14, <1>15 DEF Commands, Events, Minutes

-----------------------------------------------------------------------------
(* IInv is inductive: one step per action.                                 *)

LEMMA IInvParts ==
    ASSUME IInv
    PROVE  /\ WorldOK /\ taskList \in Seq(Tasks)
           /\ ~Fresh => ListOK(taskList)
<1>1. taskList \in Seq(Tasks) /\ events \in [Events -> Nat]
  BY DEF IInv, TypeOK, Tasks
<1>2. WorldOK
  BY <1>1 DEF IInv, TypeOK, TasksTrue, WorldOK
<1>3. ~Fresh => ListOK(taskList)
  BY <1>1 DEF IInv, TasksTrue, Chains, ListOK, Fresh
<1>4. QED BY <1>1, <1>2, <1>3

\* What remains of the type once the world and the list are well.
ThreadsOK ==
    /\ main \in {"loading", "woken", "serving", "joinDispatcher", "joinScheduler", "ended"}
    /\ handler \in {"none", "opening"} /\ ports \in {"none", "bound"}
    /\ dpc \in {"idle", "binding", "starting", "flush", "stuck", "ended"}
    /\ spc \in {"test", "asleep", "timed", "ended"}
    /\ signals \in 0..MaxSignals /\ requests \in 0..MaxRequests
    /\ main = "serving" => ports = "bound"

\* After the game is started nothing of the boot is left.
Started == WorldOK /\ ListOK(taskList) /\ ThreadsOK /\ dpc \notin {"binding", "starting"}

LEMMA StartedKeeps == Started => IInv
<1> SUFFICES ASSUME WorldOK, ListOK(taskList), ThreadsOK, dpc \notin {"binding", "starting"}
             PROVE  IInv
  BY DEF Started
<1>1. taskList \in Seq(Tasks) /\ events \in [Events -> Nat]
  BY DEF ListOK, WorldOK
<1>2. \A e \in Events : events[e] \in 0..3
  <2> SUFFICES ASSUME NEW e \in Events PROVE events[e] \in 0..3
    OBVIOUS
  <2> DEFINE a(f) == events[f] + Count(taskList, f)
  <2>1. \A f \in Events : events[f] \in Nat /\ Count(taskList, f) \in Nat
    BY <1>1, CountFinite
  <2>2. \A f \in Events : a(f) \in Nat /\ events[f] <= a(f)
    BY <2>1
  <2>3. /\ Saves(taskList, events) = a("save5") + a("save3") + a("save1") + a("save0")
        /\ Ticks(taskList, events) = a("tick")
    BY DEF Saves, Ticks
  <2> HIDE DEF a
  <2>4. \A f \in {"save5", "save3", "save1", "save0", "tick"} : a(f) \in Nat
    BY <2>2 DEF Events, Minutes
  <2>5. \A f \in {"save5", "save3", "save1", "save0", "tick"} : a(f) <= 1
    BY <2>3, <2>4 DEF ListOK
  <2>6. a(e) <= 1
    BY <2>5 DEF Events, Minutes
  <2>7. QED BY <2>1, <2>2, <2>6
<1>3. TypeOK
  BY <1>1, <1>2 DEF TypeOK, WorldOK, ThreadsOK, Tasks
<1>4. ~Fresh
  BY DEF Fresh, ListOK
<1>5. Boot
  BY <1>4 DEF Boot, ThreadsOK
<1>6. QED BY <1>3, <1>5 DEF IInv, TasksTrue, Chains, WorldOK, ListOK

\* The steps that leave the world and the queues alone, and SIGUSR2's write.
LEMMA QuietSteps ==
    ASSUME IInv, UNCHANGED <<dpc, ports, queues, online, unsaved, asked>>,
           gameState' \in {gameState, "normal"},
           main' \in {"loading", "woken", "serving", "joinDispatcher", "joinScheduler", "ended"},
           handler' \in {"none", "opening"}, spc' \in {"test", "asleep", "timed", "ended"},
           signals' \in 0..MaxSignals, requests' \in 0..MaxRequests,
           main' = "serving" => ports = "bound"
    PROVE  IInv'
<1> USE DEF queues
<1>1. TypeOK'
  BY DEF IInv, TypeOK
<1>2. Boot'
  BY DEF IInv, Boot, Fresh
<1>3. TasksTrue' /\ Chains' /\ ClosedKeepsOut'
  BY DEF IInv, TasksTrue, Chains, ClosedKeepsOut, PlaysIn
<1>4. QED BY <1>1, <1>2, <1>3 DEF IInv

LEMMA ThreadSteps ==
    ASSUME IInv, \/ TestState \/ WakeScheduler \/ WakeSpuriously \/ StartServices \/ NetworkFails
                 \/ Join \/ SignalOpen \/ WriteOpen
    PROVE  IInv'
<1>0. /\ main \in {"loading", "woken", "serving", "joinDispatcher", "joinScheduler", "ended"}
      /\ handler \in {"none", "opening"} /\ spc \in {"test", "asleep", "timed", "ended"}
      /\ signals \in 0..MaxSignals /\ requests \in 0..MaxRequests
      /\ main = "serving" => ports = "bound"
      /\ MaxSignals \in Nat
  BY ServerAssumption DEF IInv, TypeOK, Boot
<1> USE DEF queues, world
<1>1. CASE TestState \/ WakeScheduler
  BY <1>0, <1>1, QuietSteps DEF TestState, WakeScheduler
<1>2. CASE WakeSpuriously \/ StartServices \/ NetworkFails \/ Join
  BY <1>0, <1>2, QuietSteps DEF WakeSpuriously, StartServices, NetworkFails, Join
<1>3. CASE SignalOpen
  <2>1. signals' \in 0..MaxSignals
    BY <1>0, <1>3 DEF SignalOpen
  <2>2. QED BY <1>0, <1>3, <2>1, QuietSteps DEF SignalOpen
<1>4. CASE WriteOpen
  BY <1>0, <1>4, QuietSteps DEF WriteOpen
<1>5. QED BY <1>1, <1>2, <1>3, <1>4

\* The start of the game, up to its first events.
LEMMA BootSteps ==
    ASSUME IInv, LoadGame \/ BindServices \/ StartGame
    PROVE  IInv'
<1>0. taskList \in Seq(Tasks) /\ TypeOK /\ Boot /\ WorldOK
  BY IInvParts DEF IInv
<1>1. CASE LoadGame
  <2>1. Fresh
    <3>1. taskList[1].op = "otserv" /\ 1 \in DOMAIN taskList
      BY <1>0, <1>1 DEF LoadGame
    <3>2. QED BY <3>1 DEF Fresh
  <2>2. taskList' = <<>>
    BY <1>0, <1>1, <2>1 DEF LoadGame, Boot
  <2>3. TypeOK'
    BY <1>0, <1>1, <2>2 DEF LoadGame, TypeOK
  <2>4. Boot'
    BY <1>0, <1>1, <2>1, <2>2 DEF LoadGame, Boot, Fresh
  <2>5. TasksTrue' /\ ClosedKeepsOut'
    BY <1>0, <1>1, <2>1, <2>2 DEF LoadGame, Boot, TasksTrue, PlaysIn, ClosedKeepsOut
  <2>6. Chains'
    <3>1. \A e \in Events : Count(taskList', e) = 0 /\ events'[e] = 0
      BY <1>0, <1>1, <2>1, <2>2, CountEmpty DEF LoadGame, Boot
    <3>2. QED BY <3>1 DEF Chains, Saves, Ticks, Events, Minutes
  <2>7. QED BY <2>3, <2>4, <2>5, <2>6 DEF IInv
<1>2. CASE BindServices
  <2> USE <1>2 DEF BindServices, queues
  <2>1. ~Fresh /\ main # "serving"
    BY <1>0 DEF Boot
  <2>2. TypeOK'
    BY <1>0 DEF TypeOK
  <2>3. Boot'
    BY <1>0, <2>1 DEF Boot, Fresh
  <2>4. TasksTrue' /\ Chains' /\ ClosedKeepsOut'
    BY DEF IInv, TasksTrue, Chains, ClosedKeepsOut, PlaysIn
  <2>5. QED BY <2>2, <2>3, <2>4 DEF IInv
<1>3. CASE StartGame
  <2>0. ~Fresh
    BY <1>0, <1>3 DEF Boot, StartGame
  <2>1. /\ events' = [events EXCEPT !["tick"] = 1, !["save5"] = 1]
        /\ gameState' \in {"normal", "closed"} /\ dpc' = "idle" /\ main' \in {main, "woken"}
        /\ UNCHANGED <<handler, spc, ports, taskList, dispatcher, scheduler, online, unsaved,
                       asked, signals, requests>>
    BY <1>3 DEF StartGame
  <2>2. /\ online = {} /\ unsaved = {} /\ asked = "no" /\ \A e \in Events : events[e] = 0
        /\ \A i \in DOMAIN taskList : taskList[i].op \notin Events
    BY <1>0, <1>3 DEF StartGame, Boot
  <2>3. \A e \in Events : Count(taskList, e) = 0
    <3>1. \A e \in Events : {i \in DOMAIN taskList : taskList[i].op = e} = {}
      BY <2>2
    <3>2. QED BY <3>1, FS_EmptySet DEF Count
  <2>4. /\ events' \in [Events -> Nat] /\ events'["save5"] = 1 /\ events'["tick"] = 1
        /\ events'["save3"] = 0 /\ events'["save1"] = 0 /\ events'["save0"] = 0
    <3>1. events \in [Events -> Nat]
      BY <1>0 DEF WorldOK
    <3>2. QED BY <2>1, <2>2, <3>1 DEF Events, Minutes
  <2>5. Saves(taskList, events') = 1 /\ Ticks(taskList, events') = 1
    BY <2>3, <2>4 DEF Saves, Ticks, Events, Minutes
  <2>6. ListOK(taskList)'
    <3>1. ListOK(taskList)
      BY <2>0, IInvParts
    <3>2. QED BY <3>1, <2>1, <2>5 DEF ListOK
  <2>7. WorldOK'
    BY <1>0, <2>1, <2>2, <2>4 DEF WorldOK, ClosedKeepsOut
  <2>8. ThreadsOK'
    BY <1>0, <2>1 DEF TypeOK, Boot, ThreadsOK
  <2>9. Started'
    BY <2>1, <2>6, <2>7, <2>8 DEF Started
  <2>10. QED BY <2>9, StartedKeeps, PTL
<1>4. QED BY <1>1, <1>2, <1>3

\* A connection or a signal hands a task to the dispatcher.
LEMMA AddSteps ==
    ASSUME IInv, (\E r \in Requests : Request(r)) \/ (\E c \in Signals \ {"open"} : Signal(c))
    PROVE  IInv'
<1>0. taskList \in Seq(Tasks) /\ TypeOK /\ Boot /\ WorldOK
  BY IInvParts DEF IInv
<1>1. PICK t \in Tasks : /\ taskList' = Added(taskList, <<t>>)
                         /\ t.op \notin Events \cup {"otserv"}
                         /\ t.op = "play" => t.who \in online
  <2>1. ASSUME NEW r \in Requests, Request(r)
        PROVE  /\ r \in Tasks /\ taskList' = Added(taskList, <<r>>)
               /\ r.op \notin Events \cup {"otserv"} /\ (r.op = "play" => r.who \in online)
    BY <2>1 DEF Tasks, Request, Requests, Events, Minutes
  <2>2. ASSUME NEW c \in Signals \ {"open"}, Signal(c)
        PROVE  /\ Command(c) \in Tasks /\ taskList' = Added(taskList, <<Command(c)>>)
               /\ Command(c).op \notin Events \cup {"otserv"} /\ Command(c).op # "play"
    <3>1. c \in {"save", "close", "quit", "down"}
      BY ServerAssumption
    <3>2. Command(c) \in Tasks /\ Command(c).op = c
      BY <3>1, CommandFields DEF Commands
    <3>3. QED BY <2>2, <3>1, <3>2 DEF Signal, Events, Minutes
  <2>3. QED BY <2>1, <2>2
<1>2. /\ UNCHANGED <<main, handler, dpc, spc, ports, dispatcher, events, scheduler,
                     gameState, online, unsaved, asked>>
      /\ main = "serving"
      /\ signals' \in 0..MaxSignals /\ requests' \in 0..MaxRequests
  <2>0. signals \in 0..MaxSignals /\ requests \in 0..MaxRequests /\ MaxSignals \in Nat /\ MaxRequests \in Nat
    BY <1>0, ServerAssumption DEF TypeOK
  <2>1. CASE \E r \in Requests : Request(r)
    BY <2>0, <2>1 DEF Request, threads, world
  <2>2. CASE \E c \in Signals \ {"open"} : Signal(c)
    BY <2>0, <2>2 DEF Signal, threads, world
  <2>3. QED BY <2>1, <2>2
<1>3. ~Fresh /\ dpc # "binding"
  BY <1>0, <1>2 DEF Boot
<1>4. ListOK(taskList)
  BY <1>3, IInvParts
<1>5. ListOK(taskList')
  <2>1. CASE dispatcher = "running"
    <3>1. taskList' = Append(taskList, t)
      BY <1>0, <1>1, <2>1 DEF Added
    <3>2. asked # "yes"
      BY <1>0, <2>1 DEF WorldOK
    <3>3. QED BY <1>0, <1>1, <1>4, <3>1, <3>2, AppendOK
  <2>2. CASE dispatcher # "running"
    BY <1>1, <1>4, <2>2 DEF Added
  <2>3. QED BY <2>1, <2>2
<1>6. ListOK(taskList)' /\ WorldOK'
  BY <1>0, <1>2, <1>5 DEF ListOK, WorldOK, ClosedKeepsOut
<1>7. ThreadsOK'
  BY <1>0, <1>2 DEF TypeOK, Boot, ThreadsOK
<1>8. CASE dpc = "starting"
  <2>1. /\ online = {} /\ unsaved = {} /\ asked = "no"
        /\ \A e \in Events : events[e] = 0 /\ \A i \in DOMAIN taskList : taskList[i].op \notin Events
    BY <1>0, <1>8 DEF Boot
  <2>2. \A i \in DOMAIN taskList' : taskList'[i] = t \/ (i \in DOMAIN taskList /\ taskList'[i] = taskList[i])
    BY <1>0, <1>1 DEF Added
  <2>3. \A i \in DOMAIN taskList' : taskList'[i].op \notin Events
    BY <1>1, <2>1, <2>2
  <2>4. ~Fresh'
    BY <1>6 DEF ListOK, Fresh
  <2>5. Boot'
    BY <1>2, <1>7, <1>8, <2>1, <2>3, <2>4 DEF Boot, ThreadsOK
  <2>6. TypeOK'
    BY <1>0, <1>2, <1>6 DEF TypeOK, ListOK, Tasks
  <2>7. QED BY <2>5, <2>6, <1>6 DEF IInv, TasksTrue, Chains, WorldOK, ListOK
<1>9. CASE dpc # "starting"
  <2>1. dpc' \notin {"binding", "starting"}
    BY <1>2, <1>3, <1>9
  <2>2. Started'
    BY <1>6, <1>7, <2>1 DEF Started
  <2>3. QED BY <2>2, StartedKeeps, PTL
<1>10. QED BY <1>8, <1>9

\* The loop and the flush execute a task.
LEMMA TaskSteps ==
    ASSUME IInv, RunTask \/ Flush
    PROVE  IInv'
<1>0. taskList \in Seq(Tasks) /\ TypeOK /\ Boot /\ WorldOK
  BY IInvParts DEF IInv
<1>1. ~Fresh
  <2>1. CASE RunTask
    <3>1. Fresh => Head(taskList).op = "otserv"
      BY <1>0, CommandFields DEF Boot, Commands
    <3>2. QED BY <2>1, <3>1 DEF RunTask
  <2>2. CASE Flush
    BY <1>0, <2>2 DEF Flush, Boot
  <2>3. QED BY <2>1, <2>2
<1>2. ListOK(taskList)
  BY <1>1, IInvParts
<1>3. /\ dpc' \in {"idle", "flush", "stuck", "ended"} /\ UNCHANGED <<main, handler, spc, ports, signals, requests>>
      /\ \/ taskList # <<>> /\ Execute(Head(taskList), Tail(taskList))
         \/ UNCHANGED <<queues, world, asked>>
  BY DEF RunTask, Flush
<1>4. ListOK(taskList)' /\ WorldOK'
  <2>1. CASE taskList # <<>> /\ Execute(Head(taskList), Tail(taskList))
    BY <1>0, <1>2, <2>1, ExecuteKeeps
  <2>2. CASE UNCHANGED <<queues, world, asked>>
    BY <1>0, <1>2, <2>2 DEF queues, world, ListOK, WorldOK, ClosedKeepsOut
  <2>3. QED BY <1>3, <2>1, <2>2
<1>5. ThreadsOK'
  BY <1>0, <1>3 DEF TypeOK, Boot, ThreadsOK
<1>6. dpc' \notin {"binding", "starting"}
  BY <1>3
<1>7. Started'
  BY <1>4, <1>5, <1>6 DEF Started
<1>8. QED BY <1>7, StartedKeeps, PTL

\* The scheduler hands over an event whose time has come.
LEMMA FireStep ==
    ASSUME IInv, FireEvent
    PROVE  IInv'
<1>0. taskList \in Seq(Tasks) /\ TypeOK /\ Boot /\ WorldOK /\ events \in [Events -> Nat]
  BY IInvParts DEF IInv, WorldOK
<1>1. CASE UNCHANGED <<events, taskList>>
  <2>1. /\ UNCHANGED <<dpc, ports, queues, online, unsaved, asked, gameState, main, handler,
                       signals, requests>>
        /\ spc' = "test"
    BY <1>1 DEF FireEvent, queues, world
  <2>2. QED BY <1>0, <2>1, QuietSteps DEF TypeOK, Boot
<1>2. CASE ~UNCHANGED <<events, taskList>>
  <2>1. PICK e \in Queued : /\ events' = [events EXCEPT ![e] = @ - 1]
                            /\ taskList' = Added(taskList, <<Command(e)>>)
    BY <1>2 DEF FireEvent
  <2>2. /\ UNCHANGED <<main, handler, dpc, ports, dispatcher, scheduler, gameState, online,
                       unsaved, asked, signals, requests>>
        /\ spc' = "test"
    BY DEF FireEvent, world
  <2>3. e \in Events /\ events[e] > 0
    BY <2>1 DEF Queued
  <2>4. ~Fresh /\ dpc \notin {"binding", "starting"}
    BY <1>0, <2>3 DEF Boot
  <2>5. ListOK(taskList)
    BY <2>4, IInvParts
  <2>6. /\ events' \in [Events -> Nat]
        /\ Saves(taskList, events) = Saves(taskList, events') + (IF e \in Minutes THEN 1 ELSE 0)
        /\ Ticks(taskList, events) = Ticks(taskList, events') + (IF e = "tick" THEN 1 ELSE 0)
    <3>1. \A f \in Events : events[f] \in Nat /\ Count(taskList, f) \in Nat
      BY <1>0, CountFinite
    <3>2. events' \in [Events -> Nat]
      BY <1>0, <2>1, <2>3
    <3>3. \A f \in Events : events[f] = events'[f] + (IF f = e THEN 1 ELSE 0)
      BY <1>0, <2>1, <3>1
    <3>4. \A f \in Events : events'[f] \in Nat
      BY <3>2
    <3>5. OneMoreOf(e, taskList, events', taskList, events)
      BY <3>1, <3>3, <3>4 DEF OneMoreOf
    <3>6. QED BY <1>0, <3>2, <3>5, OneMore
  <2>7. PICK t \in Tasks : t = Command(e) /\ t.op = e
    BY <2>3, CommandFields DEF Commands
  <2>8. Saves(taskList', events') <= 1 /\ Ticks(taskList', events') <= 1
    <3>1. Saves(taskList, events') \in Nat /\ Ticks(taskList, events') \in Nat
      BY <1>0, <2>6, SumsAreNat
    <3>2. CASE taskList' = Append(taskList, t)
      <4>1. /\ Saves(Append(taskList, t), events')
                 = Saves(taskList, events') + (IF t.op \in Minutes THEN 1 ELSE 0)
            /\ Ticks(Append(taskList, t), events')
                 = Ticks(taskList, events') + (IF t.op = "tick" THEN 1 ELSE 0)
        BY <1>0, <2>6, SumsAppend
      <4>2. Saves(taskList', events') = Saves(taskList, events)
        BY <2>6, <2>7, <3>2, <4>1
      <4>3. Ticks(taskList', events') = Ticks(taskList, events)
        BY <2>6, <2>7, <3>2, <4>1
      <4>4. QED BY <2>5, <4>2, <4>3 DEF ListOK
    <3>3. CASE taskList' = taskList
      <4>1. Saves(taskList, events') <= Saves(taskList, events)
        BY <2>6, <3>1
      <4>2. Ticks(taskList, events') <= Ticks(taskList, events)
        BY <2>6, <3>1
      <4>3. Saves(taskList, events) \in Nat /\ Ticks(taskList, events) \in Nat
        BY <1>0, SumsAreNat
      <4>4. QED BY <2>5, <3>1, <3>3, <4>1, <4>2, <4>3 DEF ListOK
    <3>4. QED BY <1>0, <2>1, <2>7, <3>2, <3>3 DEF Added
  <2>9. /\ taskList' \in Seq(Tasks)
        /\ \A i \in DOMAIN taskList' : taskList'[i] = t \/ (i \in DOMAIN taskList /\ taskList'[i] = taskList[i])
    BY <1>0, <2>1, <2>7 DEF Added
  <2>10. t.op \notin {"play", "otserv"}
    BY <2>3, <2>7 DEF Events, Minutes
  <2>11. ListOK(taskList)'
    BY <2>2, <2>5, <2>8, <2>9, <2>10 DEF ListOK, PlaysIn
  <2>12. WorldOK'
    BY <1>0, <2>2, <2>6 DEF WorldOK, ClosedKeepsOut
  <2>13. ThreadsOK'
    BY <1>0, <2>2 DEF TypeOK, Boot, ThreadsOK
  <2>14. Started'
    BY <2>2, <2>4, <2>11, <2>12, <2>13 DEF Started
  <2>15. QED BY <2>14, StartedKeeps, PTL
<1>3. QED BY <1>1, <1>2

LEMMA IInvInductive == IInv /\ [Next]_vars => IInv'
<1> SUFFICES ASSUME IInv, [Next]_vars PROVE IInv'
  OBVIOUS
<1>1. CASE TestState \/ WakeScheduler \/ WakeSpuriously \/ StartServices \/ NetworkFails
           \/ Join \/ SignalOpen \/ WriteOpen
  BY <1>1, ThreadSteps
<1>2. CASE LoadGame \/ BindServices \/ StartGame
  BY <1>2, BootSteps
<1>3. CASE (\E r \in Requests : Request(r)) \/ (\E c \in Signals \ {"open"} : Signal(c))
  BY <1>3, AddSteps
<1>4. CASE RunTask \/ Flush
  BY <1>4, TaskSteps
<1>5. CASE FireEvent
  BY <1>5, FireStep
<1>6. CASE UNCHANGED vars
  <2>1. UNCHANGED <<dpc, ports, queues, online, unsaved, asked, gameState, main, handler, spc,
                    signals, requests>>
    BY <1>6 DEF vars, threads, world
  <2>2. QED BY <2>1, QuietSteps DEF IInv, TypeOK, Boot
<1>7. QED BY <1>1, <1>2, <1>3, <1>4, <1>5, <1>6 DEF Next, DispatcherThread, SchedulerThread, MainThread

LEMMA IInvHolds == Spec => []IInv
<1>1. QED BY InitIInv, IInvInductive, PTL DEF Spec

-----------------------------------------------------------------------------

\* The server's state is well typed: no event is scheduled more than three times.
THEOREM TypeCorrect == Spec => []TypeOK
<1>1. IInv => TypeOK
  BY DEF IInv
<1>2. QED BY <1>1, IInvHolds, PTL

\* A shutdown that was asked for leaves nobody's progress unsaved, however many
\* players had queued what and whichever way it was asked for.
THEOREM QuitAlwaysSaves == Spec => []QuitSaves
<1>1. IInv => QuitSaves
  BY DEF IInv, TasksTrue, QuitSaves
<1>2. QED BY <1>1, IInvHolds, PTL

\* Only the staff is in a closed game.
THEOREM ClosedStaysClosed == Spec => []ClosedKeepsOut
<1>1. IInv => ClosedKeepsOut
  BY DEF IInv
<1>2. QED BY <1>1, IInvHolds, PTL

\* There is never more than one global save under way.
THEOREM OneSave == Spec => []OneGlobalSave
<1>1. IInv => OneGlobalSave
  BY DEF IInv, Chains, Saves, Count, OneGlobalSave, Chain
<1>2. QED BY <1>1, IInvHolds, PTL
=============================================================================
