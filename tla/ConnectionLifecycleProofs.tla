----------------------- MODULE ConnectionLifecycleProofs -----------------------
(***************************************************************************)
(* Theorems about ConnectionLifecycle, for any number of connections,      *)
(* permits, players and slots of the channel: its types, and that permits, *)
(* places and clients are never lost or doubled.                           *)
(***************************************************************************)
EXTENDS ConnectionLifecycle, FiniteSetTheorems, TLAPS

Elements(q) == {q[i] : i \in DOMAIN q}

Distinct(q) == \A i, j \in DOMAIN q : q[i] = q[j] => i = j

(***************************************************************************)
(* The inductive invariant.  Which place belongs to whom is kept only      *)
(* because a connection is in one part of the system at a time: a fresh    *)
(* connection waits once in the listener, then it has a task, then it is   *)
(* once in the channel or in the world, its task having finished.  The     *)
(* ranges of the counters follow from what they count.                     *)
(***************************************************************************)
States ==
    /\ backlog \in Seq(Connections)
    /\ acceptor \in {"acquiring", "accepting"}
    /\ permits \in Nat
    /\ task \in [Connections -> TaskStates]
    /\ playerCount \in 0..MaxPlayers
    /\ newClients \in Seq(Connections)
    /\ taking \in 0..ChannelSize
    /\ playing \subseteq Connections

BacklogFresh ==
    /\ Distinct(backlog)
    /\ \A c \in Elements(backlog) : task[c] = "none" /\ c \notin Elements(newClients) \cup playing

ClientsApart ==
    /\ Distinct(newClients)
    /\ Len(newClients) <= ChannelSize
    /\ Elements(newClients) \cap playing = {}
    /\ \A c \in Elements(newClients) \cup playing : task[c] \in {"finished", "none"}

Owners == {c \in Connections : task[c] \in Admitted} \cup Elements(newClients) \cup playing

Places ==
    /\ playerCount = Cardinality(cleanups)
    /\ cleanups = Owners

IInv ==
    /\ States
    /\ PermitsExact
    /\ BacklogFresh
    /\ ClientsApart
    /\ Places

-----------------------------------------------------------------------------
\* Appending a new element to a sequence without repetitions adds it to its
\* elements and repeats nothing.
LEMMA AppendElements ==
    ASSUME NEW S, NEW q \in Seq(S), NEW x \in S
    PROVE  /\ Append(q, x) \in Seq(S)
           /\ Len(Append(q, x)) = Len(q) + 1
           /\ Elements(Append(q, x)) = Elements(q) \cup {x}
           /\ Distinct(q) /\ x \notin Elements(q) => Distinct(Append(q, x))
  <1> DEFINE r == Append(q, x)
  <1>1. r \in Seq(S) /\ Len(r) = Len(q) + 1
    OBVIOUS
  <1>2. /\ DOMAIN q = 1..Len(q) /\ DOMAIN r = 1..Len(q) + 1 /\ Len(q) \in Nat
        /\ \A i \in DOMAIN q : r[i] = q[i]
        /\ r[Len(q) + 1] = x
    OBVIOUS
  <1> HIDE DEF r
  <1>3. Elements(r) = Elements(q) \cup {x}
    BY <1>2 DEF Elements
  <1>4. ASSUME Distinct(q), x \notin Elements(q)
        PROVE  Distinct(r)
    BY <1>2, <1>4 DEF Distinct, Elements
  <1>5. QED
    BY <1>1, <1>3, <1>4 DEF r

\* Taking the head of a sequence without repetitions takes it from its elements.
LEMMA TailElements ==
    ASSUME NEW S, NEW q \in Seq(S), q # <<>>, Distinct(q)
    PROVE  /\ Head(q) \in S
           /\ Head(q) \in Elements(q)
           /\ Tail(q) \in Seq(S)
           /\ Len(Tail(q)) = Len(q) - 1
           /\ Elements(Tail(q)) = Elements(q) \ {Head(q)}
           /\ Distinct(Tail(q))
  <1> DEFINE r == Tail(q)
  <1>1. r \in Seq(S) /\ Len(r) = Len(q) - 1 /\ Len(q) \in Nat \ {0} /\ Head(q) \in S
    OBVIOUS
  <1>2. /\ DOMAIN q = 1..Len(q) /\ DOMAIN r = 1..Len(q) - 1
        /\ \A i \in DOMAIN r : r[i] = q[i + 1]
        /\ Head(q) = q[1]
    OBVIOUS
  <1> HIDE DEF r
  <1>3. Head(q) \in Elements(q)
    BY <1>1, <1>2 DEF Elements
  <1>4. ASSUME NEW y \in Elements(r)
        PROVE  y \in Elements(q) \ {Head(q)}
    <2>1. PICK i \in DOMAIN r : y = q[i + 1]
      BY <1>2, <1>4 DEF Elements
    <2>2. i + 1 \in DOMAIN q /\ 1 \in DOMAIN q /\ i + 1 # 1
      BY <1>1, <1>2
    <2>3. QED
      BY <2>1, <2>2, <1>2 DEF Elements, Distinct
  <1>5. ASSUME NEW y \in Elements(q) \ {Head(q)}
        PROVE  y \in Elements(r)
    <2>1. PICK i \in DOMAIN q : y = q[i]
      BY DEF Elements
    <2>2. i - 1 \in DOMAIN r /\ r[i - 1] = q[i]
      BY <2>1, <1>1, <1>2
    <2>3. QED
      BY <2>1, <2>2 DEF Elements
  <1>6. Distinct(r)
    <2> SUFFICES ASSUME NEW i \in DOMAIN r, NEW j \in DOMAIN r, r[i] = r[j]
                 PROVE  i = j
      BY DEF Distinct
    <2>1. i + 1 \in DOMAIN q /\ j + 1 \in DOMAIN q /\ q[i + 1] = q[j + 1]
      BY <1>1, <1>2
    <2>2. i + 1 = j + 1
      BY <2>1 DEF Distinct
    <2>3. QED
      BY <2>2, <1>1, <1>2
  <1>7. QED
    BY <1>1, <1>3, <1>4, <1>5, <1>6 DEF r

\* A sequence without repetitions is as long as it has elements.
LEMMA DistinctCardinality ==
    ASSUME NEW S, NEW q \in Seq(S), Distinct(q)
    PROVE  Cardinality(Elements(q)) = Len(q)
  <1>1. Len(q) \in Nat /\ DOMAIN q = 1..Len(q)
    OBVIOUS
  <1>2. q \in [1..Len(q) -> Elements(q)]
    BY <1>1 DEF Elements
  <1>3. q \in Bijection(1..Len(q), Elements(q))
    <2>1. q \in Injection(1..Len(q), Elements(q))
      BY <1>1, <1>2 DEF Distinct, Injection, IsInjective
    <2>2. q \in Surjection(1..Len(q), Elements(q))
      BY <1>1, <1>2 DEF Elements, Surjection
    <2>3. QED
      BY <2>1, <2>2 DEF Bijection
  <1>4. ExistsBijection(1..Len(q), Elements(q))
    BY <1>3 DEF ExistsBijection
  <1>5. QED
    BY <1>1, <1>4, FS_CountingElements

-----------------------------------------------------------------------------
\* The tasks are finitely many; a task that goes on stays one, a connection that
\* gets one is one more, a task that ends is one less.
LEMMA CountTasks ==
    ASSUME States, NEW c \in Connections, NEW s \in TaskStates, Goto(c, s)
    PROVE  /\ IsFiniteSet(Tasks)
           /\ Cardinality(Tasks) \in Nat
           /\ task' \in [Connections -> TaskStates]
           /\ task'[c] = s
           /\ \A d \in Connections : d # c => task'[d] = task[d]
           /\ s # "none" /\ task[c] # "none" => Tasks' = Tasks
           /\ s # "none" /\ task[c] = "none" => Cardinality(Tasks') = Cardinality(Tasks) + 1
           /\ s = "none" /\ task[c] # "none" => Cardinality(Tasks') = Cardinality(Tasks) - 1
  <1>1. /\ task' \in [Connections -> TaskStates]
        /\ task'[c] = s
        /\ \A d \in Connections : d # c => task'[d] = task[d]
    BY DEF States, Goto
  <1>2. IsFiniteSet(Tasks) /\ Cardinality(Tasks) \in Nat
    BY ConnectionsAssumption, FS_Subset, FS_CardinalityType DEF Tasks
  <1>3. s # "none" /\ task[c] # "none" => Tasks' = Tasks
    BY <1>1 DEF Tasks
  <1>4. ASSUME s # "none", task[c] = "none"
        PROVE  Cardinality(Tasks') = Cardinality(Tasks) + 1
    <2>1. Tasks' = Tasks \cup {c} /\ c \notin Tasks
      BY <1>1, <1>4 DEF Tasks
    <2>2. QED
      BY <2>1, <1>2, FS_AddElement
  <1>5. ASSUME s = "none", task[c] # "none"
        PROVE  Cardinality(Tasks') = Cardinality(Tasks) - 1
    <2>1. Tasks' = Tasks \ {c} /\ c \in Tasks
      BY <1>1, <1>5 DEF Tasks
    <2>2. QED
      BY <2>1, <1>2, FS_RemoveElement
  <1>6. QED
    BY <1>1, <1>2, <1>3, <1>4, <1>5

\* The places taken are finitely many.
LEMMA FinitePlaces ==
    ASSUME States, Places
    PROVE  /\ cleanups \subseteq Connections
           /\ IsFiniteSet(cleanups)
           /\ Cardinality(cleanups) \in Nat
  <1>1. cleanups \subseteq Connections
    BY DEF States, Places, Owners, Elements
  <1>2. QED
    BY <1>1, ConnectionsAssumption, FS_Subset, FS_CardinalityType

\* Running the cleanup of a connection that holds no place changes nothing, of
\* one that holds one gives it back.
LEMMA CleanupCounts ==
    ASSUME States, Places, NEW c \in Connections, DropCleanup(c)
    PROVE  /\ cleanups' = cleanups \ {c}
           /\ playerCount' = Cardinality(cleanups')
           /\ playerCount' \in 0..MaxPlayers
  <1>1. IsFiniteSet(cleanups) /\ Cardinality(cleanups) \in Nat
    BY FinitePlaces
  <1>2. /\ IsFiniteSet(cleanups \ {c})
        /\ Cardinality(cleanups \ {c}) =
               IF c \in cleanups THEN Cardinality(cleanups) - 1 ELSE Cardinality(cleanups)
    BY <1>1, FS_RemoveElement
  <1>3. Cardinality(cleanups \ {c}) \in Nat
    BY <1>2, FS_CardinalityType
  <1>4. QED
    BY <1>1, <1>2, <1>3, SizesAssumption DEF DropCleanup, Places, States

-----------------------------------------------------------------------------
(***************************************************************************)
(* Steps that only move a task on.                                         *)
(***************************************************************************)

\* A handshake that goes on, or ends without a place, keeps the invariant when it
\* neither enters nor leaves the awaits that own one.
LEMMA MoveOn ==
    ASSUME IInv, NEW c \in Connections, NEW s \in TaskStates \ {"none"}, Goto(c, s),
           task[c] # "none",
           task[c] \in Admitted <=> s \in Admitted,
           task[c] # "finished" \/ s = "finished",
           UNCHANGED <<acceptVars, cleanups, playerCount, newClients, gameVars>>
    PROVE  IInv'
  <1> USE DEF IInv, acceptVars, gameVars
  <1>1. /\ task' \in [Connections -> TaskStates]
        /\ task'[c] = s
        /\ \A d \in Connections : d # c => task'[d] = task[d]
        /\ Tasks' = Tasks
    BY CountTasks
  <1>2. States'
    BY <1>1 DEF States
  <1>3. PermitsExact'
    BY <1>1 DEF PermitsExact
  <1>4. Elements(backlog) \subseteq Connections /\ Elements(newClients) \subseteq Connections
    BY DEF States, Elements
  <1>5. BacklogFresh'
    BY <1>1, <1>4 DEF BacklogFresh
  <1>6. c \in Elements(newClients) \cup playing => s = "finished"
    BY DEF ClientsApart
  <1>7. ClientsApart'
    BY <1>1, <1>4, <1>6 DEF ClientsApart, States
  <1>8. Owners' = Owners
    BY <1>1 DEF Owners
  <1>9. QED
    BY <1>2, <1>3, <1>5, <1>7, <1>8 DEF Places

LEMMA LegacyPingKeeps == ASSUME IInv, NEW c \in Connections, LegacyPing(c) PROVE IInv'
  <1> USE DEF LegacyPing, TaskStates, Awaits, Fallible, Then, Admitted
  <1>1. CASE Goto(c, "finished")
    BY <1>1, MoveOn
  <1>2. CASE Goto(c, "intention")
    BY <1>2, MoveOn
  <1>3. QED
    BY <1>1, <1>2

LEMMA IntentionKeeps == ASSUME IInv, NEW c \in Connections, Intention(c) PROVE IInv'
  <1> USE DEF Intention, TaskStates, Awaits, Fallible, Then, Admitted
  <1>1. CASE Goto(c, "statusRequest")
    BY <1>1, MoveOn
  <1>2. CASE Goto(c, "hello")
    BY <1>2, MoveOn
  <1>3. CASE Goto(c, "wrongVersion")
    BY <1>3, MoveOn
  <1>4. QED
    BY <1>1, <1>2, <1>3

LEMMA AnswerStatusKeeps == ASSUME IInv, NEW c \in Connections, AnswerStatus(c) PROVE IInv'
  <1> USE DEF AnswerStatus, TaskStates, Awaits, Fallible, Then, Admitted
  <1>1. CASE Goto(c, "statusResponse")
    BY <1>1, MoveOn
  <1>2. CASE Goto(c, "finished")
    BY <1>2, MoveOn
  <1>3. QED
    BY <1>1, <1>2

\* The packets exchanged between two awaits take no place and give none back.
LEMMA ThenStaysAdmitted ==
    ASSUME NEW await \in DOMAIN Then
    PROVE  /\ Then[await] \in TaskStates \ {"none"}
           /\ await \in Admitted <=> Then[await] \in Admitted
           /\ await \notin {"none", "finished"}
  BY DEF Then, TaskStates, Awaits, Fallible, Admitted

LEMMA ProceedKeeps == ASSUME IInv, NEW c \in Connections, Proceed(c) PROVE IInv'
  <1>1. /\ Then[task[c]] \in TaskStates \ {"none"}
        /\ task[c] \in Admitted <=> Then[task[c]] \in Admitted
        /\ task[c] \notin {"none", "finished"}
    BY ThenStaysAdmitted DEF Proceed
  <1>2. QED
    BY <1>1, MoveOn DEF Proceed

-----------------------------------------------------------------------------
(***************************************************************************)
(* Steps of the accept loop.                                               *)
(***************************************************************************)

\* A step that keeps the tasks and the clients and moves permits between the
\* semaphore and the accept loop.
LEMMA MovePermit ==
    ASSUME IInv, acceptor' \in {"acquiring", "accepting"}, permits' \in Nat, PermitsExact',
           UNCHANGED <<backlog, task, cleanups, playerCount, newClients, gameVars>>
    PROVE  IInv'
  BY DEF IInv, States, BacklogFresh, ClientsApart, Places, Owners, gameVars

LEMMA AcquirePermitKeeps == ASSUME IInv, AcquirePermit PROVE IInv'
  <1>1. Tasks' = Tasks /\ Cardinality(Tasks) \in Nat
    BY ConnectionsAssumption, FS_Subset, FS_CardinalityType DEF AcquirePermit, Tasks
  <1>2. permits' \in Nat /\ PermitsExact'
    BY <1>1, SizesAssumption DEF IInv, States, AcquirePermit, PermitsExact
  <1>3. QED
    BY <1>2, MovePermit DEF AcquirePermit

LEMMA AcceptErrorKeeps == ASSUME IInv, AcceptError PROVE IInv'
  <1>1. Tasks' = Tasks /\ Cardinality(Tasks) \in Nat
    BY ConnectionsAssumption, FS_Subset, FS_CardinalityType DEF AcceptError, Tasks
  <1>2. permits' \in Nat /\ PermitsExact'
    BY <1>1, SizesAssumption DEF IInv, States, AcceptError, PermitsExact
  <1>3. QED
    BY <1>2, MovePermit DEF AcceptError

\* A new connection is in no other part of the system.
LEMMA ConnectKeeps == ASSUME IInv, NEW c \in Connections, Connect(c) PROVE IInv'
  <1> USE DEF IInv, gameVars
  <1>1. c \notin Elements(backlog)
    BY DEF Connect, Elements
  <1>2. /\ backlog' \in Seq(Connections)
        /\ Elements(backlog') = Elements(backlog) \cup {c}
        /\ Distinct(backlog')
    BY <1>1, AppendElements DEF Connect, States, BacklogFresh
  <1>3. States' /\ PermitsExact'
    BY <1>2 DEF Connect, States, PermitsExact, Tasks
  <1>4. c \notin Elements(newClients) \cup playing /\ task[c] = "none"
    BY DEF Connect, Queued, Elements
  <1>5. BacklogFresh'
    BY <1>2, <1>4 DEF BacklogFresh, Connect
  <1>6. ClientsApart' /\ Places'
    BY DEF ClientsApart, Places, Owners, Connect
  <1>7. QED
    BY <1>3, <1>5, <1>6

\* The permit of the accept loop becomes that of the task.
LEMMA AcceptKeeps == ASSUME IInv, Accept PROVE IInv'
  <1> DEFINE c == Head(backlog)
  <1> USE DEF IInv, gameVars
  <1>1. /\ c \in Connections /\ c \in Elements(backlog)
        /\ backlog' \in Seq(Connections)
        /\ Elements(backlog') = Elements(backlog) \ {c}
        /\ Distinct(backlog')
    BY TailElements DEF Accept, States, BacklogFresh
  <1>2. task[c] = "none" /\ c \notin Elements(newClients) \cup playing
    BY <1>1 DEF BacklogFresh
  <1>3. "legacyPing" \in TaskStates \ {"none"} /\ "legacyPing" \notin Admitted
    BY DEF TaskStates, Awaits, Admitted
  <1>4. Goto(c, "legacyPing")
    BY DEF Accept, Goto
  <1> HIDE DEF c
  <1>5. /\ task' \in [Connections -> TaskStates]
        /\ task'[c] = "legacyPing"
        /\ \A d \in Connections : d # c => task'[d] = task[d]
        /\ Cardinality(Tasks') = Cardinality(Tasks) + 1
        /\ Cardinality(Tasks) \in Nat
    BY <1>1, <1>2, <1>3, <1>4, CountTasks
  <1>6. States'
    BY <1>1, <1>5 DEF Accept, States
  <1>7. PermitsExact'
    BY <1>5, SizesAssumption DEF Accept, PermitsExact, States
  <1>8. Elements(backlog) \subseteq Connections /\ Elements(newClients) \subseteq Connections
    BY DEF States, Elements
  <1>9. BacklogFresh'
    BY <1>1, <1>5, <1>8 DEF BacklogFresh, Accept
  <1>10. ClientsApart'
    BY <1>2, <1>5, <1>8 DEF ClientsApart, States, Accept
  <1>11. Owners' = Owners
    BY <1>2, <1>3, <1>5 DEF Owners, Accept, Admitted
  <1>12. QED
    BY <1>6, <1>7, <1>9, <1>10, <1>11 DEF Places, Accept

\* A task that has finished owns no place: its permit is all it gives back.
LEMMA ReturnPermitKeeps == ASSUME IInv, NEW c \in Connections, ReturnPermit(c) PROVE IInv'
  <1> USE DEF IInv, gameVars
  <1>1. "none" \in TaskStates /\ "none" \notin Admitted /\ "finished" \notin Admitted
    BY DEF TaskStates, Admitted
  <1>2. /\ task' \in [Connections -> TaskStates]
        /\ task'[c] = "none"
        /\ \A d \in Connections : d # c => task'[d] = task[d]
        /\ Cardinality(Tasks') = Cardinality(Tasks) - 1
        /\ Cardinality(Tasks) \in Nat
    BY <1>1, CountTasks DEF ReturnPermit
  <1>3. States'
    BY <1>2 DEF ReturnPermit, States
  <1>4. PermitsExact'
    BY <1>2, SizesAssumption DEF ReturnPermit, PermitsExact, States
  <1>5. Elements(backlog) \subseteq Connections /\ Elements(newClients) \subseteq Connections
    BY DEF States, Elements
  <1>6. BacklogFresh' /\ ClientsApart'
    BY <1>2, <1>5 DEF BacklogFresh, ClientsApart, States, ReturnPermit
  <1>7. Owners' = Owners
    BY <1>1, <1>2 DEF Owners, ReturnPermit
  <1>8. QED
    BY <1>3, <1>4, <1>6, <1>7 DEF Places, ReturnPermit

-----------------------------------------------------------------------------
(***************************************************************************)
(* Steps that take places, hand them on or give them back.                 *)
(***************************************************************************)

\* The default login takes a place that is free and makes the task its owner.
LEMMA LoginKeeps == ASSUME IInv, NEW c \in Connections, Login(c) PROVE IInv'
  <1> USE DEF IInv, acceptVars, gameVars
  <1>1. task[c] = "loginCallback" /\ "loginCallback" \notin Admitted
    BY DEF Login, Admitted
  <1>2. CASE ~HasRoom
    <2>1. Goto(c, "serverFull") /\ UNCHANGED <<playerCount, cleanups>>
      BY <1>2 DEF Login
    <2>2. "serverFull" \in TaskStates \ {"none"} /\ "serverFull" \notin Admitted
      BY DEF TaskStates, Awaits, Fallible, Then, Admitted
    <2>3. QED
      BY <1>1, <2>1, <2>2, MoveOn DEF Login
  <1>3. CASE HasRoom
    <2>1. Goto(c, "loginFinished") /\ playerCount' = playerCount + 1 /\ cleanups' = cleanups \cup {c}
      BY <1>3 DEF Login
    <2>2. "loginFinished" \in TaskStates \ {"none"} /\ "loginFinished" \in Admitted
      BY DEF TaskStates, Awaits, Fallible, Then, Admitted
    <2>3. /\ task' \in [Connections -> TaskStates]
          /\ task'[c] = "loginFinished"
          /\ \A d \in Connections : d # c => task'[d] = task[d]
          /\ Tasks' = Tasks
      BY <1>1, <2>1, <2>2, CountTasks
    <2>4. playerCount' \in 0..MaxPlayers
      BY <1>3, <2>1, SizesAssumption DEF HasRoom, States
    <2>5. States' /\ PermitsExact'
      BY <2>3, <2>4 DEF Login, States, PermitsExact
    <2>6. Elements(backlog) \subseteq Connections /\ Elements(newClients) \subseteq Connections
      BY DEF States, Elements
    <2>7. c \notin Elements(newClients) \cup playing
      BY <1>1 DEF ClientsApart
    <2>8. BacklogFresh' /\ ClientsApart'
      BY <1>1, <2>3, <2>6, <2>7 DEF BacklogFresh, ClientsApart, States, Login
    <2>9. Owners' = Owners \cup {c} /\ c \notin Owners
      BY <1>1, <2>2, <2>3, <2>7 DEF Owners, Login
    <2>10. IsFiniteSet(cleanups) /\ c \notin cleanups
      BY <2>9, FinitePlaces DEF Places
    <2>11. Cardinality(cleanups') = Cardinality(cleanups) + 1
      BY <2>1, <2>10, FS_AddElement
    <2>12. QED
      BY <2>1, <2>5, <2>8, <2>9, <2>11 DEF Places
  <1>4. QED
    BY <1>2, <1>3

\* The place goes with the client into the channel.
LEMMA SendClientKeeps == ASSUME IInv, NEW c \in Connections, SendClient(c) PROVE IInv'
  <1> USE DEF IInv, acceptVars, gameVars
  <1>1. /\ task[c] = "sendingClient" /\ "sendingClient" \in Admitted
        /\ "finished" \in TaskStates \ {"none"} /\ "finished" \notin Admitted
    BY DEF SendClient, TaskStates, Admitted
  <1>2. /\ task' \in [Connections -> TaskStates]
        /\ task'[c] = "finished"
        /\ \A d \in Connections : d # c => task'[d] = task[d]
        /\ Tasks' = Tasks
    BY <1>1, CountTasks DEF SendClient
  <1>3. c \notin Elements(newClients) \cup playing
    BY <1>1 DEF ClientsApart
  <1>4. c \notin Elements(backlog)
    BY <1>1 DEF BacklogFresh
  <1>5. /\ newClients' \in Seq(Connections)
        /\ Len(newClients') = Len(newClients) + 1
        /\ Elements(newClients') = Elements(newClients) \cup {c}
        /\ Distinct(newClients')
    BY <1>3, AppendElements DEF SendClient, States, ClientsApart
  <1>6. States' /\ PermitsExact'
    BY <1>2, <1>5 DEF SendClient, States, PermitsExact
  <1>7. Elements(backlog) \subseteq Connections /\ Elements(newClients) \subseteq Connections
    BY DEF States, Elements
  <1>8. BacklogFresh'
    BY <1>2, <1>4, <1>5, <1>7 DEF BacklogFresh, SendClient
  <1>9. Len(newClients') <= ChannelSize
    BY <1>5, SizesAssumption DEF SendClient, States
  <1>10. ClientsApart'
    BY <1>2, <1>3, <1>5, <1>7, <1>9 DEF ClientsApart, States, SendClient
  <1>11. Owners' = Owners
    BY <1>1, <1>2, <1>5 DEF Owners, SendClient
  <1>12. QED
    BY <1>6, <1>8, <1>10, <1>11 DEF Places, SendClient

\* An error or the timeout ends the handshake and gives its place back.
LEMMA GiveUp ==
    ASSUME IInv, NEW c \in Connections, task[c] \in Awaits, DropCleanup(c), Goto(c, "finished"),
           UNCHANGED <<acceptVars, newClients, gameVars>>
    PROVE  IInv'
  <1> USE DEF IInv, acceptVars, gameVars
  <1>1. /\ task[c] \notin {"none", "finished"}
        /\ "finished" \in TaskStates \ {"none"} /\ "finished" \notin Admitted
    BY DEF TaskStates, Awaits, Fallible, Then, Admitted
  <1>2. /\ task' \in [Connections -> TaskStates]
        /\ task'[c] = "finished"
        /\ \A d \in Connections : d # c => task'[d] = task[d]
        /\ Tasks' = Tasks
    BY <1>1, CountTasks
  <1>3. /\ cleanups' = cleanups \ {c}
        /\ playerCount' = Cardinality(cleanups')
        /\ playerCount' \in 0..MaxPlayers
    BY CleanupCounts
  <1>4. States' /\ PermitsExact'
    BY <1>2, <1>3 DEF States, PermitsExact
  <1>5. Elements(backlog) \subseteq Connections /\ Elements(newClients) \subseteq Connections
    BY DEF States, Elements
  <1>6. c \notin Elements(newClients) \cup playing
    BY <1>1 DEF ClientsApart
  <1>7. c \notin Elements(backlog)
    BY <1>1 DEF BacklogFresh
  <1>8. BacklogFresh' /\ ClientsApart'
    BY <1>2, <1>5, <1>6, <1>7 DEF BacklogFresh, ClientsApart, States
  <1>9. Owners' = Owners \ {c}
    BY <1>1, <1>2, <1>6 DEF Owners
  <1>10. QED
    BY <1>3, <1>4, <1>8, <1>9 DEF Places

LEMMA FailKeeps == ASSUME IInv, NEW c \in Connections, Fail(c) PROVE IInv'
  BY GiveUp DEF Fail, Awaits

LEMMA TimeOutKeeps == ASSUME IInv, NEW c \in Connections, TimeOut(c) PROVE IInv'
  BY GiveUp DEF TimeOut

\* A client that is dropped gives its place back.
LEMMA DropClientKeeps == ASSUME IInv, NEW c \in Connections, DropClient(c) PROVE IInv'
  <1> USE DEF IInv, acceptVars
  <1>1. c \in playing /\ task[c] \in {"finished", "none"} /\ c \notin Elements(newClients)
    BY DEF DropClient, ClientsApart
  <1>2. /\ cleanups' = cleanups \ {c}
        /\ playerCount' = Cardinality(cleanups')
        /\ playerCount' \in 0..MaxPlayers
    BY CleanupCounts DEF DropClient
  <1>3. States' /\ PermitsExact'
    BY <1>2 DEF DropClient, States, PermitsExact, Tasks
  <1>4. BacklogFresh' /\ ClientsApart'
    BY DEF BacklogFresh, ClientsApart, DropClient
  <1>5. c \notin {d \in Connections : task[d] \in Admitted}
    BY <1>1 DEF Admitted
  <1>6. Owners' = Owners \ {c}
    BY <1>1, <1>5 DEF Owners, DropClient
  <1>7. QED
    BY <1>2, <1>3, <1>4, <1>6 DEF Places

LEMMA BeginSpawningKeeps == ASSUME IInv, BeginSpawning PROVE IInv'
  <1> USE DEF IInv, acceptVars
  <1>1. Len(newClients) \in 0..ChannelSize
    BY SizesAssumption DEF States, ClientsApart
  <1>2. States' /\ PermitsExact'
    BY <1>1 DEF BeginSpawning, Pending, States, PermitsExact, Tasks
  <1>3. BacklogFresh' /\ ClientsApart' /\ Places'
    BY DEF BeginSpawning, BacklogFresh, ClientsApart, Places, Owners
  <1>4. QED
    BY <1>2, <1>3

\* The place goes with the client from the channel into the world.
LEMMA SpawnClientKeeps == ASSUME IInv, SpawnClient PROVE IInv'
  <1> USE DEF IInv, acceptVars
  <1>1. CASE newClients = <<>>
    <2>1. taking' = 0 /\ taking' \in 0..ChannelSize /\ UNCHANGED <<newClients, playing>>
      BY <1>1, SizesAssumption DEF SpawnClient
    <2>2. States' /\ PermitsExact'
      BY <2>1 DEF SpawnClient, States, PermitsExact, Tasks
    <2>3. BacklogFresh' /\ ClientsApart' /\ Places'
      BY <2>1 DEF SpawnClient, BacklogFresh, ClientsApart, Places, Owners
    <2>4. QED
      BY <2>2, <2>3
  <1>2. CASE newClients # <<>>
    <2> DEFINE c == Head(newClients)
    <2>1. playing' = playing \cup {c} /\ newClients' = Tail(newClients) /\ taking' = taking - 1
      BY <1>2 DEF SpawnClient
    <2>2. /\ c \in Connections /\ c \in Elements(newClients)
          /\ newClients' \in Seq(Connections)
          /\ Len(newClients') = Len(newClients) - 1
          /\ Elements(newClients') = Elements(newClients) \ {c}
          /\ Distinct(newClients')
      BY <1>2, <2>1, TailElements DEF States, ClientsApart
    <2> HIDE DEF c
    <2>3. taking' \in 0..ChannelSize
      BY <2>1, SizesAssumption DEF SpawnClient, States
    <2>4. States' /\ PermitsExact'
      BY <2>1, <2>2, <2>3 DEF SpawnClient, States, PermitsExact, Tasks
    <2>5. Elements(newClients') \cup playing' = Elements(newClients) \cup playing
      BY <2>1, <2>2
    <2>6. BacklogFresh'
      BY <2>5 DEF SpawnClient, BacklogFresh
    <2>7. Len(newClients) \in Nat
      BY DEF States
    <2>8. Len(newClients') <= ChannelSize
      BY <2>2, <2>7, SizesAssumption DEF ClientsApart
    <2>9. Elements(newClients') \cap playing' = {}
      BY <2>1, <2>2 DEF ClientsApart
    <2>10. ClientsApart'
      BY <2>2, <2>5, <2>8, <2>9 DEF SpawnClient, ClientsApart
    <2>11. Places'
      BY <2>5 DEF SpawnClient, Places, Owners
    <2>12. QED
      BY <2>4, <2>6, <2>10, <2>11
  <1>3. QED
    BY <1>1, <1>2

-----------------------------------------------------------------------------
LEMMA InitEstablishes == ASSUME Init PROVE IInv
  <1>1. "none" \in TaskStates /\ "none" \notin Admitted
    BY DEF TaskStates, Admitted
  <1>2. Tasks = {} /\ Cardinality({}) = 0
    BY FS_EmptySet DEF Init, Tasks
  <1>3. DOMAIN << >> = {}
    OBVIOUS
  <1>4. Elements(<<>>) = {} /\ Distinct(<<>>)
    BY <1>3 DEF Elements, Distinct
  <1>5. States
    BY <1>1, SizesAssumption DEF Init, States
  <1>6. PermitsExact
    BY <1>2, SizesAssumption DEF Init, PermitsExact
  <1>7. Len(newClients) <= ChannelSize
    BY SizesAssumption DEF Init
  <1>8. BacklogFresh /\ ClientsApart
    BY <1>4, <1>7 DEF Init, BacklogFresh, ClientsApart
  <1>9. Owners = {}
    BY <1>1, <1>4 DEF Init, Owners
  <1>10. QED
    BY <1>2, <1>5, <1>6, <1>8, <1>9 DEF IInv, Places, Init

LEMMA StepKeeps == ASSUME IInv, [Next]_vars PROVE IInv'
  <1>1. CASE UNCHANGED vars
    BY <1>1 DEF vars, IInv, States, PermitsExact, Tasks, BacklogFresh, ClientsApart, Places, Owners
  <1>2. CASE AcquirePermit
    BY <1>2, AcquirePermitKeeps
  <1>3. CASE Accept
    BY <1>3, AcceptKeeps
  <1>4. CASE AcceptError
    BY <1>4, AcceptErrorKeeps
  <1>5. CASE Spawning
    BY <1>5, BeginSpawningKeeps, SpawnClientKeeps DEF Spawning
  <1>6. ASSUME NEW c \in Connections,
               Connect(c) \/ LegacyPing(c) \/ Intention(c) \/ Proceed(c) \/ AnswerStatus(c)
        PROVE  IInv'
    BY <1>6, ConnectKeeps, LegacyPingKeeps, IntentionKeeps, ProceedKeeps, AnswerStatusKeeps
  <1>7. ASSUME NEW c \in Connections,
               Login(c) \/ SendClient(c) \/ Fail(c) \/ TimeOut(c) \/ ReturnPermit(c) \/ DropClient(c)
        PROVE  IInv'
    BY <1>7, LoginKeeps, SendClientKeeps, FailKeeps, TimeOutKeeps, ReturnPermitKeeps, DropClientKeeps
  <1>8. QED
    BY <1>1, <1>2, <1>3, <1>4, <1>5, <1>6, <1>7 DEF Next

\* The invariant holds in every state.
LEMMA Inductive == Spec => []IInv
  BY InitEstablishes, StepKeeps, PTL DEF Spec

-----------------------------------------------------------------------------
\* However handshakes end, every permit is in the semaphore, with the accept loop
\* or with one task (connect.rs:72-94).
THEOREM SpecPermitsExact == Spec => []PermitsExact
  <1>1. IInv => PermitsExact
    BY DEF IInv
  <1>2. QED
    BY <1>1, Inductive, PTL

\* The player count counts the cleanups that have yet to run, each owned by a
\* login past the callback, a client in the channel or a client in the world
\* (connect.rs:77-86, 186, lib.rs:478-492, 541-547).
THEOREM SpecPlacesExact == Spec => []PlacesExact
  <1>1. IInv => PlacesExact
    BY DEF IInv, Places, PlacesExact, Owners, Queued, Elements
  <1>2. QED
    BY <1>1, Inductive, PTL

\* A connection is one client at most, and only when its handshake is over.
THEOREM SpecOneClientEach == Spec => []OneClientEach
  <1>1. ASSUME IInv
        PROVE  OneClientEach
    <2>1. Queued = Elements(newClients)
      BY DEF Queued, Elements
    <2>2. Cardinality(Elements(newClients)) = Len(newClients)
      BY <1>1, DistinctCardinality DEF IInv, States, ClientsApart
    <2>3. QED
      BY <1>1, <2>1, <2>2 DEF IInv, ClientsApart, OneClientEach
  <1>2. QED
    BY <1>1, Inductive, PTL

\* The types, and that no more than max_players have a place and no more permits
\* come back than were handed out.
THEOREM SpecTypeOK == Spec => []TypeOK
  <1>1. ASSUME IInv
        PROVE  TypeOK
    <2>1. Cardinality(Tasks) \in Nat
      BY ConnectionsAssumption, FS_Subset, FS_CardinalityType DEF Tasks
    <2>2. permits \in 0..MaxConnections
      BY <1>1, <2>1, SizesAssumption DEF IInv, States, PermitsExact
    <2>3. cleanups \subseteq Connections
      BY <1>1, FinitePlaces DEF IInv
    <2>4. QED
      BY <1>1, <2>2, <2>3 DEF IInv, States, TypeOK
  <1>2. QED
    BY <1>1, Inductive, PTL

=============================================================================
