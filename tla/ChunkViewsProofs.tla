--------------------------- MODULE ChunkViewsProofs ---------------------------
(***************************************************************************)
(* Theorems about ChunkViews, for any clients, layers, positions, views    *)
(* and counter width.  The types and the assertions of the code hold       *)
(* whatever clients and user code do, even where a count is wrong.  That   *)
(* counts are right and clients see what is in their view is the second    *)
(* part, under CountsAreSafe.                                              *)
(***************************************************************************)
EXTENDS ChunkViews, FiniteSetTheorems, TLAPS

(***************************************************************************)
(* The inductive invariant.  TypeOK alone is not inductive: a client that  *)
(* is told to load a chunk counts itself in at whatever the map holds, so  *)
(* a LOAD has to find a chunk.  NoChangesUnviewed is not either: counts    *)
(* may fall to zero in PostUpdate, so nothing may be recorded by then.     *)
(***************************************************************************)
NothingRecorded ==
    \A l \in Layers, p \in Positions : Present(l, p) => chunk[l][p].updates = NoBlock

IInv ==
    /\ TypeOK
    /\ NoChangesUnviewed
    /\ LoadsFindChunks
    /\ phase \notin {"eventLoop", "update"} => NothingRecorded

-----------------------------------------------------------------------------
\* The remainder of a number lies below the modulus.
LEMMA ModRange ==
    ASSUME NEW a \in Int, NEW w \in Nat \ {0}
    PROVE  a % w \in 0..w - 1
  BY SMT

\* Counting a viewer in or out keeps a chunk a chunk and touches nothing else.
LEMMA ViewedType ==
    ASSUME NEW ch \in LoadedChunks, NEW n \in Int
    PROVE  /\ Viewed(ch, n) \in LoadedChunks
           /\ Viewed(ch, n) # Absent
           /\ Viewed(ch, n).block = ch.block
           /\ Viewed(ch, n).updates = ch.updates
  <1>1. ch.viewers + n \in Int
    BY CounterAssumption DEF LoadedChunks
  <1>2. (ch.viewers + n) % CounterWidth \in 0..CounterWidth - 1
    BY <1>1, CounterAssumption, ModRange
  <1>3. Viewed(ch, n) \in LoadedChunks
    BY <1>2 DEF Viewed, LoadedChunks
  <1>4. QED
    BY <1>2, <1>3, AbsentAssumption DEF Viewed, LoadedChunks

\* A position that holds a chunk holds a chunk's record.
LEMMA PresentIsLoaded ==
    ASSUME TypeOK, NEW l \in Layers, NEW p \in Positions, Present(l, p)
    PROVE  /\ chunk[l][p] \in LoadedChunks
           /\ chunk[l][p].viewers \in Nat
           /\ chunk[l][p].block \in Blocks
           /\ chunk[l][p].updates \in Blocks \cup {NoBlock}
  BY CounterAssumption DEF TypeOK, Present, LoadedChunks

\* What a step does to one position of the map and of the messages, it does to
\* no other.
LEMMA OnePosition ==
    ASSUME TypeOK, NEW l \in Layers, NEW p \in Positions,
           NEW ch \in LoadedChunks,
           chunk' = [chunk EXCEPT ![l][p] = ch]
    PROVE  /\ chunk' \in [Layers -> [Positions -> LoadedChunks \cup {Absent}]]
           /\ Present(l, p)'
           /\ chunk'[l][p] = ch
           /\ \A m \in Layers, q \in Positions :
                  <<m, q>> # <<l, p>> => chunk'[m][q] = chunk[m][q]
  BY AbsentAssumption DEF TypeOK, Present

LEMMA OneMessage ==
    ASSUME TypeOK, NEW l \in Layers, NEW p \in Positions, NEW state \in ChunkStates,
           stateMsgs' = [stateMsgs EXCEPT ![l][p] = Append(@, state)]
    PROVE  /\ stateMsgs' \in [Layers -> [Positions -> Seq(ChunkStates)]]
           /\ stateMsgs'[l][p] # <<>>
           /\ Last(stateMsgs'[l][p]) = state
           /\ \A m \in Layers, q \in Positions :
                  <<m, q>> # <<l, p>> => stateMsgs'[m][q] = stateMsgs[m][q]
  <1>1. stateMsgs[l][p] \in Seq(ChunkStates)
    BY DEF TypeOK
  <1>2. /\ Append(stateMsgs[l][p], state) \in Seq(ChunkStates)
        /\ Append(stateMsgs[l][p], state) # <<>>
        /\ Last(Append(stateMsgs[l][p], state)) = state
    BY <1>1 DEF Last
  <1>3. QED
    BY <1>2 DEF TypeOK

-----------------------------------------------------------------------------
LEMMA InitIInv == Init => IInv
  <1> SUFFICES ASSUME Init PROVE IInv
    OBVIOUS
  <1>1. TypeOK
    BY ViewsAssumption, CallBoundsAssumption
    DEF Init, TypeOK, NoMessages, Connections, Phases
  <1>2. \A l \in Layers, p \in Positions : ~Present(l, p) /\ ~Loads(stateMsgs[l][p])
    BY DEF Init, Present, NoMessages, Loads
  <1>3. QED
    BY <1>1, <1>2 DEF IInv, Init, NoChangesUnviewed, LoadsFindChunks

\* The parts of the state that a call of user code leaves as they are.
LEMMA CallType ==
    ASSUME TypeOK, NEW kind, Call(kind),
           chunk' \in [Layers -> [Positions -> LoadedChunks \cup {Absent}]],
           stateMsgs' \in [Layers -> [Positions -> Seq(ChunkStates)]],
           UNCHANGED <<conn, view, layer, shown>>
    PROVE  TypeOK' /\ phase' \in {"eventLoop", "update"}
  BY CallBoundsAssumption DEF TypeOK, Call, schedule

\* The two invariants about single positions, after a step that changes one.
LEMMA OthersKept ==
    ASSUME IInv, NEW l \in Layers, NEW p \in Positions,
           \A m \in Layers, q \in Positions :
               <<m, q>> # <<l, p>> =>
                   chunk'[m][q] = chunk[m][q] /\ stateMsgs'[m][q] = stateMsgs[m][q],
           Present(l, p)',
           chunk'[l][p].viewers = 0 => chunk'[l][p].updates = NoBlock
    PROVE  NoChangesUnviewed' /\ LoadsFindChunks'
  <1>1. NoChangesUnviewed'
    BY DEF IInv, NoChangesUnviewed, Present
  <1>2. ASSUME NEW m \in Layers, NEW q \in Positions, Loads(stateMsgs'[m][q])
        PROVE  Present(m, q)'
    <2>1. CASE <<m, q>> = <<l, p>>
      BY <2>1
    <2>2. CASE <<m, q>> # <<l, p>>
      <3>1. Loads(stateMsgs[m][q])
        BY <1>2, <2>2
      <3>2. Present(m, q)
        BY <3>1 DEF IInv, LoadsFindChunks
      <3>3. QED
        BY <2>2, <3>2 DEF Present
    <2>3. QED
      BY <2>1, <2>2
  <1>3. LoadsFindChunks'
    BY <1>2 DEF LoadsFindChunks
  <1>4. QED
    BY <1>1, <1>3

LEMMA InsertVacantIInv ==
    ASSUME IInv, NEW l \in Layers, NEW p \in Positions, InsertVacant(l, p)
    PROVE  IInv'
  <1> DEFINE new == [viewers |-> 0, block |-> InsertedBlock, updates |-> NoBlock]
  <1>1. new \in LoadedChunks /\ new.updates = NoBlock
    BY BlocksAssumption, CounterAssumption DEF LoadedChunks
  <1>2. /\ chunk' = [chunk EXCEPT ![l][p] = new]
        /\ stateMsgs' = [stateMsgs EXCEPT ![l][p] = Append(@, "LOAD")]
        /\ Call("insert")
        /\ UNCHANGED <<conn, view, layer, shown>>
    BY DEF InsertVacant
  <1>3. TypeOK
    BY DEF IInv
  <1> HIDE DEF new
  <1>4. /\ chunk' \in [Layers -> [Positions -> LoadedChunks \cup {Absent}]]
        /\ Present(l, p)'
        /\ chunk'[l][p] = new
        /\ \A m \in Layers, q \in Positions :
               <<m, q>> # <<l, p>> => chunk'[m][q] = chunk[m][q]
    BY <1>1, <1>2, <1>3, OnePosition DEF ChunkStates
  <1>5. /\ stateMsgs' \in [Layers -> [Positions -> Seq(ChunkStates)]]
        /\ \A m \in Layers, q \in Positions :
               <<m, q>> # <<l, p>> => stateMsgs'[m][q] = stateMsgs[m][q]
    BY <1>2, <1>3, OneMessage DEF ChunkStates
  <1>6. TypeOK' /\ phase' \in {"eventLoop", "update"}
    BY <1>2, <1>3, <1>4, <1>5, CallType
  <1>7. NoChangesUnviewed' /\ LoadsFindChunks'
    BY <1>1, <1>4, <1>5, OthersKept
  <1>8. QED
    BY <1>6, <1>7 DEF IInv

\* The two entry operations that keep the chunk in the map and give it new content.
LEMMA RefilledIInv ==
    ASSUME IInv, NEW l \in Layers, NEW p \in Positions, NEW kind,
           NEW state \in ChunkStates,
           Call(kind), Present(l, p),
           chunk' = [chunk EXCEPT ![l][p] =
               [@ EXCEPT !.block = InsertedBlock, !.updates = NoBlock]],
           stateMsgs' = [stateMsgs EXCEPT ![l][p] = Append(@, state)],
           UNCHANGED <<conn, view, layer, shown>>
    PROVE  IInv'
  <1> DEFINE new == [chunk[l][p] EXCEPT !.block = InsertedBlock, !.updates = NoBlock]
  <1>1. TypeOK
    BY DEF IInv
  <1>2. new \in LoadedChunks /\ new.updates = NoBlock
    BY <1>1, PresentIsLoaded, BlocksAssumption DEF LoadedChunks
  <1>3. chunk' = [chunk EXCEPT ![l][p] = new]
    BY <1>1 DEF TypeOK
  <1> HIDE DEF new
  <1>4. /\ chunk' \in [Layers -> [Positions -> LoadedChunks \cup {Absent}]]
        /\ Present(l, p)'
        /\ chunk'[l][p] = new
        /\ \A m \in Layers, q \in Positions :
               <<m, q>> # <<l, p>> => chunk'[m][q] = chunk[m][q]
    <2>1. l \in Layers /\ p \in Positions
      OBVIOUS
    <2>2. QED
      BY ONLY <1>1, <1>2, <1>3, <2>1, OnePosition
  <1>5. /\ stateMsgs' \in [Layers -> [Positions -> Seq(ChunkStates)]]
        /\ \A m \in Layers, q \in Positions :
               <<m, q>> # <<l, p>> => stateMsgs'[m][q] = stateMsgs[m][q]
    BY <1>1, OneMessage
  <1>6. TypeOK' /\ phase' \in {"eventLoop", "update"}
    BY <1>1, <1>4, <1>5, CallType
  <1>7. NoChangesUnviewed' /\ LoadsFindChunks'
    BY <1>2, <1>4, <1>5, OthersKept
  <1>8. QED
    BY <1>6, <1>7 DEF IInv

\* set_block and the systems of PostUpdate change neither which
\* chunks there are nor the messages about them.
StatesKept ==
    \A l \in Layers, p \in Positions :
        /\ stateMsgs'[l][p] = stateMsgs[l][p]
        /\ Present(l, p)' <=> Present(l, p)

LEMMA SetBlockIInv ==
    ASSUME IInv, NEW l \in Layers, NEW p \in Positions, NEW b \in Blocks,
           SetBlock(l, p, b)
    PROVE  IInv' /\ StatesKept
  <1> DEFINE ch == chunk[l][p]
             new == [ch EXCEPT !.block = b, !.updates = Recorded(ch, b)]
  <1>1. TypeOK /\ NoChangesUnviewed /\ LoadsFindChunks
    BY DEF IInv
  <1>2. /\ Call("setBlock") /\ Present(l, p)
        /\ UNCHANGED <<stateMsgs, conn, view, layer, shown>>
    BY DEF SetBlock
  <1>3. ch \in LoadedChunks /\ (ch.viewers = 0 => ch.updates = NoBlock)
    BY <1>1, <1>2, PresentIsLoaded DEF NoChangesUnviewed
  <1>4. /\ new \in LoadedChunks
        /\ new.viewers = 0 => new.updates = NoBlock
    <2>1. /\ Recorded(ch, b) \in Blocks \cup {NoBlock}
          /\ ch.viewers = 0 => Recorded(ch, b) = NoBlock
      BY <1>3 DEF LoadedChunks, Recorded
    <2>2. /\ new.viewers = ch.viewers /\ new.updates = Recorded(ch, b)
          /\ new \in LoadedChunks
      BY <1>3, <2>1 DEF LoadedChunks
    <2>3. QED
      BY <2>1, <2>2
  <1>5. chunk' = [chunk EXCEPT ![l][p] = new]
    BY <1>1 DEF TypeOK, SetBlock
  <1> HIDE DEF new
  <1>6. /\ chunk' \in [Layers -> [Positions -> LoadedChunks \cup {Absent}]]
        /\ Present(l, p)'
        /\ chunk'[l][p] = new
        /\ \A m \in Layers, q \in Positions :
               <<m, q>> # <<l, p>> => chunk'[m][q] = chunk[m][q]
    BY <1>1, <1>4, <1>5, OnePosition
  <1>7. TypeOK' /\ phase' \in {"eventLoop", "update"}
    BY <1>1, <1>2, <1>6, CallType DEF TypeOK
  <1>8. NoChangesUnviewed' /\ LoadsFindChunks'
    BY <1>2, <1>4, <1>6, OthersKept
  <1>9. StatesKept
    BY <1>2, <1>6 DEF StatesKept, Present
  <1>10. QED
    BY <1>7, <1>8, <1>9 DEF IInv

LEMMA UnloadIInv ==
    ASSUME IInv, NEW l \in Layers, NEW ps \in SUBSET Positions, NEW kind,
           Call(kind), Unload(l, ps)
    PROVE  IInv'
  <1>1. TypeOK /\ NoChangesUnviewed /\ LoadsFindChunks
    BY DEF IInv
  <1>2. /\ chunk' \in [Layers -> [Positions -> LoadedChunks \cup {Absent}]]
        /\ \A m \in Layers, q \in Positions :
               chunk'[m][q] = IF m = l /\ q \in ps THEN Absent ELSE chunk[m][q]
    BY <1>1 DEF TypeOK, Unload
  <1>3. \A q \in Positions :
            /\ Append(stateMsgs[l][q], "UNLOAD") \in Seq(ChunkStates)
            /\ Last(Append(stateMsgs[l][q], "UNLOAD")) = "UNLOAD"
    BY <1>1 DEF TypeOK, ChunkStates, Last
  <1>4. /\ stateMsgs' \in [Layers -> [Positions -> Seq(ChunkStates)]]
        /\ \A m \in Layers, q \in Positions :
               stateMsgs'[m][q] = IF m = l /\ q \in ps
                                  THEN Append(stateMsgs[m][q], "UNLOAD")
                                  ELSE stateMsgs[m][q]
    BY <1>1, <1>3 DEF TypeOK, Unload
  <1>5. TypeOK' /\ phase' \in {"eventLoop", "update"}
    BY <1>1, <1>2, <1>4, CallType DEF Unload
  <1>6. NoChangesUnviewed'
    BY <1>1, <1>2 DEF NoChangesUnviewed, Present
  <1>7. ASSUME NEW m \in Layers, NEW q \in Positions, Loads(stateMsgs'[m][q])
        PROVE  Present(m, q)'
    <2>1. ~(m = l /\ q \in ps)
      BY <1>3, <1>4, <1>7 DEF Loads
    <2>2. stateMsgs'[m][q] = stateMsgs[m][q] /\ chunk'[m][q] = chunk[m][q]
      BY <1>2, <1>4, <2>1
    <2>3. QED
      BY <1>1, <1>7, <2>2 DEF LoadsFindChunks, Present
  <1>8. QED
    BY <1>5, <1>6, <1>7 DEF IInv, LoadsFindChunks

\* A step that leaves chunks and messages alone, or only counts viewers while
\* nothing is recorded.
LEMMA WorldKept ==
    ASSUME IInv, TypeOK', UNCHANGED world,
           phase' = phase \/ phase' = "update" \/ NothingRecorded
    PROVE  IInv'
  BY DEF IInv, NoChangesUnviewed, LoadsFindChunks, NothingRecorded, Present, world

LEMMA ClientCallIInv ==
    ASSUME IInv, NEW c \in Clients,
           \/ \E v \in Views : Move(c, v)
           \/ \E l \in Layers : Switch(c, l)
           \/ Join(c)
           \/ DespawnClient(c)
           \/ Disconnect(c)
           \/ LateDisconnect(c)
    PROVE  IInv'
  <1> DEFINE Kept == TypeOK' /\ UNCHANGED world /\ phase' = phase
  <1>1. ASSUME NEW v \in Views, Move(c, v) PROVE Kept
    BY <1>1, CallBoundsAssumption DEF IInv, TypeOK, Call, world, schedule, Move
  <1>2. ASSUME NEW l \in Layers, Switch(c, l) PROVE Kept
    BY <1>2, CallBoundsAssumption DEF IInv, TypeOK, Call, world, schedule, Switch
  <1>3. ASSUME Join(c) \/ DespawnClient(c) \/ Disconnect(c) PROVE Kept
    <2>1. \E state \in Connections : conn' = [conn EXCEPT ![c] = state]
      BY <1>3 DEF Join, DespawnClient, Disconnect, Connections
    <2>2. conn' \in [Clients -> Connections]
      BY <2>1 DEF IInv, TypeOK
    <2>3. \E kind : Call(kind)
      BY <1>3 DEF Join, DespawnClient, Disconnect
    <2>4. UNCHANGED <<world, view, layer, shown>>
      BY <1>3 DEF Join, DespawnClient, Disconnect
    <2>5. QED
      BY <2>2, <2>3, <2>4, CallBoundsAssumption DEF IInv, TypeOK, Call, world, schedule
  <1>4. ASSUME LateDisconnect(c) PROVE Kept
    BY <1>4 DEF IInv, TypeOK, Connections, world, schedule, LateDisconnect
  <1>5. QED
    BY <1>1, <1>2, <1>3, <1>4, WorldKept

LEMMA ScheduleIInv ==
    ASSUME IInv, DespawnDisconnected \/ StartViews \/ StartCleanup
    PROVE  IInv'
  <1>1. TypeOK' /\ UNCHANGED world
    BY DEF IInv, TypeOK, DespawnDisconnected, StartViews, StartCleanup,
        world, entities, Connections, Phases
  <1>2. phase' = "update" \/ NothingRecorded
    BY DEF IInv, DespawnDisconnected, StartViews, StartCleanup
  <1>3. QED
    BY <1>1, <1>2, WorldKept

LEMMA PreClientIInv ==
    ASSUME IInv, PreClient
    PROVE  IInv' /\ StatesKept
  <1> DEFINE Seen(l, p) == Present(l, p) /\ chunk[l][p].viewers > 0
             Told1(l, p) == IF Seen(l, p) THEN chunk[l][p].updates ELSE NoBlock
             Kept(l, p) == IF Seen(l, p) THEN [chunk[l][p] EXCEPT !.updates = NoBlock]
                           ELSE chunk[l][p]
  <1>1. TypeOK /\ NoChangesUnviewed /\ LoadsFindChunks
    BY DEF IInv
  <1>2. /\ blockMsgs' = [l \in Layers |-> [p \in Positions |-> Told1(l, p)]]
        /\ chunk' = [l \in Layers |-> [p \in Positions |-> Kept(l, p)]]
    BY DEF PreClient
  <1>3. ASSUME NEW l \in Layers, NEW p \in Positions
        PROVE  /\ Told1(l, p) \in Blocks \cup {NoBlock}
               /\ Kept(l, p) \in LoadedChunks \cup {Absent}
               /\ Kept(l, p) # Absent <=> Present(l, p)
               /\ Present(l, p) => Kept(l, p).updates = NoBlock
    <2>1. CASE Seen(l, p)
      <3>1. [chunk[l][p] EXCEPT !.updates = NoBlock] \in LoadedChunks
        BY <1>1, <1>3, <2>1, PresentIsLoaded DEF LoadedChunks
      <3>2. QED
        BY <1>1, <1>3, <2>1, <3>1, PresentIsLoaded, AbsentAssumption DEF LoadedChunks
    <2>2. CASE ~Seen(l, p)
      <3>1. Present(l, p) => chunk[l][p].viewers = 0
        BY <1>1, <1>3, <2>2, PresentIsLoaded
      <3>2. QED
        BY <1>1, <1>3, <2>2, <3>1 DEF NoChangesUnviewed, TypeOK, Present
    <2>3. QED
      BY <2>1, <2>2
  <1> HIDE DEF Told1, Kept
  <1>4. TypeOK'
    <2>1. chunk' \in [Layers -> [Positions -> LoadedChunks \cup {Absent}]]
      BY <1>2, <1>3
    <2>2. blockMsgs' \in [Layers -> [Positions -> Blocks \cup {NoBlock}]]
      BY <1>2, <1>3
    <2>3. /\ phase' = "messages" /\ todo' \subseteq Clients
          /\ UNCHANGED <<stateMsgs, conn, view, oldView, layer, oldLayer, shown, ops>>
      BY DEF PreClient, entities
    <2>4. QED
      BY <1>1, <2>1, <2>2, <2>3 DEF TypeOK, Phases
  <1>5. \A l \in Layers, p \in Positions :
            /\ Present(l, p)' <=> Present(l, p)
            /\ Present(l, p)' => chunk'[l][p].updates = NoBlock
    BY <1>2, <1>3 DEF Present
  <1>6. NoChangesUnviewed' /\ NothingRecorded'
    BY <1>5 DEF NoChangesUnviewed, NothingRecorded
  <1>7. LoadsFindChunks'
    BY <1>1, <1>5 DEF LoadsFindChunks, PreClient
  <1>8. StatesKept
    BY <1>5 DEF StatesKept, PreClient
  <1>9. QED
    BY <1>4, <1>6, <1>7, <1>8 DEF IInv

-----------------------------------------------------------------------------
\* A step of PostUpdate that counts viewers: every position keeps what it has,
\* or its chunk is counted up or down.
Counted(l, p) ==
    \/ chunk'[l][p] = chunk[l][p]
    \/ Present(l, p) /\ \E n \in Int : chunk'[l][p] = Viewed(chunk[l][p], n)

LEMMA CountedEach ==
    ASSUME TypeOK, NEW l \in Layers, NEW p \in Positions, Counted(l, p)
    PROVE  /\ chunk'[l][p] \in LoadedChunks \cup {Absent}
           /\ Present(l, p)' <=> Present(l, p)
           /\ Present(l, p) => chunk'[l][p].updates = chunk[l][p].updates
  <1>1. CASE chunk'[l][p] = chunk[l][p]
    BY <1>1 DEF TypeOK, Present
  <1>2. CASE Present(l, p) /\ \E n \in Int : chunk'[l][p] = Viewed(chunk[l][p], n)
    <2>1. PICK n \in Int : chunk'[l][p] = Viewed(chunk[l][p], n)
      BY <1>2
    <2>2. chunk[l][p] \in LoadedChunks
      BY <1>2, PresentIsLoaded
    <2>3. QED
      BY <1>2, <2>1, <2>2, ViewedType DEF Present
  <1>3. QED
    BY <1>1, <1>2 DEF Counted

LEMMA CountedIInv ==
    ASSUME IInv, TypeOK', UNCHANGED stateMsgs,
           phase \notin {"eventLoop", "update"},
           \A l \in Layers, p \in Positions : Counted(l, p)
    PROVE  IInv' /\ StatesKept
  <1>1. \A l \in Layers, p \in Positions :
            /\ Present(l, p)' <=> Present(l, p)
            /\ Present(l, p) => chunk'[l][p].updates = chunk[l][p].updates
    BY CountedEach DEF IInv
  <1>2. NothingRecorded'
    BY <1>1 DEF IInv, NothingRecorded
  <1>3. QED
    BY <1>1, <1>2
    DEF IInv, NothingRecorded, NoChangesUnviewed, LoadsFindChunks, StatesKept

LEMMA HandleMessagesIInv ==
    ASSUME IInv, NEW c \in Clients, HandleMessages(c)
    PROVE  IInv' /\ StatesKept
  <1> DEFINE l == oldLayer[c]
  <1>1. TypeOK /\ LoadsFindChunks /\ phase = "messages"
        /\ UNCHANGED <<stateMsgs, blockMsgs, entities, phase, ops>>
        /\ todo' = todo \ {c}
    BY DEF IInv, HandleMessages
  <1>2. CASE l = NoLayer
    <2>1. UNCHANGED <<chunk, shown>>
      BY <1>2 DEF HandleMessages
    <2>2. TypeOK'
      BY <1>1, <2>1 DEF TypeOK, entities
    <2>3. QED
      BY <1>1, <2>1, <2>2, CountedIInv DEF Counted
  <1>3. CASE l # NoLayer
    <2> DEFINE tells(p) == p \in oldView[c] /\ Loads(stateMsgs[l][p])
               counts(p) == IF tells(p) THEN Viewed(chunk[l][p], 1) ELSE chunk[l][p]
               has(p) == IF p \in oldView[c] THEN Told(l, p, shown[c][p]) ELSE shown[c][p]
    <2>1. l \in Layers
      BY <1>1, <1>3 DEF TypeOK
    <2>2. /\ chunk' = [chunk EXCEPT ![l] = [p \in Positions |-> counts(p)]]
          /\ shown' = [shown EXCEPT ![c] = [p \in Positions |-> has(p)]]
      BY <1>1, <1>3, <2>1 DEF HandleMessages, TypeOK
    <2>3. \A m \in Layers, p \in Positions :
              chunk'[m][p] = IF m = l THEN counts(p) ELSE chunk[m][p]
      BY <1>1, <2>1, <2>2 DEF TypeOK
    <2>4. \A m \in Layers, p \in Positions : Counted(m, p)
      BY <1>1, <2>1, <2>3 DEF Counted, LoadsFindChunks
    <2>5. ASSUME NEW p \in Positions
          PROVE  counts(p) \in LoadedChunks \cup {Absent}
      <3>1. counts(p) = chunk'[l][p]
        BY <2>1, <2>3
      <3>2. QED
        BY <1>1, <2>1, <2>4, <3>1, CountedEach
    <2>6. ASSUME NEW p \in Positions
          PROVE  has(p) \in Blocks \cup {NoBlock}
      <3>1. shown[c][p] \in Blocks \cup {NoBlock}
        BY <1>1 DEF TypeOK
      <3>2. Loads(stateMsgs[l][p]) => chunk[l][p].block \in Blocks
        BY <1>1, <2>1, PresentIsLoaded DEF LoadsFindChunks
      <3>3. blockMsgs[l][p] \in Blocks \cup {NoBlock}
        BY <1>1, <2>1 DEF TypeOK
      <3>4. QED
        BY <3>1, <3>2, <3>3 DEF Told
    <2> HIDE DEF counts, has
    <2>7. TypeOK'
      BY <1>1, <2>1, <2>2, <2>5, <2>6 DEF TypeOK, entities
    <2>8. QED
      BY <1>1, <2>4, <2>7, CountedIInv
  <1>4. QED
    BY <1>2, <1>3

LEMMA UpdateViewIInv ==
    ASSUME IInv, NEW c \in Clients, UpdateView(c)
    PROVE  IInv' /\ StatesKept
  <1> DEFINE counts(l, p) ==
                 IF l = oldLayer[c] /\ p \in Forgotten(c) THEN Viewed(chunk[l][p], -1)
                 ELSE IF l = layer[c] /\ p \in Initialized(c) THEN Viewed(chunk[l][p], 1)
                 ELSE chunk[l][p]
             has(p) == IF p \in Initialized(c) THEN chunk[layer[c]][p].block
                       ELSE IF p \in Forgotten(c) THEN NoBlock
                       ELSE shown[c][p]
  <1>1. TypeOK /\ phase = "views"
        /\ UNCHANGED <<stateMsgs, blockMsgs, conn, view, oldView, layer, phase, ops>>
        /\ todo' = todo \ {c}
        /\ oldLayer' = [oldLayer EXCEPT ![c] = layer[c]]
        /\ chunk' = [l \in Layers |-> [p \in Positions |-> counts(l, p)]]
    BY DEF IInv, UpdateView
  <1>2. shown' = [shown EXCEPT ![c] = [p \in Positions |-> has(p)]]
    BY <1>1 DEF UpdateView, TypeOK
  <1>3. \A l \in Layers, p \in Positions : Counted(l, p)
    <2> SUFFICES ASSUME NEW l \in Layers, NEW p \in Positions PROVE Counted(l, p)
      OBVIOUS
    <2>1. chunk'[l][p] = counts(l, p)
      BY <1>1
    <2>2. /\ l = oldLayer[c] /\ p \in Forgotten(c) => Present(l, p)
          /\ l = layer[c] /\ p \in Initialized(c) => Present(l, p)
      BY DEF Forgotten, Initialized
    <2>3. QED
      BY <2>1, <2>2 DEF Counted
  <1>4. \A l \in Layers, p \in Positions : counts(l, p) \in LoadedChunks \cup {Absent}
    <2> SUFFICES ASSUME NEW l \in Layers, NEW p \in Positions
                 PROVE  counts(l, p) \in LoadedChunks \cup {Absent}
      OBVIOUS
    <2>1. counts(l, p) = chunk'[l][p]
      BY <1>1
    <2> HIDE DEF counts
    <2>2. QED
      BY <1>1, <1>3, <2>1, CountedEach
  <1>5. \A p \in Positions : has(p) \in Blocks \cup {NoBlock}
    <2> SUFFICES ASSUME NEW p \in Positions PROVE has(p) \in Blocks \cup {NoBlock}
      OBVIOUS
    <2>1. p \in Initialized(c) => layer[c] \in Layers /\ Present(layer[c], p)
      BY DEF Initialized, Present
    <2>2. p \in Initialized(c) => chunk[layer[c]][p].block \in Blocks
      BY <1>1, <2>1, PresentIsLoaded
    <2>3. shown[c][p] \in Blocks \cup {NoBlock}
      BY <1>1 DEF TypeOK
    <2>4. QED
      BY <2>2, <2>3
  <1> HIDE DEF counts, has
  <1>6. TypeOK'
    BY <1>1, <1>2, <1>4, <1>5 DEF TypeOK
  <1>7. QED
    BY <1>1, <1>3, <1>6, CountedIInv

LEMMA CleanupIInv ==
    ASSUME IInv, Cleanup
    PROVE  IInv' /\ StatesKept
  <1> DEFINE counts(l, p) ==
                 IF Present(l, p) THEN Viewed(chunk[l][p], -Cardinality(Leavers(l, p)))
                 ELSE Absent
  <1>1. TypeOK /\ phase = "cleanup" /\ phase' = "endTick"
        /\ UNCHANGED <<stateMsgs, blockMsgs, entities, shown, todo, ops>>
        /\ chunk' = [l \in Layers |-> [p \in Positions |-> counts(l, p)]]
    BY DEF IInv, Cleanup
  <1>2. \A l \in Layers, p \in Positions : Counted(l, p)
    <2> SUFFICES ASSUME NEW l \in Layers, NEW p \in Positions PROVE Counted(l, p)
      OBVIOUS
    <2>1. chunk'[l][p] = counts(l, p)
      BY <1>1
    <2>2. Leavers(l, p) \subseteq Clients
      BY DEF Leavers
    <2>3. Cardinality(Leavers(l, p)) \in Nat
      BY <2>2, ClientsAssumption, FS_Subset, FS_CardinalityType
    <2>4. -Cardinality(Leavers(l, p)) \in Int
      BY <2>3
    <2>5. QED
      BY <2>1, <2>4 DEF Counted, Present
  <1>3. \A l \in Layers, p \in Positions : counts(l, p) \in LoadedChunks \cup {Absent}
    <2> SUFFICES ASSUME NEW l \in Layers, NEW p \in Positions
                 PROVE  counts(l, p) \in LoadedChunks \cup {Absent}
      OBVIOUS
    <2>1. counts(l, p) = chunk'[l][p]
      BY <1>1
    <2> HIDE DEF counts
    <2>2. QED
      BY <1>1, <1>2, <2>1, CountedEach
  <1> HIDE DEF counts
  <1>4. TypeOK'
    BY <1>1, <1>3 DEF TypeOK, entities, Phases
  <1>5. QED
    BY <1>1, <1>2, <1>4, CountedIInv

LEMMA EndTickIInv ==
    ASSUME IInv, EndTick
    PROVE  IInv'
  <1>1. TypeOK'
    BY ViewsAssumption, CallBoundsAssumption
    DEF IInv, TypeOK, EndTick, NoMessages, Connections, Phases
  <1>2. UNCHANGED chunk /\ phase' = "eventLoop"
        /\ \A l \in Layers, p \in Positions : ~Loads(stateMsgs'[l][p])
    BY DEF EndTick, NoMessages, Loads
  <1>3. QED
    BY <1>1, <1>2 DEF IInv, NoChangesUnviewed, LoadsFindChunks, Present

-----------------------------------------------------------------------------
LEMMA NextIInv == IInv /\ [Next]_vars => IInv'
  <1> SUFFICES ASSUME IInv, [Next]_vars PROVE IInv'
    OBVIOUS
  <1>1. ASSUME ChunkCall PROVE IInv'
    <2>1. ASSUME NEW l \in Layers, RetainViewed(l) PROVE IInv'
      BY <2>1, UnloadIInv DEF RetainViewed
    <2>2. ASSUME NEW l \in Layers, NEW p \in Positions, InsertVacant(l, p) PROVE IInv'
      BY <2>2, InsertVacantIInv
    <2>3. ASSUME NEW l \in Layers, NEW p \in Positions, InsertOccupied(l, p) PROVE IInv'
      BY <2>3, RefilledIInv DEF InsertOccupied, ChunkStates
    <2>4. ASSUME NEW l \in Layers, NEW p \in Positions, RemoveChunk(l, p) PROVE IInv'
      BY <2>4, UnloadIInv DEF RemoveChunk
    <2>5. ASSUME NEW l \in Layers, NEW p \in Positions, RemoveEntry(l, p) PROVE IInv'
      BY <2>5, RefilledIInv DEF RemoveEntry, ChunkStates
    <2>6. ASSUME NEW l \in Layers, NEW p \in Positions, NEW b \in Blocks,
                 SetBlock(l, p, b)
          PROVE  IInv'
      BY <2>6, SetBlockIInv
    <2>7. QED
      BY <1>1, <2>1, <2>2, <2>3, <2>4, <2>5, <2>6 DEF ChunkCall
  <1>2. ASSUME ClientCall PROVE IInv'
    BY <1>2, ClientCallIInv DEF ClientCall
  <1>3. ASSUME SystemStep PROVE IInv'
    BY <1>3, ScheduleIInv, PreClientIInv, HandleMessagesIInv, UpdateViewIInv,
       CleanupIInv, EndTickIInv DEF SystemStep
  <1>4. ASSUME UNCHANGED vars PROVE IInv'
    BY <1>4 DEF vars, IInv, TypeOK, NoChangesUnviewed, LoadsFindChunks,
       NothingRecorded, Present
  <1>5. QED
    BY <1>1, <1>2, <1>3, <1>4 DEF Next

THEOREM SpecIInv == Spec => []IInv
  BY InitIInv, NextIInv, PTL DEF Spec

\* The state keeps its types: no count leaves the counter, no client's view
\* leaves the views.
THEOREM SpecTypeOK == Spec => []TypeOK
  BY SpecIInv, PTL DEF IInv

\* The assertion of update_pre_client (loaded.rs:240) and of insert and remove
\* holds under every call, every kind of departure and every miscounting.
THEOREM SpecNoChangesUnviewed == Spec => []NoChangesUnviewed
  BY SpecIInv, PTL DEF IInv

\* The expect of handle_layer_messages (client.rs:762) never fails, remove_entry
\* included.
THEOREM SpecLoadsFindChunks == Spec => []LoadsFindChunks
  BY SpecIInv, PTL DEF IInv

-----------------------------------------------------------------------------
\* A call that changes the entry of one position and notes the new state.
LEMMA MessageMatches ==
    ASSUME TypeOK, MessagesMatchChunks, NEW l \in Layers, NEW p \in Positions,
           NEW ch \in LoadedChunks, NEW state \in ChunkStates, state # "UNLOAD",
           chunk' = [chunk EXCEPT ![l][p] = ch],
           stateMsgs' = [stateMsgs EXCEPT ![l][p] = Append(@, state)]
    PROVE  MessagesMatchChunks'
  <1>1. /\ Present(l, p)'
        /\ \A m \in Layers, q \in Positions :
               <<m, q>> # <<l, p>> => chunk'[m][q] = chunk[m][q]
    BY OnePosition
  <1>2. /\ Last(stateMsgs'[l][p]) = state
        /\ \A m \in Layers, q \in Positions :
               <<m, q>> # <<l, p>> => stateMsgs'[m][q] = stateMsgs[m][q]
    BY OneMessage
  <1>3. QED
    BY <1>1, <1>2 DEF MessagesMatchChunks, Present

LEMMA UnloadMatches ==
    ASSUME TypeOK, MessagesMatchChunks, NEW l \in Layers, NEW ps \in SUBSET Positions,
           Unload(l, ps)
    PROVE  MessagesMatchChunks'
  <1>1. \A m \in Layers, q \in Positions :
            /\ chunk'[m][q] = IF m = l /\ q \in ps THEN Absent ELSE chunk[m][q]
            /\ stateMsgs'[m][q] = IF m = l /\ q \in ps
                                  THEN Append(stateMsgs[m][q], "UNLOAD")
                                  ELSE stateMsgs[m][q]
    BY DEF TypeOK, Unload
  <1>2. \A q \in Positions : Last(Append(stateMsgs[l][q], "UNLOAD")) = "UNLOAD"
    BY DEF TypeOK, ChunkStates, Last
  <1>3. QED
    BY <1>1, <1>2 DEF MessagesMatchChunks, Present

LEMMA StatesKeptMatch ==
    ASSUME MessagesMatchChunks, StatesKept
    PROVE  MessagesMatchChunks'
  BY DEF MessagesMatchChunks, StatesKept

LEMMA NextMatches ==
    ASSUME "removeEntry" \notin Calls, IInv, MessagesMatchChunks, [Next]_vars
    PROVE  MessagesMatchChunks'
  <1>1. TypeOK
    BY DEF IInv
  <1>2. ASSUME ChunkCall PROVE MessagesMatchChunks'
    <2>1. ASSUME NEW l \in Layers, RetainViewed(l) PROVE MessagesMatchChunks'
      BY <1>1, <2>1, UnloadMatches DEF RetainViewed
    <2>2. ASSUME NEW l \in Layers, NEW p \in Positions, InsertVacant(l, p)
          PROVE  MessagesMatchChunks'
      <3>1. [viewers |-> 0, block |-> InsertedBlock, updates |-> NoBlock] \in LoadedChunks
        BY BlocksAssumption, CounterAssumption DEF LoadedChunks
      <3>2. QED
        BY <1>1, <2>2, <3>1, MessageMatches DEF InsertVacant, ChunkStates
    <2>3. ASSUME NEW l \in Layers, NEW p \in Positions, InsertOccupied(l, p)
          PROVE  MessagesMatchChunks'
      <3> DEFINE new == [chunk[l][p] EXCEPT !.block = InsertedBlock, !.updates = NoBlock]
      <3>1. new \in LoadedChunks
        BY <1>1, <2>3, PresentIsLoaded, BlocksAssumption DEF InsertOccupied, LoadedChunks
      <3>2. chunk' = [chunk EXCEPT ![l][p] = new]
        BY <1>1, <2>3 DEF TypeOK, InsertOccupied
      <3>3. stateMsgs' = [stateMsgs EXCEPT ![l][p] = Append(@, "OVERWRITE")]
        BY <2>3 DEF InsertOccupied
      <3> HIDE DEF new
      <3>4. QED
        BY <1>1, <3>1, <3>2, <3>3, MessageMatches DEF ChunkStates
    <2>4. ASSUME NEW l \in Layers, NEW p \in Positions, RemoveChunk(l, p)
          PROVE  MessagesMatchChunks'
      BY <1>1, <2>4, UnloadMatches DEF RemoveChunk
    <2>5. ASSUME NEW l \in Layers, NEW p \in Positions, RemoveEntry(l, p)
          PROVE  FALSE
      BY <2>5 DEF RemoveEntry, Call
    <2>6. ASSUME NEW l \in Layers, NEW p \in Positions, NEW b \in Blocks, SetBlock(l, p, b)
          PROVE  MessagesMatchChunks'
      BY <2>6, SetBlockIInv, StatesKeptMatch
    <2>7. QED
      BY <1>2, <2>1, <2>2, <2>3, <2>4, <2>5, <2>6 DEF ChunkCall
  <1>3. ASSUME UNCHANGED world PROVE MessagesMatchChunks'
    BY <1>3 DEF world, MessagesMatchChunks, Present
  <1>4. ASSUME ClientCall PROVE UNCHANGED world
    BY <1>4 DEF ClientCall, Move, Switch, Join, DespawnClient, Disconnect,
        LateDisconnect, world
  <1>5. ASSUME SystemStep PROVE MessagesMatchChunks'
    <2>1. ASSUME DespawnDisconnected \/ StartViews \/ StartCleanup
          PROVE  MessagesMatchChunks'
      BY <1>3, <2>1 DEF DespawnDisconnected, StartViews, StartCleanup
    <2>2. ASSUME EndTick PROVE MessagesMatchChunks'
      BY <2>2 DEF EndTick, NoMessages, MessagesMatchChunks
    <2>3. QED
      BY <1>5, <2>1, <2>2, StatesKeptMatch, PreClientIInv, HandleMessagesIInv,
         UpdateViewIInv, CleanupIInv DEF SystemStep
  <1>6. QED
    BY <1>2, <1>3, <1>4, <1>5 DEF Next, vars, world

\* What the expect and the assertions of handle_layer_messages rely on
\* (client.rs:758, 762, 769) holds for any number of clients, layers and chunks
\* and any sequence of inserts, removals and retains in a tick, except where
\* OccupiedChunkEntry::remove_entry is used.
THEOREM SpecMessagesMatchChunks ==
    ASSUME "removeEntry" \notin Calls
    PROVE  Spec => []MessagesMatchChunks
  <1>1. Init => MessagesMatchChunks
    BY DEF Init, NoMessages, MessagesMatchChunks
  <1>2. IInv /\ MessagesMatchChunks /\ [Next]_vars => MessagesMatchChunks'
    BY NextMatches
  <1>3. QED
    BY <1>1, <1>2, SpecIInv, PTL DEF Spec

-----------------------------------------------------------------------------
(***************************************************************************)
(* The counts and what clients see.  Within a tick both are exact only in  *)
(* the middle of a computation, so the invariant says, phase by phase, who *)
(* is counted in at a chunk and what a client has there:                   *)
(*                                                                         *)
(*   - until the messages are handled, the clients that had the chunk at   *)
(*     the end of the last tick, none if it was inserted or replaced since;*)
(*   - while they are handled, those and the clients that were told;       *)
(*   - while views change, each client by its old or by its new view;      *)
(*   - then those with the chunk in view, and after the cleanup those of   *)
(*     them that stay.                                                     *)
(***************************************************************************)
\* The calls under which the counts are right: nobody is replaced under a
\* viewer, no entry is kept without its chunk, a connection is lost at rest;
\* and the counter has room for all clients.
CountsAreSafe ==
    /\ QuietLeave
    /\ "removeEntry" \notin Calls
    /\ "overwrite" \in Calls => MaxReplaced = 0
    /\ Cardinality(Clients) < CounterWidth

Open == phase \in {"eventLoop", "update"}

Had(c, l, p) == oldLayer[c] = l /\ p \in oldView[c]
At(c, l, p) == layer[c] = l /\ p \in view[c]

CountedIn(c, l, p) ==
    \/ Open /\ Had(c, l, p) /\ stateMsgs[l][p] = <<>>
    \/ phase = "messages" /\ Had(c, l, p) /\ (stateMsgs[l][p] = <<>> \/ c \notin todo)
    \/ phase = "views" /\ c \in todo /\ Had(c, l, p)
    \/ phase = "views" /\ c \notin todo /\ At(c, l, p)
    \/ phase = "cleanup" /\ At(c, l, p)
    \/ phase = "endTick" /\ At(c, l, p) /\ ~IsDespawned(c)

Members(l, p) == {c \in Clients : CountedIn(c, l, p)}

CountAt(l, p) == Present(l, p) => chunk[l][p].viewers = Cardinality(Members(l, p))

Counts == \A l \in Layers, p \in Positions : CountAt(l, p)

\* An entity that is not there has nothing.
NothingYet(c) ==
    /\ layer[c] = NoLayer /\ oldLayer[c] = NoLayer
    /\ \A p \in Positions : shown[c][p] = NoBlock

AbsentEmpty == \A c \in Clients : conn[c] = "absent" => NothingYet(c)

\* A client without its connection stays where it was, and nothing comes to its
\* chunks.
Restful(c, l, p) == At(c, l, p) /\ Present(l, p) => stateMsgs[l][p] = <<>>

LeftAtRest ==
    phase \in {"eventLoop", "update", "messages"} =>
        \A c \in Clients : conn[c] \in {"offline", "gone"} =>
            /\ layer[c] = oldLayer[c] /\ view[c] = oldView[c]
            /\ \A l \in Layers, p \in Positions : Restful(c, l, p)

\* Once its view is updated, a client's old layer is its layer.
LayersUpdated ==
    /\ phase = "views" => \A c \in Clients \ todo : oldLayer[c] = layer[c]
    /\ phase \in {"cleanup", "endTick"} => \A c \in Clients : oldLayer[c] = layer[c]

\* The change of a chunk that clients are still to hear of.
News(l, p) == IF Open THEN chunk[l][p].updates ELSE blockMsgs[l][p]

\* What a client that is still to hear this tick's messages has at a position of
\* its old view: what the chunk was before the news, and nothing if the chunk
\* came within the tick.
BehindAt(c, l, p) ==
    /\ stateMsgs[l][p] = <<>> /\ ~Present(l, p) => shown[c][p] = NoBlock
    /\ stateMsgs[l][p] = <<>> /\ Present(l, p) =>
           /\ shown[c][p] # NoBlock
           /\ chunk[l][p].block =
                  IF News(l, p) = NoBlock THEN shown[c][p] ELSE News(l, p)
    /\ stateMsgs[l][p] # <<>> /\ stateMsgs[l][p][1] = "LOAD" => shown[c][p] = NoBlock

Behind(c) ==
    \A p \in Positions :
        /\ \A l \in Layers : Had(c, l, p) => BehindAt(c, l, p)
        /\ (\A l \in Layers : ~Had(c, l, p)) => shown[c][p] = NoBlock

Sees(c, l, vs) ==
    \A p \in Positions :
        shown[c][p] = IF p \in vs /\ Present(l, p) THEN chunk[l][p].block ELSE NoBlock

SeesOld(c) == Sees(c, oldLayer[c], oldView[c])
SeesNew(c) == Sees(c, layer[c], view[c])

UpToDate ==
    \A c \in Clients : HasClient(c) =>
        /\ Open => Behind(c)
        /\ phase = "messages" => IF c \in todo THEN Behind(c) ELSE SeesOld(c)
        /\ phase = "views" => IF c \in todo THEN SeesOld(c) ELSE SeesNew(c)
        /\ phase \in {"cleanup", "endTick"} => SeesNew(c)

VInv ==
    /\ IInv
    /\ MessagesMatchChunks
    /\ Counts
    /\ AbsentEmpty
    /\ LeftAtRest
    /\ LayersUpdated
    /\ UpToDate

-----------------------------------------------------------------------------
LEMMA SmallMod ==
    ASSUME NEW w \in Nat \ {0}, NEW a \in 0..w - 1
    PROVE  a % w = a
  BY SMT

LEMMA ClientSets ==
    ASSUME CountsAreSafe, NEW S \in SUBSET Clients
    PROVE  /\ IsFiniteSet(S)
           /\ Cardinality(S) \in Nat
           /\ Cardinality(S) \in 0..CounterWidth - 1
  <1>1. IsFiniteSet(S) /\ Cardinality(S) <= Cardinality(Clients)
    BY ClientsAssumption, FS_Subset
  <1>2. Cardinality(S) \in Nat /\ Cardinality(Clients) \in Nat
    BY <1>1, ClientsAssumption, FS_CardinalityType
  <1>3. QED
    BY <1>1, <1>2, CounterAssumption DEF CountsAreSafe

\* The counter counts one client in, one client out, some clients out.
LEMMA CountIn ==
    ASSUME CountsAreSafe, NEW S \in SUBSET Clients, NEW c \in Clients, c \notin S
    PROVE  (Cardinality(S) + 1) % CounterWidth = Cardinality(S \cup {c})
  <1>1. Cardinality(S \cup {c}) = Cardinality(S) + 1
    BY ClientSets, FS_AddElement
  <1>2. Cardinality(S \cup {c}) \in 0..CounterWidth - 1
    BY ClientSets
  <1>3. QED
    BY <1>1, <1>2, SmallMod, CounterAssumption

LEMMA CountWithout ==
    ASSUME CountsAreSafe, NEW S \in SUBSET Clients, NEW T \in SUBSET S
    PROVE  (Cardinality(S) + (-Cardinality(T))) % CounterWidth = Cardinality(S \ T)
  <1>1. IsFiniteSet(S) /\ IsFiniteSet(T) /\ Cardinality(S) \in Nat /\ Cardinality(T) \in Nat
    BY ClientSets
  <1>2. Cardinality(S \ T) = Cardinality(S) - Cardinality(S \cap T)
    BY <1>1, FS_Difference
  <1>3. S \cap T = T
    OBVIOUS
  <1>4. Cardinality(S \ T) = Cardinality(S) + (-Cardinality(T))
    BY <1>1, <1>2, <1>3
  <1>5. Cardinality(S \ T) \in 0..CounterWidth - 1
    BY ClientSets
  <1>6. QED
    BY <1>4, <1>5, SmallMod, CounterAssumption

LEMMA CountOut ==
    ASSUME CountsAreSafe, NEW S \in SUBSET Clients, NEW c \in S
    PROVE  (Cardinality(S) + (-1)) % CounterWidth = Cardinality(S \ {c})
  <1>1. Cardinality({c}) = 1
    BY FS_Singleton
  <1>2. {c} \in SUBSET S
    OBVIOUS
  <1>3. (Cardinality(S) + (-Cardinality({c}))) % CounterWidth = Cardinality(S \ {c})
    BY <1>2, CountWithout
  <1>4. QED
    BY <1>1, <1>3

\* A chunk counts nobody exactly if nobody is counted in.
LEMMA NobodyCounted ==
    ASSUME CountsAreSafe, NEW l, NEW p
    PROVE  Cardinality(Members(l, p)) = 0 <=> \A c \in Clients : ~CountedIn(c, l, p)
  <1>1. Members(l, p) \in SUBSET Clients
    BY DEF Members
  <1>2. IsFiniteSet(Members(l, p))
    BY <1>1, ClientSets
  <1>3. Cardinality(Members(l, p)) = 0 <=> Members(l, p) = {}
    BY <1>2, FS_EmptySet
  <1>4. QED
    BY <1>3 DEF Members

-----------------------------------------------------------------------------
(***************************************************************************)
(* Calls on chunks, position by position.                                  *)
(***************************************************************************)
PositionFine(l, p) ==
    /\ CountAt(l, p)
    /\ \A c \in Clients :
           /\ conn[c] \in {"offline", "gone"} => Restful(c, l, p)
           /\ HasClient(c) /\ Had(c, l, p) => BehindAt(c, l, p)

ClientsKept ==
    /\ Open /\ phase' = phase
    /\ UNCHANGED <<conn, view, layer, oldView, oldLayer, shown>>

LEMMA OpenIsFine ==
    ASSUME VInv, Open, NEW l \in Layers, NEW p \in Positions
    PROVE  PositionFine(l, p)
  <1>1. CountAt(l, p)
    BY DEF VInv, Counts
  <1>2. ASSUME NEW c \in Clients, conn[c] \in {"offline", "gone"} PROVE Restful(c, l, p)
    BY <1>2 DEF VInv, LeftAtRest, Open
  <1>3. ASSUME NEW c \in Clients, HasClient(c), Had(c, l, p) PROVE BehindAt(c, l, p)
    BY <1>3 DEF VInv, UpToDate, Behind
  <1>4. QED
    BY <1>1, <1>2, <1>3 DEF PositionFine

LEMMA FinePositions ==
    ASSUME VInv, IInv', MessagesMatchChunks', ClientsKept,
           \A l \in Layers, p \in Positions : PositionFine(l, p)'
    PROVE  VInv'
  <1>1. Counts'
    BY DEF PositionFine, Counts
  <1>2. AbsentEmpty'
    BY DEF VInv, AbsentEmpty, NothingYet, ClientsKept
  <1>3. LeftAtRest'
    BY DEF VInv, LeftAtRest, ClientsKept, PositionFine
  <1>4. LayersUpdated'
    BY DEF LayersUpdated, ClientsKept, Open
  <1>5. UpToDate'
    <2> SUFFICES ASSUME NEW c \in Clients, HasClient(c)' PROVE Behind(c)'
      BY DEF UpToDate, ClientsKept, Open
    <2>1. HasClient(c) /\ Behind(c)
      BY DEF VInv, UpToDate, ClientsKept, HasClient
    <2>2. \A l \in Layers, p \in Positions : Had(c, l, p)' <=> Had(c, l, p)
      BY DEF Had, ClientsKept
    <2>3. \A l \in Layers, p \in Positions : Had(c, l, p)' => BehindAt(c, l, p)'
      BY <2>1, <2>2 DEF PositionFine
    <2>4. QED
      BY <2>1, <2>2, <2>3 DEF Behind, ClientsKept
  <1>6. QED
    BY <1>1, <1>2, <1>3, <1>4, <1>5 DEF VInv

LEMMA KeptPosition ==
    ASSUME VInv, ClientsKept, NEW l \in Layers, NEW p \in Positions,
           chunk'[l][p] = chunk[l][p], stateMsgs'[l][p] = stateMsgs[l][p]
    PROVE  PositionFine(l, p)'
  <1>1. PositionFine(l, p)
    BY OpenIsFine DEF ClientsKept
  <1>2. Open' /\ Open /\ (Present(l, p)' <=> Present(l, p))
    BY DEF ClientsKept, Open, Present
  <1>3. CountAt(l, p)'
    <2>1. \A c \in Clients : CountedIn(c, l, p)' <=> CountedIn(c, l, p)
      BY <1>2 DEF CountedIn, ClientsKept, Open, Had
    <2>2. Members(l, p)' = Members(l, p)
      BY <2>1 DEF Members
    <2>3. QED
      BY <1>1, <1>2, <2>2 DEF PositionFine, CountAt
  <1>4. \A c \in Clients : /\ Restful(c, l, p)' <=> Restful(c, l, p)
                           /\ BehindAt(c, l, p)' <=> BehindAt(c, l, p)
                           /\ Had(c, l, p)' <=> Had(c, l, p)
                           /\ HasClient(c)' <=> HasClient(c)
    BY <1>2 DEF Restful, BehindAt, Had, HasClient, At, News, ClientsKept
  <1>5. QED
    BY <1>1, <1>3, <1>4 DEF PositionFine, ClientsKept

\* The first state of a message stays the first.
LEMMA FirstState ==
    ASSUME NEW s \in Seq(ChunkStates), NEW state \in ChunkStates
    PROVE  /\ Append(s, state) # <<>>
           /\ Append(s, state)[1] = IF s = <<>> THEN state ELSE s[1]
  <1>1. CASE s = <<>>
    BY <1>1
  <1>2. CASE s # <<>>
    <2>1. Len(s) \in Nat /\ Len(s) # 0
      BY <1>2
    <2>2. QED
      BY <1>2, <2>1
  <1>3. QED
    BY <1>1, <1>2

\* A position whose chunk has been put there or replaced counts nobody: those who
\* had it are told of it and count themselves in.
LEMMA NewChunkPosition ==
    ASSUME CountsAreSafe, VInv, ClientsKept, NEW l \in Layers, NEW p \in Positions,
           NEW state \in ChunkStates,
           stateMsgs'[l][p] = Append(stateMsgs[l][p], state),
           chunk'[l][p].viewers = 0,
           \A c \in Clients : conn[c] \in {"offline", "gone"} => ~At(c, l, p),
           \A c \in Clients :
               HasClient(c) /\ Had(c, l, p) /\ state = "LOAD" /\ stateMsgs[l][p] = <<>>
                   => shown[c][p] = NoBlock
    PROVE  PositionFine(l, p)'
  <1>1. PositionFine(l, p)
    BY OpenIsFine DEF ClientsKept
  <1>2. stateMsgs[l][p] \in Seq(ChunkStates)
    BY DEF VInv, IInv, TypeOK
  <1>3. /\ stateMsgs'[l][p] # <<>>
        /\ stateMsgs'[l][p][1] = IF stateMsgs[l][p] = <<>> THEN state ELSE stateMsgs[l][p][1]
    BY <1>2, FirstState
  <1>4. CountAt(l, p)'
    <2>1. \A c \in Clients : ~CountedIn(c, l, p)'
      BY <1>3 DEF CountedIn, ClientsKept, Open
    <2>2. Members(l, p)' = {}
      BY <2>1 DEF Members
    <2>3. QED
      BY <2>2, FS_EmptySet DEF CountAt
  <1>5. ASSUME NEW c \in Clients, conn'[c] \in {"offline", "gone"} PROVE Restful(c, l, p)'
    BY <1>5 DEF Restful, At, ClientsKept
  <1>6. ASSUME NEW c \in Clients, HasClient(c)', Had(c, l, p)' PROVE BehindAt(c, l, p)'
    <2>1. HasClient(c) /\ Had(c, l, p) /\ shown'[c][p] = shown[c][p]
      BY <1>6 DEF HasClient, Had, ClientsKept
    <2>2. BehindAt(c, l, p)
      BY <1>1, <2>1 DEF PositionFine
    <2>3. stateMsgs'[l][p][1] = "LOAD" => shown[c][p] = NoBlock
      BY <1>3, <2>1, <2>2 DEF BehindAt
    <2>4. QED
      BY <1>3, <2>1, <2>3 DEF BehindAt
  <1>7. QED
    BY <1>4, <1>5, <1>6 DEF PositionFine

LEMMA InsertVacantVInv ==
    ASSUME CountsAreSafe, VInv, IInv', MessagesMatchChunks',
           NEW l \in Layers, NEW p \in Positions, InsertVacant(l, p)
    PROVE  VInv'
  <1> DEFINE new == [viewers |-> 0, block |-> InsertedBlock, updates |-> NoBlock]
  <1>1. TypeOK /\ PositionFine(l, p) /\ ClientsKept
    BY OpenIsFine DEF VInv, IInv, InsertVacant, Call, ClientsKept, Open, schedule
  <1>2. new \in LoadedChunks /\ new.viewers = 0
    BY BlocksAssumption, CounterAssumption DEF LoadedChunks
  <1>3. /\ chunk' = [chunk EXCEPT ![l][p] = new]
        /\ stateMsgs' = [stateMsgs EXCEPT ![l][p] = Append(@, "LOAD")]
        /\ ~Present(l, p)
        /\ \A c \in Clients : ~Unattended(c, l, p)
    BY DEF InsertVacant, CountsAreSafe
  <1> HIDE DEF new
  <1>4. /\ chunk'[l][p] = new
        /\ \A m \in Layers, q \in Positions :
               <<m, q>> # <<l, p>> => chunk'[m][q] = chunk[m][q]
    BY <1>1, <1>3 DEF TypeOK
  <1>5. /\ stateMsgs'[l][p] = Append(stateMsgs[l][p], "LOAD")
        /\ \A m \in Layers, q \in Positions :
               <<m, q>> # <<l, p>> => stateMsgs'[m][q] = stateMsgs[m][q]
    BY <1>1, <1>3, OneMessage DEF ChunkStates, TypeOK
  <1>6. \A c \in Clients : conn[c] \in {"offline", "gone"} => ~At(c, l, p)
    BY <1>3 DEF Unattended, At
  <1>7. \A c \in Clients :
            HasClient(c) /\ Had(c, l, p) /\ stateMsgs[l][p] = <<>> => shown[c][p] = NoBlock
    BY <1>1, <1>3 DEF PositionFine, BehindAt
  <1>8. PositionFine(l, p)'
    BY <1>1, <1>2, <1>4, <1>5, <1>6, <1>7, NewChunkPosition DEF ChunkStates
  <1>9. \A m \in Layers, q \in Positions : PositionFine(m, q)'
    BY <1>1, <1>4, <1>5, <1>8, KeptPosition
  <1>10. QED
    BY <1>1, <1>9, FinePositions

\* Only a chunk without viewers is replaced.
LEMMA InsertOccupiedVInv ==
    ASSUME CountsAreSafe, VInv, IInv', MessagesMatchChunks',
           NEW l \in Layers, NEW p \in Positions, InsertOccupied(l, p)
    PROVE  VInv'
  <1> DEFINE new == [chunk[l][p] EXCEPT !.block = InsertedBlock, !.updates = NoBlock]
  <1>1. TypeOK /\ PositionFine(l, p) /\ ClientsKept
    BY OpenIsFine DEF VInv, IInv, InsertOccupied, Call, ClientsKept, Open, schedule
  <1>2. Present(l, p) /\ chunk[l][p] \in LoadedChunks /\ chunk[l][p].viewers = 0
    <2>1. Present(l, p) /\ chunk[l][p].viewers <= 0
      BY DEF InsertOccupied, Call, CountsAreSafe
    <2>2. chunk[l][p] \in LoadedChunks /\ chunk[l][p].viewers \in Nat
      BY <1>1, <2>1, PresentIsLoaded
    <2>3. QED
      BY <2>1, <2>2
  <1>3. new \in LoadedChunks /\ new.viewers = 0
    BY <1>2, BlocksAssumption DEF LoadedChunks
  <1>4. /\ chunk' = [chunk EXCEPT ![l][p] = new]
        /\ stateMsgs' = [stateMsgs EXCEPT ![l][p] = Append(@, "OVERWRITE")]
    BY <1>1 DEF InsertOccupied, TypeOK
  <1> HIDE DEF new
  <1>5. /\ chunk'[l][p] = new
        /\ \A m \in Layers, q \in Positions :
               <<m, q>> # <<l, p>> => chunk'[m][q] = chunk[m][q]
    BY <1>1, <1>4 DEF TypeOK
  <1>6. /\ stateMsgs'[l][p] = Append(stateMsgs[l][p], "OVERWRITE")
        /\ \A m \in Layers, q \in Positions :
               <<m, q>> # <<l, p>> => stateMsgs'[m][q] = stateMsgs[m][q]
    BY <1>1, <1>4, OneMessage DEF ChunkStates, TypeOK
  <1>7. \A c \in Clients : conn[c] \in {"offline", "gone"} => ~At(c, l, p)
    <2> SUFFICES ASSUME NEW c \in Clients, conn[c] \in {"offline", "gone"}, At(c, l, p)
                 PROVE  FALSE
      OBVIOUS
    <2>1. stateMsgs[l][p] = <<>>
      BY <1>1, <1>2 DEF PositionFine, Restful
    <2>2. Had(c, l, p)
      BY <1>1 DEF VInv, LeftAtRest, At, Had, ClientsKept, Open
    <2>3. CountedIn(c, l, p)
      BY <1>1, <2>1, <2>2 DEF CountedIn, ClientsKept
    <2>4. Cardinality(Members(l, p)) = 0
      BY <1>1, <1>2 DEF PositionFine, CountAt
    <2>5. QED
      BY <2>3, <2>4, NobodyCounted
  <1>8. PositionFine(l, p)'
    BY <1>1, <1>3, <1>5, <1>6, <1>7, NewChunkPosition DEF ChunkStates
  <1>9. \A m \in Layers, q \in Positions : PositionFine(m, q)'
    BY <1>1, <1>5, <1>6, <1>8, KeptPosition
  <1>10. QED
    BY <1>1, <1>9, FinePositions

LEMMA UnloadVInv ==
    ASSUME CountsAreSafe, VInv, IInv', MessagesMatchChunks',
           NEW l \in Layers, NEW ps \in SUBSET Positions, NEW kind,
           Call(kind), Unload(l, ps)
    PROVE  VInv'
  <1>1. TypeOK /\ ClientsKept
    BY DEF VInv, IInv, Unload, Call, ClientsKept, Open, schedule
  <1>2. \A m \in Layers, q \in Positions :
            /\ chunk'[m][q] = IF m = l /\ q \in ps THEN Absent ELSE chunk[m][q]
            /\ stateMsgs'[m][q] = IF m = l /\ q \in ps
                                  THEN Append(stateMsgs[m][q], "UNLOAD")
                                  ELSE stateMsgs[m][q]
    BY <1>1 DEF TypeOK, Unload
  <1>3. ASSUME NEW p \in ps PROVE PositionFine(l, p)'
    <2>1. PositionFine(l, p)
      BY <1>1, OpenIsFine DEF ClientsKept
    <2>2. ~Present(l, p)'
      BY <1>2 DEF Present
    <2>3. /\ stateMsgs'[l][p] # <<>>
          /\ stateMsgs'[l][p][1] =
                 IF stateMsgs[l][p] = <<>> THEN "UNLOAD" ELSE stateMsgs[l][p][1]
      <3>1. stateMsgs[l][p] \in Seq(ChunkStates) /\ "UNLOAD" \in ChunkStates
        BY <1>1 DEF TypeOK, ChunkStates
      <3>2. stateMsgs'[l][p] = Append(stateMsgs[l][p], "UNLOAD")
        BY <1>2
      <3>3. QED
        BY <3>1, <3>2, FirstState
    <2>4. ASSUME NEW c \in Clients, HasClient(c)', Had(c, l, p)' PROVE BehindAt(c, l, p)'
      <3>1. HasClient(c) /\ Had(c, l, p) /\ shown'[c][p] = shown[c][p]
        BY <1>1, <2>4 DEF HasClient, Had, ClientsKept
      <3>2. BehindAt(c, l, p)
        BY <2>1, <3>1 DEF PositionFine
      <3>3. QED
        BY <2>3, <3>1, <3>2 DEF BehindAt
    <2>5. QED
      BY <2>2, <2>4 DEF PositionFine, CountAt, Restful
  <1>4. \A m \in Layers, q \in Positions : PositionFine(m, q)'
    BY <1>1, <1>2, <1>3, KeptPosition
  <1>5. QED
    BY <1>1, <1>4, FinePositions

LEMMA SetBlockVInv ==
    ASSUME CountsAreSafe, VInv, IInv', MessagesMatchChunks',
           NEW l \in Layers, NEW p \in Positions, NEW b \in Blocks, SetBlock(l, p, b)
    PROVE  VInv'
  <1> DEFINE ch == chunk[l][p]
             new == [ch EXCEPT !.block = b, !.updates = Recorded(ch, b)]
  <1>1. TypeOK /\ PositionFine(l, p) /\ ClientsKept
    BY OpenIsFine DEF VInv, IInv, SetBlock, Call, ClientsKept, Open, schedule
  <1>2. Present(l, p) /\ ch \in LoadedChunks /\ UNCHANGED stateMsgs
    BY <1>1, PresentIsLoaded DEF SetBlock
  <1>3. /\ new \in LoadedChunks
        /\ new.viewers = ch.viewers /\ new.block = b /\ new.updates = Recorded(ch, b)
    <2>1. Recorded(ch, b) \in Blocks \cup {NoBlock}
      BY <1>2 DEF LoadedChunks, Recorded
    <2>2. QED
      BY <1>2, <2>1 DEF LoadedChunks
  <1>4. chunk' = [chunk EXCEPT ![l][p] = new]
    BY <1>1 DEF TypeOK, SetBlock
  <1> HIDE DEF new
  <1>5. /\ chunk'[l][p] = new
        /\ Present(l, p)'
        /\ \A m \in Layers, q \in Positions :
               <<m, q>> # <<l, p>> => chunk'[m][q] = chunk[m][q]
    BY <1>1, <1>3, <1>4, OnePosition
  <1>6. CountAt(l, p)'
    <2>1. \A c \in Clients : CountedIn(c, l, p)' <=> CountedIn(c, l, p)
      BY <1>1, <1>2 DEF CountedIn, ClientsKept, Open, Had
    <2>2. Members(l, p)' = Members(l, p)
      BY <2>1 DEF Members
    <2>3. QED
      BY <1>1, <1>2, <1>3, <1>5, <2>2 DEF PositionFine, CountAt
  <1>7. \A c \in Clients : conn'[c] \in {"offline", "gone"} => Restful(c, l, p)'
    BY <1>1, <1>2 DEF PositionFine, Restful, At, ClientsKept
  <1>8. ASSUME NEW c \in Clients, HasClient(c)', Had(c, l, p)' PROVE BehindAt(c, l, p)'
    <2>1. HasClient(c) /\ Had(c, l, p) /\ shown'[c][p] = shown[c][p]
      BY <1>1, <1>8 DEF HasClient, Had, ClientsKept
    <2>2. BehindAt(c, l, p)
      BY <1>1, <2>1 DEF PositionFine
    <2>3. stateMsgs[l][p] = <<>> => chunk'[l][p].updates = b
      <3> SUFFICES ASSUME stateMsgs[l][p] = <<>> PROVE ch.viewers > 0
        BY <1>3, <1>5 DEF Recorded
      <3>1. CountedIn(c, l, p)
        BY <1>1, <2>1 DEF CountedIn, ClientsKept
      <3>2. Cardinality(Members(l, p)) # 0
        BY <3>1, NobodyCounted
      <3>3. ch.viewers = Cardinality(Members(l, p)) /\ ch.viewers \in Nat
        BY <1>1, <1>2, PresentIsLoaded DEF PositionFine, CountAt
      <3>4. QED
        BY <3>2, <3>3
    <2>4. stateMsgs[l][p] = <<>> => shown[c][p] # NoBlock
      BY <1>2, <2>2 DEF BehindAt
    <2>5. News(l, p)' = chunk'[l][p].updates
      BY <1>1 DEF News, ClientsKept, Open
    <2>6. b # NoBlock /\ chunk'[l][p].block = b
      BY <1>3, <1>5, BlocksAssumption
    <2>7. QED
      BY <1>2, <1>5, <2>1, <2>2, <2>3, <2>4, <2>5, <2>6 DEF BehindAt
  <1>9. PositionFine(l, p)'
    BY <1>6, <1>7, <1>8 DEF PositionFine
  <1>10. \A m \in Layers, q \in Positions : PositionFine(m, q)'
    BY <1>1, <1>2, <1>5, <1>9, KeptPosition
  <1>11. QED
    BY <1>1, <1>10, FinePositions

-----------------------------------------------------------------------------
(***************************************************************************)
(* Calls on clients, and the departures.                                   *)
(***************************************************************************)
ChunksKept ==
    /\ phase' = phase \/ (Open /\ Open')
    /\ UNCHANGED <<chunk, stateMsgs, blockMsgs, oldView, oldLayer, shown, todo>>

\* Before PostUpdate neither a client's view nor its layer counts.
LEMMA MovedVInv ==
    ASSUME VInv, IInv', MessagesMatchChunks', ChunksKept, Open, Open',
           UNCHANGED conn,
           \A c \in Clients : ~HasClient(c) => layer'[c] = layer[c] /\ view'[c] = view[c]
    PROVE  VInv'
  <1>1. \A l \in Layers, p \in Positions : Present(l, p)' <=> Present(l, p)
    BY DEF Present, ChunksKept
  <1>2. Counts'
    <2>1. ASSUME NEW l \in Layers, NEW p \in Positions PROVE Members(l, p)' = Members(l, p)
      BY DEF Members, CountedIn, Had, Open, ChunksKept
    <2>2. QED
      BY <1>1, <2>1 DEF VInv, Counts, CountAt, ChunksKept
  <1>3. AbsentEmpty'
    BY DEF VInv, AbsentEmpty, NothingYet, ChunksKept, HasClient
  <1>4. LeftAtRest'
    <2> SUFFICES ASSUME NEW c \in Clients, conn'[c] \in {"offline", "gone"}
                 PROVE  /\ layer'[c] = oldLayer'[c] /\ view'[c] = oldView'[c]
                        /\ \A l \in Layers, p \in Positions : Restful(c, l, p)'
      BY DEF LeftAtRest
    <2>1. conn[c] \in {"offline", "gone"} /\ ~HasClient(c)
      BY DEF HasClient
    <2>2. layer'[c] = layer[c] /\ view'[c] = view[c]
      BY <2>1
    <2>3. /\ layer[c] = oldLayer[c] /\ view[c] = oldView[c]
          /\ \A l \in Layers, p \in Positions : Restful(c, l, p)
      BY <2>1 DEF VInv, LeftAtRest, Open
    <2>4. QED
      BY <1>1, <2>2, <2>3 DEF Restful, At, ChunksKept
  <1>5. LayersUpdated'
    BY DEF LayersUpdated, Open
  <1>6. UpToDate'
    <2> SUFFICES ASSUME NEW c \in Clients, HasClient(c)' PROVE Behind(c)'
      BY DEF UpToDate, Open
    <2>1. HasClient(c) /\ Behind(c)
      BY DEF VInv, UpToDate, HasClient
    <2>2. \A l \in Layers, p \in Positions :
              /\ Had(c, l, p)' <=> Had(c, l, p)
              /\ BehindAt(c, l, p)' <=> BehindAt(c, l, p)
      BY <1>1 DEF Had, BehindAt, News, ChunksKept
    <2>3. QED
      BY <2>1, <2>2 DEF Behind, ChunksKept
  <1>7. QED
    BY <1>2, <1>3, <1>4, <1>5, <1>6 DEF VInv

\* A change of connections before PostUpdate or after it.
LEMMA ConnectionsVInv ==
    ASSUME VInv, IInv', MessagesMatchChunks', ChunksKept, UNCHANGED <<view, layer>>,
           Open \/ phase = "endTick",
           \A c \in Clients :
               /\ conn'[c] = "absent" => conn[c] = "absent"
               /\ HasClient(c)' => HasClient(c) \/ (Open /\ conn[c] = "absent")
               /\ phase = "endTick" => (IsDespawned(c)' <=> IsDespawned(c))
               /\ Open /\ conn'[c] \in {"offline", "gone"} =>
                      \/ conn[c] \in {"offline", "gone"}
                      \/ /\ layer[c] = oldLayer[c] /\ view[c] = oldView[c]
                         /\ \A l \in Layers, p \in Positions : Restful(c, l, p)
    PROVE  VInv'
  <1>1. /\ \A l \in Layers, p \in Positions : Present(l, p)' <=> Present(l, p)
        /\ Open' <=> Open
        /\ phase = "endTick" <=> phase' = "endTick"
    BY DEF Present, ChunksKept, Open
  <1>2. Counts'
    <2>1. ASSUME NEW l \in Layers, NEW p \in Positions PROVE Members(l, p)' = Members(l, p)
      <3>1. \A c \in Clients : CountedIn(c, l, p)' <=> CountedIn(c, l, p)
        BY <1>1 DEF CountedIn, Had, At, ChunksKept, Open
      <3>2. QED
        BY <3>1 DEF Members
    <2>2. QED
      BY <1>1, <2>1 DEF VInv, Counts, CountAt, ChunksKept
  <1>3. AbsentEmpty'
    BY DEF VInv, AbsentEmpty, NothingYet, ChunksKept
  <1>4. LeftAtRest'
    <2> SUFFICES ASSUME NEW c \in Clients, conn'[c] \in {"offline", "gone"}, Open
                 PROVE  /\ layer'[c] = oldLayer'[c] /\ view'[c] = oldView'[c]
                        /\ \A l \in Layers, p \in Positions : Restful(c, l, p)'
      BY <1>1 DEF LeftAtRest, Open
    <2>1. /\ layer[c] = oldLayer[c] /\ view[c] = oldView[c]
          /\ \A l \in Layers, p \in Positions : Restful(c, l, p)
      BY DEF VInv, LeftAtRest, Open
    <2>2. QED
      BY <1>1, <2>1 DEF Restful, At, ChunksKept
  <1>5. LayersUpdated'
    BY <1>1 DEF VInv, LayersUpdated, ChunksKept, Open
  <1>6. UpToDate'
    <2> SUFFICES ASSUME NEW c \in Clients, HasClient(c)'
                 PROVE  /\ Open => Behind(c)'
                        /\ phase = "endTick" => SeesNew(c)'
      BY <1>1 DEF UpToDate, Open
    <2>1. ASSUME Open PROVE Behind(c)'
      <3>1. Behind(c)
        <4>1. CASE HasClient(c)
          BY <2>1, <4>1 DEF VInv, UpToDate
        <4>2. CASE conn[c] = "absent"
          <5>1. NothingYet(c)
            BY <4>2 DEF VInv, AbsentEmpty
          <5>2. \A l \in Layers, p \in Positions : ~Had(c, l, p)
            BY <5>1, LayersAssumption DEF NothingYet, Had
          <5>3. QED
            BY <5>1, <5>2 DEF Behind, NothingYet
        <4>3. QED
          BY <4>1, <4>2
      <3>2. \A l \in Layers, p \in Positions :
                /\ Had(c, l, p)' <=> Had(c, l, p)
                /\ BehindAt(c, l, p)' <=> BehindAt(c, l, p)
        BY <1>1, <2>1 DEF Had, BehindAt, News, ChunksKept
      <3>3. QED
        BY <3>1, <3>2 DEF Behind, ChunksKept
    <2>2. ASSUME phase = "endTick" PROVE SeesNew(c)'
      <3>1. HasClient(c)
        BY <2>2 DEF Open
      <3>2. SeesNew(c)
        BY <2>2, <3>1 DEF VInv, UpToDate
      <3>3. QED
        BY <3>2 DEF SeesNew, Sees, Present, ChunksKept
    <2>3. QED
      BY <2>1, <2>2
  <1>7. QED
    BY <1>2, <1>3, <1>4, <1>5, <1>6 DEF VInv

LEMMA ClientCallVInv ==
    ASSUME CountsAreSafe, VInv, IInv', MessagesMatchChunks', NEW c \in Clients,
           \/ \E v \in Views : Move(c, v)
           \/ \E l \in Layers : Switch(c, l)
           \/ Join(c)
           \/ DespawnClient(c)
           \/ Disconnect(c)
           \/ LateDisconnect(c)
    PROVE  VInv'
  <1>1. TypeOK
    BY DEF VInv, IInv
  <1>2. ASSUME NEW v \in Views, Move(c, v) PROVE VInv'
    <2>1. ChunksKept /\ Open /\ Open' /\ UNCHANGED conn
      BY <1>2 DEF Move, Call, ChunksKept, Open, world, schedule
    <2>2. \A d \in Clients : ~HasClient(d) => layer'[d] = layer[d] /\ view'[d] = view[d]
      BY <1>1, <1>2 DEF Move, TypeOK
    <2>3. QED
      BY <2>1, <2>2, MovedVInv
  <1>3. ASSUME NEW l \in Layers, Switch(c, l) PROVE VInv'
    <2>1. ChunksKept /\ Open /\ Open' /\ UNCHANGED conn
      BY <1>3 DEF Switch, Call, ChunksKept, Open, world, schedule
    <2>2. \A d \in Clients : ~HasClient(d) => layer'[d] = layer[d] /\ view'[d] = view[d]
      BY <1>1, <1>3 DEF Switch, TypeOK
    <2>3. QED
      BY <2>1, <2>2, MovedVInv
  <1>4. ASSUME Join(c) \/ DespawnClient(c) \/ Disconnect(c) PROVE VInv'
    <2>1. ChunksKept /\ Open /\ UNCHANGED <<view, layer>>
      BY <1>4 DEF Join, DespawnClient, Disconnect, Call, ChunksKept, Open, world, schedule
    <2>2. \A d \in Clients : d # c => conn'[d] = conn[d]
      BY <1>1, <1>4 DEF TypeOK, Join, DespawnClient, Disconnect
    <2>3. \/ conn[c] = "absent" /\ conn'[c] = "online"
          \/ conn[c] = "online" /\ conn'[c] = "leaving"
          \/ conn[c] = "online" /\ conn'[c] = "offline" /\ ~Disturbed(c)
      BY <1>1, <1>4 DEF TypeOK, Join, DespawnClient, Disconnect, CountsAreSafe
    <2>4. ~Disturbed(c) =>
              /\ layer[c] = oldLayer[c] /\ view[c] = oldView[c]
              /\ \A l \in Layers, p \in Positions : Restful(c, l, p)
      BY DEF Disturbed, Restful, At
    <2>5. phase # "endTick"
      BY <2>1 DEF Open
    <2>6. QED
      BY <2>1, <2>2, <2>3, <2>4, <2>5, ConnectionsVInv DEF HasClient
  <1>5. ASSUME LateDisconnect(c) PROVE VInv'
    <2>1. /\ ChunksKept /\ phase = "endTick" /\ UNCHANGED <<view, layer>>
          /\ conn[c] = "online"
      BY <1>5 DEF LateDisconnect, ChunksKept, world, schedule
    <2>2. conn' = [conn EXCEPT ![c] = "offline"]
      BY <1>5 DEF LateDisconnect
    <2>3. ~Open
      BY <2>1 DEF Open
    <2>4. /\ \A d \in Clients : d # c => conn'[d] = conn[d]
          /\ conn'[c] = "offline"
      BY <1>1, <2>2 DEF TypeOK
    <2>5. QED
      BY <2>1, <2>3, <2>4, ConnectionsVInv DEF HasClient, IsDespawned
  <1>6. QED
    BY <1>2, <1>3, <1>4, <1>5

LEMMA DespawnDisconnectedVInv ==
    ASSUME VInv, IInv', MessagesMatchChunks', DespawnDisconnected
    PROVE  VInv'
  <1>1. ChunksKept /\ Open /\ UNCHANGED <<view, layer>> /\ phase # "endTick"
    BY DEF DespawnDisconnected, ChunksKept, Open, world
  <1>2. \A c \in Clients :
            conn'[c] = IF conn[c] = "offline" THEN "gone" ELSE conn[c]
    BY DEF DespawnDisconnected
  <1>3. QED
    BY <1>1, <1>2, ConnectionsVInv DEF HasClient

-----------------------------------------------------------------------------
(***************************************************************************)
(* The systems of PostUpdate.                                              *)
(***************************************************************************)
\* Counting changes the count of a chunk alone.
LEMMA ViewedCount ==
    ASSUME TypeOK, NEW l \in Layers, NEW p \in Positions, Present(l, p), NEW n \in Int,
           chunk'[l][p] = Viewed(chunk[l][p], n)
    PROVE  /\ Present(l, p)'
           /\ chunk'[l][p].block = chunk[l][p].block
           /\ chunk'[l][p].viewers = (chunk[l][p].viewers + n) % CounterWidth
  <1>1. chunk[l][p] \in LoadedChunks
    BY PresentIsLoaded
  <1>2. QED
    BY <1>1, ViewedType DEF Viewed, LoadedChunks, Present

\* Which chunks there are, what they hold, and who is connected stays.
ScenesKept ==
    /\ UNCHANGED <<stateMsgs, blockMsgs, entities>>
    /\ \A l \in Layers, p \in Positions :
           /\ Present(l, p)' <=> Present(l, p)
           /\ Present(l, p) => chunk'[l][p].block = chunk[l][p].block

LEMMA PreClientVInv ==
    ASSUME VInv, IInv', MessagesMatchChunks', PreClient
    PROVE  VInv'
  <1> DEFINE Seen(l, p) == Present(l, p) /\ chunk[l][p].viewers > 0
  <1>1. /\ phase = "update" /\ phase' = "messages" /\ Open /\ ~Open'
        /\ todo' = {c \in Clients : HasClient(c)}
        /\ UNCHANGED <<stateMsgs, conn, view, oldView, layer, oldLayer, shown>>
    BY DEF PreClient, entities, Open
  <1>2. ASSUME NEW l \in Layers, NEW p \in Positions
        PROVE  /\ Present(l, p)' <=> Present(l, p)
               /\ Present(l, p) => /\ chunk'[l][p].block = chunk[l][p].block
                                   /\ chunk'[l][p].viewers = chunk[l][p].viewers
               /\ blockMsgs'[l][p] = IF Seen(l, p) THEN chunk[l][p].updates ELSE NoBlock
    <2>1. /\ chunk'[l][p] = IF Seen(l, p) THEN [chunk[l][p] EXCEPT !.updates = NoBlock]
                            ELSE chunk[l][p]
          /\ blockMsgs'[l][p] = IF Seen(l, p) THEN chunk[l][p].updates ELSE NoBlock
      BY <1>2 DEF PreClient
    <2>2. Present(l, p) => chunk[l][p] \in LoadedChunks
      BY <1>2, PresentIsLoaded DEF VInv, IInv
    <2>3. Present(l, p) => /\ [chunk[l][p] EXCEPT !.updates = NoBlock] \in LoadedChunks
                           /\ [chunk[l][p] EXCEPT !.updates = NoBlock].block = chunk[l][p].block
                           /\ [chunk[l][p] EXCEPT !.updates = NoBlock].viewers = chunk[l][p].viewers
      BY <2>2 DEF LoadedChunks
    <2>4. QED
      BY <1>2, <2>1, <2>3, AbsentAssumption DEF Present
  <1>3. ASSUME NEW c \in Clients, ~HasClient(c), NEW l \in Layers, NEW p \in Positions,
               Had(c, l, p), Present(l, p)
        PROVE  stateMsgs[l][p] = <<>>
    <2>1. conn[c] # "absent"
      BY <1>3, LayersAssumption DEF VInv, AbsentEmpty, NothingYet, Had
    <2>2. conn[c] \in {"offline", "gone"}
      BY <1>3, <2>1 DEF VInv, IInv, TypeOK, Connections, HasClient
    <2>3. QED
      BY <1>1, <1>3, <2>2 DEF VInv, LeftAtRest, Restful, Had, At
  <1>4. Counts'
    <2> SUFFICES ASSUME NEW l \in Layers, NEW p \in Positions, Present(l, p)
                 PROVE  chunk'[l][p].viewers = Cardinality(Members(l, p)')
      BY <1>2 DEF Counts, CountAt
    <2>1. \A c \in Clients : CountedIn(c, l, p)' <=> CountedIn(c, l, p)
      <3> SUFFICES ASSUME NEW c \in Clients
                   PROVE  CountedIn(c, l, p)' <=> CountedIn(c, l, p)
        OBVIOUS
      <3>1. CountedIn(c, l, p)' <=>
                Had(c, l, p) /\ (stateMsgs[l][p] = <<>> \/ ~HasClient(c))
        BY <1>1 DEF CountedIn, Had, Open
      <3>2. CountedIn(c, l, p) <=> Had(c, l, p) /\ stateMsgs[l][p] = <<>>
        BY <1>1 DEF CountedIn, Open
      <3>3. QED
        BY <1>3, <3>1, <3>2
    <2>2. Members(l, p)' = Members(l, p)
      BY <2>1 DEF Members
    <2>3. QED
      BY <1>2, <2>2 DEF VInv, Counts, CountAt
  <1>5. AbsentEmpty'
    BY <1>1 DEF VInv, AbsentEmpty, NothingYet
  <1>6. LeftAtRest'
    BY <1>1, <1>2 DEF VInv, LeftAtRest, Restful, At
  <1>7. LayersUpdated'
    BY <1>1 DEF LayersUpdated
  <1>8. UpToDate'
    <2> SUFFICES ASSUME NEW c \in Clients, HasClient(c) PROVE Behind(c)'
      BY <1>1 DEF UpToDate, HasClient, Open
    <2>1. Behind(c)
      BY <1>1 DEF VInv, UpToDate
    <2>2. ASSUME NEW l \in Layers, NEW p \in Positions, Had(c, l, p)
          PROVE  BehindAt(c, l, p)'
      <3>1. BehindAt(c, l, p)
        BY <2>1, <2>2 DEF Behind
      <3>2. stateMsgs[l][p] = <<>> /\ Present(l, p) => Seen(l, p)
        <4> SUFFICES ASSUME stateMsgs[l][p] = <<>>, Present(l, p)
                     PROVE  chunk[l][p].viewers > 0
          OBVIOUS
        <4>1. CountedIn(c, l, p)
          BY <1>1, <2>2 DEF CountedIn
        <4>2. chunk[l][p].viewers = Cardinality(Members(l, p))
          BY <2>2 DEF VInv, Counts, CountAt
        <4>3. chunk[l][p].viewers \in Nat
          BY <2>2, PresentIsLoaded DEF VInv, IInv
        <4>4. Cardinality(Members(l, p)) # 0
          <5>1. Members(l, p) \in SUBSET Clients /\ Members(l, p) # {}
            BY <4>1 DEF Members
          <5>2. IsFiniteSet(Members(l, p))
            BY <5>1, ClientsAssumption, FS_Subset
          <5>3. QED
            BY <5>1, <5>2, FS_EmptySet
        <4>5. QED
          BY <4>2, <4>3, <4>4
      <3>3. stateMsgs[l][p] = <<>> /\ Present(l, p) => News(l, p)' = News(l, p)
        BY <1>1, <1>2, <2>2, <3>2 DEF News
      <3>4. QED
        BY <1>1, <1>2, <2>2, <3>1, <3>3 DEF BehindAt
    <2>3. \A l \in Layers, p \in Positions : Had(c, l, p)' <=> Had(c, l, p)
      BY <1>1 DEF Had
    <2>4. QED
      BY <1>1, <2>1, <2>2, <2>3 DEF Behind
  <1>9. QED
    BY <1>4, <1>5, <1>6, <1>7, <1>8 DEF VInv

\* What a client has after the messages for it is what is there.
LEMMA ToldTheTruth ==
    ASSUME VInv, phase = "messages", NEW c \in Clients, c \in todo, HasClient(c),
           NEW l \in Layers, NEW p \in Positions, Had(c, l, p)
    PROVE  Told(l, p, shown[c][p]) =
               IF Present(l, p) THEN chunk[l][p].block ELSE NoBlock
  <1> DEFINE s == stateMsgs[l][p]
  <1>1. BehindAt(c, l, p)
    BY DEF VInv, UpToDate, Behind
  <1>2. s \in Seq(ChunkStates)
    BY DEF VInv, IInv, TypeOK
  <1>3. s # <<>> => (Last(s) = "UNLOAD" <=> ~Present(l, p))
    BY DEF VInv, MessagesMatchChunks
  <1>4. s # <<>> => Len(s) \in Nat /\ Len(s) >= 1 /\ Last(s) \in ChunkStates
    BY <1>2 DEF Last
  <1>5. News(l, p) = blockMsgs[l][p]
    BY DEF News, Open
  <1>6. CASE s = <<>>
    <2>1. ~Loads(s) /\ ~Unloads(s)
      BY <1>6 DEF Loads, Unloads
    <2>2. QED
      BY <1>1, <1>5, <1>6, <2>1 DEF Told, BehindAt
  <1>7. CASE s # <<>> /\ Present(l, p)
    <2>1. Loads(s)
      BY <1>3, <1>4, <1>7 DEF Loads, ChunkStates
    <2>2. QED
      BY <1>7, <2>1 DEF Told
  <1>8. CASE s # <<>> /\ ~Present(l, p)
    <2>1. ~Loads(s) /\ (Unloads(s) \/ s[1] = "LOAD")
      BY <1>3, <1>8 DEF Loads, Unloads, CameAndWent
    <2>2. Unloads(s) \/ shown[c][p] = NoBlock
      BY <1>1, <1>8, <2>1 DEF BehindAt
    <2>3. QED
      BY <1>8, <2>1, <2>2 DEF Told
  <1>9. QED
    BY <1>6, <1>7, <1>8

LEMMA HandleMessagesVInv ==
    ASSUME CountsAreSafe, VInv, IInv', MessagesMatchChunks', NEW c \in Clients,
           HandleMessages(c)
    PROVE  VInv'
  <1> DEFINE tells(l, p) == Had(c, l, p) /\ Loads(stateMsgs[l][p])
  <1>1. /\ TypeOK /\ phase = "messages" /\ ~Open /\ ~Open' /\ c \in todo
        /\ todo' = todo \ {c}
        /\ UNCHANGED <<stateMsgs, blockMsgs, conn, view, oldView, layer, oldLayer, phase>>
    BY DEF VInv, IInv, HandleMessages, entities, Open
  <1>2. ASSUME NEW l \in Layers, NEW p \in Positions
        PROVE  chunk'[l][p] = IF tells(l, p) THEN Viewed(chunk[l][p], 1) ELSE chunk[l][p]
    <2>1. CASE oldLayer[c] = NoLayer
      BY <1>2, <2>1, LayersAssumption DEF HandleMessages, Had
    <2>2. CASE oldLayer[c] # NoLayer
      <3>1. /\ oldLayer[c] \in Layers
            /\ chunk' = [chunk EXCEPT ![oldLayer[c]] = [q \in Positions |->
                   IF q \in oldView[c] /\ Loads(stateMsgs[oldLayer[c]][q])
                   THEN Viewed(@[q], 1) ELSE @[q]]]
        BY <1>1, <2>2 DEF HandleMessages, TypeOK
      <3>2. QED
        BY <1>1, <1>2, <3>1 DEF TypeOK, Had
    <2>3. QED
      BY <2>1, <2>2
  <1>3. \A l \in Layers, p \in Positions : tells(l, p) => Present(l, p)
    BY DEF VInv, IInv, LoadsFindChunks
  <1>4. \A l \in Layers, p \in Positions :
            /\ Present(l, p)' <=> Present(l, p)
            /\ Present(l, p) => chunk'[l][p].block = chunk[l][p].block
    <2> SUFFICES ASSUME NEW l \in Layers, NEW p \in Positions
                 PROVE  /\ Present(l, p)' <=> Present(l, p)
                        /\ Present(l, p) => chunk'[l][p].block = chunk[l][p].block
      OBVIOUS
    <2>1. CASE tells(l, p)
      BY <1>1, <1>2, <1>3, <2>1, ViewedCount
    <2>2. CASE ~tells(l, p)
      BY <1>2, <2>2 DEF Present
    <2>3. QED
      BY <2>1, <2>2
  <1>5. Counts'
    <2> SUFFICES ASSUME NEW l \in Layers, NEW p \in Positions, Present(l, p)
                 PROVE  chunk'[l][p].viewers = Cardinality(Members(l, p)')
      BY <1>4 DEF Counts, CountAt
    <2>1. chunk[l][p].viewers = Cardinality(Members(l, p)) /\ Members(l, p) \in SUBSET Clients
      BY DEF VInv, Counts, CountAt, Members
    <2>2. \A d \in Clients :
              /\ CountedIn(d, l, p) <=>
                     Had(d, l, p) /\ (stateMsgs[l][p] = <<>> \/ d \notin todo)
              /\ CountedIn(d, l, p)' <=>
                     Had(d, l, p) /\ (stateMsgs[l][p] = <<>> \/ d \notin todo \/ d = c)
      BY <1>1 DEF CountedIn, Had
    <2>3. CASE tells(l, p)
      <3>1. c \notin Members(l, p)
        BY <1>1, <2>2, <2>3 DEF Members, Loads
      <3>2. Members(l, p)' = Members(l, p) \cup {c}
        BY <2>2, <2>3 DEF Members
      <3>3. chunk'[l][p].viewers = (chunk[l][p].viewers + 1) % CounterWidth
        BY <1>1, <1>2, <2>3, ViewedCount
      <3>4. QED
        BY <2>1, <3>1, <3>2, <3>3, CountIn
    <2>4. CASE ~tells(l, p)
      <3>1. Had(c, l, p) => stateMsgs[l][p] = <<>>
        <4>1. stateMsgs[l][p] # <<>> => Last(stateMsgs[l][p]) # "UNLOAD"
          BY DEF VInv, MessagesMatchChunks
        <4>2. stateMsgs[l][p] # <<>> => Last(stateMsgs[l][p]) \in ChunkStates
          BY <1>1 DEF TypeOK, Last
        <4>3. QED
          BY <2>4, <4>1, <4>2 DEF Loads, ChunkStates
      <3>2. Members(l, p)' = Members(l, p)
        BY <2>2, <3>1 DEF Members
      <3>3. QED
        BY <1>2, <2>1, <2>4, <3>2
    <2>5. QED
      BY <2>3, <2>4
  <1>6. shown' = [shown EXCEPT ![c] = [p \in Positions |->
               IF oldLayer[c] \in Layers /\ p \in oldView[c]
               THEN Told(oldLayer[c], p, shown[c][p]) ELSE shown[c][p]]]
    <2>1. CASE oldLayer[c] = NoLayer
      <3>1. UNCHANGED shown /\ oldLayer[c] \notin Layers
        BY <2>1, LayersAssumption DEF HandleMessages
      <3>2. shown[c] = [p \in Positions |-> shown[c][p]]
        BY <1>1 DEF TypeOK
      <3>3. shown = [shown EXCEPT ![c] = shown[c]]
        BY <1>1 DEF TypeOK
      <3>4. QED
        BY <3>1, <3>2, <3>3
    <2>2. CASE oldLayer[c] # NoLayer
      <3>1. oldLayer[c] \in Layers
        BY <1>1, <2>2 DEF TypeOK
      <3>2. QED
        BY <1>1, <2>2, <3>1 DEF HandleMessages, TypeOK
    <2>3. QED
      BY <2>1, <2>2
  <1>7. \A d \in Clients : d # c => shown'[d] = shown[d]
    BY <1>1, <1>6 DEF TypeOK
  <1>8. AbsentEmpty'
    <2> SUFFICES ASSUME NEW d \in Clients, conn[d] = "absent" PROVE NothingYet(d)'
      BY <1>1 DEF AbsentEmpty
    <2>1. NothingYet(d) /\ oldLayer[d] \notin Layers
      BY LayersAssumption DEF VInv, AbsentEmpty, NothingYet
    <2>2. \A p \in Positions : shown'[d][p] = shown[d][p]
      <3>1. CASE d = c
        BY <1>1, <1>6, <2>1, <3>1 DEF TypeOK
      <3>2. CASE d # c
        BY <1>7, <3>2
      <3>3. QED
        BY <3>1, <3>2
    <2>3. QED
      BY <1>1, <2>1, <2>2 DEF NothingYet
  <1>9. LeftAtRest'
    BY <1>1, <1>4 DEF VInv, LeftAtRest, Restful, At
  <1>10. LayersUpdated'
    BY <1>1 DEF LayersUpdated
  <1>11. UpToDate'
    <2> SUFFICES ASSUME NEW d \in Clients, HasClient(d)
                 PROVE  IF d \in todo' THEN Behind(d)' ELSE SeesOld(d)'
      BY <1>1 DEF UpToDate, HasClient, Open
    <2>1. CASE d = c
      <3>1. Behind(c)
        BY <1>1, <2>1 DEF VInv, UpToDate
      <3>2. ASSUME NEW p \in Positions
            PROVE  shown'[c][p] = IF p \in oldView[c] /\ Present(oldLayer[c], p)
                                  THEN chunk[oldLayer[c]][p].block ELSE NoBlock
        <4>1. shown'[c][p] = IF oldLayer[c] \in Layers /\ p \in oldView[c]
                             THEN Told(oldLayer[c], p, shown[c][p]) ELSE shown[c][p]
          BY <1>1, <1>6 DEF TypeOK
        <4>2. CASE oldLayer[c] \in Layers /\ p \in oldView[c]
          <5>1. Had(c, oldLayer[c], p)
            BY <4>2 DEF Had
          <5>2. QED
            BY <1>1, <2>1, <3>2, <4>1, <4>2, <5>1, ToldTheTruth
        <4>3. CASE ~(oldLayer[c] \in Layers /\ p \in oldView[c])
          <5>1. \A l \in Layers : ~Had(c, l, p)
            BY <4>3 DEF Had
          <5>2. shown[c][p] = NoBlock
            BY <3>1, <5>1 DEF Behind
          <5>3. QED
            BY <4>1, <4>3, <5>2 DEF Present
        <4>4. QED
          BY <4>2, <4>3
      <3>3. SeesOld(c)'
        BY <1>1, <1>4, <3>2 DEF SeesOld, Sees, Present
      <3>4. QED
        BY <1>1, <2>1, <3>3
    <2>2. CASE d # c /\ d \in todo
      <3>1. Behind(d)
        BY <1>1, <2>2 DEF VInv, UpToDate
      <3>2. \A l \in Layers, p \in Positions :
                /\ Had(d, l, p)' <=> Had(d, l, p)
                /\ BehindAt(d, l, p)' <=> BehindAt(d, l, p)
        BY <1>1, <1>4, <1>7, <2>2 DEF Had, BehindAt, News
      <3>3. QED
        BY <1>1, <1>7, <2>2, <3>1, <3>2 DEF Behind
    <2>3. CASE d # c /\ d \notin todo
      <3>1. SeesOld(d)
        BY <1>1, <2>3 DEF VInv, UpToDate
      <3>2. SeesOld(d)'
        BY <1>1, <1>4, <1>7, <2>3, <3>1 DEF SeesOld, Sees, Present
      <3>3. QED
        BY <1>1, <2>3, <3>2
    <2>4. QED
      BY <2>1, <2>2, <2>3
  <1>12. QED
    BY <1>5, <1>8, <1>9, <1>10, <1>11 DEF VInv

LEMMA StartViewsVInv ==
    ASSUME VInv, IInv', MessagesMatchChunks', StartViews
    PROVE  VInv'
  <1>1. /\ phase = "messages" /\ phase' = "views" /\ todo = {}
        /\ todo' = {c \in Clients : HasClient(c)}
        /\ UNCHANGED <<chunk, stateMsgs, conn, view, oldView, layer, oldLayer, shown>>
    BY DEF StartViews, world, entities
  <1>2. TypeOK
    BY DEF VInv, IInv
  <1>3. ASSUME NEW c \in Clients, ~HasClient(c)
        PROVE  oldLayer[c] = layer[c] /\
               \A l \in Layers, p \in Positions : Had(c, l, p) <=> At(c, l, p)
    <2>1. CASE conn[c] = "absent"
      BY <2>1, LayersAssumption DEF VInv, AbsentEmpty, NothingYet, Had, At
    <2>2. CASE conn[c] # "absent"
      <3>1. conn[c] \in {"offline", "gone"}
        BY <1>2, <1>3, <2>2 DEF TypeOK, Connections, HasClient
      <3>2. QED
        BY <1>1, <3>1 DEF VInv, LeftAtRest, Had, At
    <2>3. QED
      BY <2>1, <2>2
  <1>4. Counts'
    <2>1. ASSUME NEW l \in Layers, NEW p \in Positions PROVE Members(l, p)' = Members(l, p)
      <3>1. ASSUME NEW c \in Clients PROVE CountedIn(c, l, p)' <=> CountedIn(c, l, p)
        <4>1. CountedIn(c, l, p) <=> Had(c, l, p)
          BY <1>1 DEF CountedIn, Open
        <4>2. CountedIn(c, l, p)' <=> IF HasClient(c) THEN Had(c, l, p) ELSE At(c, l, p)
          BY <1>1 DEF CountedIn, Had, At, Open
        <4>3. QED
          BY <1>3, <2>1, <4>1, <4>2
      <3>2. QED
        BY <3>1 DEF Members
    <2>2. QED
      BY <1>1, <2>1 DEF VInv, Counts, CountAt, Present
  <1>5. AbsentEmpty'
    BY <1>1 DEF VInv, AbsentEmpty, NothingYet
  <1>6. LeftAtRest' /\ LayersUpdated'
    BY <1>1, <1>3 DEF LeftAtRest, LayersUpdated
  <1>7. UpToDate'
    <2> SUFFICES ASSUME NEW c \in Clients, HasClient(c) PROVE SeesOld(c)'
      BY <1>1 DEF UpToDate, HasClient, Open
    <2>1. SeesOld(c)
      BY <1>1 DEF VInv, UpToDate
    <2>2. QED
      BY <1>1, <2>1 DEF SeesOld, Sees, Present
  <1>8. QED
    BY <1>4, <1>5, <1>6, <1>7 DEF VInv

\* Which chunks a change of view leaves and enters.
LEMMA LeftAndEntered ==
    ASSUME NEW c \in Clients, NEW l \in Layers, NEW p \in Positions
    PROVE  /\ l = oldLayer[c] /\ p \in Forgotten(c) <=>
                  Present(l, p) /\ Had(c, l, p) /\ ~At(c, l, p)
           /\ l = layer[c] /\ p \in Initialized(c) <=>
                  Present(l, p) /\ At(c, l, p) /\ ~Had(c, l, p)
  BY DEF Forgotten, Initialized, Left, Entered, Had, At

LEMMA UpdateViewVInv ==
    ASSUME CountsAreSafe, VInv, IInv', MessagesMatchChunks', NEW c \in Clients,
           UpdateView(c)
    PROVE  VInv'
  <1> DEFINE leaves(l, p) == Had(c, l, p) /\ ~At(c, l, p)
             enters(l, p) == At(c, l, p) /\ ~Had(c, l, p)
  <1>1. /\ TypeOK /\ phase = "views" /\ ~Open /\ ~Open' /\ c \in todo
        /\ todo' = todo \ {c}
        /\ oldLayer' = [oldLayer EXCEPT ![c] = layer[c]]
        /\ UNCHANGED <<stateMsgs, blockMsgs, conn, view, oldView, layer, phase>>
    BY DEF VInv, IInv, UpdateView, Open
  <1>2. ASSUME NEW l \in Layers, NEW p \in Positions, Present(l, p)
        PROVE  chunk'[l][p] = IF leaves(l, p) THEN Viewed(chunk[l][p], -1)
                              ELSE IF enters(l, p) THEN Viewed(chunk[l][p], 1)
                              ELSE chunk[l][p]
    <2>1. chunk'[l][p] =
              IF l = oldLayer[c] /\ p \in Forgotten(c) THEN Viewed(chunk[l][p], -1)
              ELSE IF l = layer[c] /\ p \in Initialized(c) THEN Viewed(chunk[l][p], 1)
              ELSE chunk[l][p]
      BY <1>2 DEF UpdateView
    <2>2. QED
      BY <1>2, <2>1, LeftAndEntered
  <1>3. ASSUME NEW l \in Layers, NEW p \in Positions
        PROVE  /\ Present(l, p)' <=> Present(l, p)
               /\ Present(l, p) => chunk'[l][p].block = chunk[l][p].block
    <2>1. Present(l, p)' <=> Present(l, p)
      BY <1>3, UpdateViewIInv DEF VInv, StatesKept
    <2>2. ASSUME Present(l, p) PROVE chunk'[l][p].block = chunk[l][p].block
      BY <1>1, <1>2, <1>3, <2>2, ViewedCount
    <2>3. QED
      BY <2>1, <2>2
  <1>4. \A d \in Clients : d # c => oldLayer'[d] = oldLayer[d]
    BY <1>1 DEF TypeOK
  <1>5. oldLayer'[c] = layer[c]
    BY <1>1 DEF TypeOK
  <1>6. Counts'
    <2> SUFFICES ASSUME NEW l \in Layers, NEW p \in Positions, Present(l, p)
                 PROVE  chunk'[l][p].viewers = Cardinality(Members(l, p)')
      BY <1>3 DEF Counts, CountAt
    <2>1. chunk[l][p].viewers = Cardinality(Members(l, p)) /\ Members(l, p) \in SUBSET Clients
      BY DEF VInv, Counts, CountAt, Members
    <2>2. \A d \in Clients : d # c => (CountedIn(d, l, p)' <=> CountedIn(d, l, p))
      BY <1>1, <1>4 DEF CountedIn, Had, At
    <2>3. /\ CountedIn(c, l, p) <=> Had(c, l, p)
          /\ CountedIn(c, l, p)' <=> At(c, l, p)
      BY <1>1 DEF CountedIn, At
    <2>4. CASE leaves(l, p)
      <3>1. c \in Members(l, p) /\ Members(l, p)' = Members(l, p) \ {c}
        BY <2>2, <2>3, <2>4 DEF Members
      <3>2. chunk'[l][p].viewers = (chunk[l][p].viewers + (-1)) % CounterWidth
        BY <1>1, <1>2, <2>4, ViewedCount
      <3>3. QED
        BY <2>1, <3>1, <3>2, CountOut
    <2>5. CASE enters(l, p)
      <3>1. c \notin Members(l, p) /\ Members(l, p)' = Members(l, p) \cup {c}
        BY <2>2, <2>3, <2>5 DEF Members
      <3>2. chunk'[l][p].viewers = (chunk[l][p].viewers + 1) % CounterWidth
        <4>1. ~leaves(l, p)
          BY <2>5
        <4>2. QED
          BY <1>1, <1>2, <2>5, <4>1, ViewedCount
      <3>3. QED
        BY <2>1, <3>1, <3>2, CountIn
    <2>6. CASE ~leaves(l, p) /\ ~enters(l, p)
      <3>1. Members(l, p)' = Members(l, p)
        BY <2>2, <2>3, <2>6 DEF Members
      <3>2. QED
        BY <1>2, <2>1, <2>6, <3>1
    <2>7. QED
      BY <2>4, <2>5, <2>6
  <1>7. \A d \in Clients : d # c => shown'[d] = shown[d]
    BY <1>1 DEF UpdateView, TypeOK
  <1>8. ASSUME NEW p \in Positions
        PROVE  shown'[c][p] = IF p \in Initialized(c) THEN chunk[layer[c]][p].block
                              ELSE IF p \in Forgotten(c) THEN NoBlock
                              ELSE shown[c][p]
    BY <1>1, <1>8 DEF UpdateView, TypeOK
  <1>9. AbsentEmpty'
    <2> SUFFICES ASSUME NEW d \in Clients, conn[d] = "absent" PROVE NothingYet(d)'
      BY <1>1 DEF AbsentEmpty
    <2>1. NothingYet(d)
      BY DEF VInv, AbsentEmpty
    <2>2. CASE d # c
      BY <1>1, <1>4, <1>7, <2>1, <2>2 DEF NothingYet
    <2>3. CASE d = c
      <3>1. Initialized(c) = {} /\ Forgotten(c) = {}
        BY <2>1, <2>3, LayersAssumption DEF NothingYet, Initialized, Forgotten, Present
      <3>2. QED
        BY <1>1, <1>5, <1>8, <2>1, <2>3, <3>1 DEF NothingYet
    <2>4. QED
      BY <2>2, <2>3
  <1>10. LeftAtRest' /\ LayersUpdated'
    BY <1>1, <1>4, <1>5 DEF VInv, LeftAtRest, LayersUpdated
  <1>11. UpToDate'
    <2> SUFFICES ASSUME NEW d \in Clients, HasClient(d)
                 PROVE  IF d \in todo' THEN SeesOld(d)' ELSE SeesNew(d)'
      BY <1>1 DEF UpToDate, HasClient, Open
    <2>1. CASE d # c
      <3>1. IF d \in todo THEN SeesOld(d) ELSE SeesNew(d)
        BY <1>1 DEF VInv, UpToDate
      <3>2. /\ SeesOld(d) => SeesOld(d)'
            /\ SeesNew(d) => SeesNew(d)'
        BY <1>1, <1>3, <1>4, <1>7, <2>1 DEF SeesOld, SeesNew, Sees, Present
      <3>3. QED
        BY <1>1, <2>1, <3>1, <3>2
    <2>2. CASE d = c
      <3>1. SeesOld(c)
        BY <1>1, <2>2 DEF VInv, UpToDate
      <3>2. ASSUME NEW p \in Positions
            PROVE  shown'[c][p] = IF p \in view[c] /\ Present(layer[c], p)
                                  THEN chunk[layer[c]][p].block ELSE NoBlock
        <4>1. shown[c][p] = IF p \in oldView[c] /\ Present(oldLayer[c], p)
                            THEN chunk[oldLayer[c]][p].block ELSE NoBlock
          BY <3>1, <3>2 DEF SeesOld, Sees
        <4>2. CASE p \in Initialized(c)
          BY <1>8, <3>2, <4>2 DEF Initialized, Entered
        <4>3. CASE p \notin Initialized(c) /\ p \in Forgotten(c)
          BY <1>8, <3>2, <4>3 DEF Initialized, Forgotten, Left, Entered
        <4>4. CASE p \notin Initialized(c) /\ p \notin Forgotten(c)
          BY <1>8, <3>2, <4>1, <4>4 DEF Initialized, Forgotten, Left, Entered
        <4>5. QED
          BY <4>2, <4>3, <4>4
      <3>3. SeesNew(c)'
        BY <1>1, <1>3, <3>2 DEF SeesNew, Sees, Present
      <3>4. QED
        BY <1>1, <2>2, <3>3
    <2>3. QED
      BY <2>1, <2>2
  <1>12. QED
    BY <1>6, <1>9, <1>10, <1>11 DEF VInv

LEMMA StartCleanupVInv ==
    ASSUME VInv, IInv', MessagesMatchChunks', StartCleanup
    PROVE  VInv'
  <1>1. /\ phase = "views" /\ phase' = "cleanup" /\ todo = {}
        /\ UNCHANGED <<chunk, stateMsgs, conn, view, oldView, layer, oldLayer, shown>>
    BY DEF StartCleanup, world, entities
  <1>2. \A l \in Layers, p \in Positions : Members(l, p)' = Members(l, p)
    BY <1>1 DEF Members, CountedIn, At, Open
  <1>3. Counts'
    BY <1>1, <1>2 DEF VInv, Counts, CountAt, Present
  <1>4. AbsentEmpty' /\ LeftAtRest' /\ LayersUpdated'
    BY <1>1 DEF VInv, AbsentEmpty, NothingYet, LeftAtRest, LayersUpdated
  <1>5. UpToDate'
    BY <1>1 DEF VInv, UpToDate, HasClient, Open, SeesNew, Sees, Present
  <1>6. QED
    BY <1>3, <1>4, <1>5 DEF VInv

LEMMA CleanupVInv ==
    ASSUME CountsAreSafe, VInv, IInv', MessagesMatchChunks', Cleanup
    PROVE  VInv'
  <1>1. /\ TypeOK /\ phase = "cleanup" /\ phase' = "endTick"
        /\ UNCHANGED <<stateMsgs, conn, view, oldView, layer, oldLayer, shown>>
    BY DEF VInv, IInv, Cleanup, entities
  <1>2. ASSUME NEW l \in Layers, NEW p \in Positions, Present(l, p)
        PROVE  /\ Present(l, p)'
               /\ chunk'[l][p].block = chunk[l][p].block
               /\ chunk'[l][p].viewers = Cardinality(Members(l, p)')
    <2>1. chunk'[l][p] = Viewed(chunk[l][p], -Cardinality(Leavers(l, p)))
      BY <1>2 DEF Cleanup
    <2>2. /\ Members(l, p) \in SUBSET Clients
          /\ Leavers(l, p) \in SUBSET Members(l, p)
          /\ Members(l, p)' = Members(l, p) \ Leavers(l, p)
      BY <1>1 DEF Members, CountedIn, Leavers, At, Open, IsDespawned
    <2>3. Leavers(l, p) \in SUBSET Clients
      BY <2>2
    <2>4. -Cardinality(Leavers(l, p)) \in Int
      BY <2>3, ClientSets
    <2>5. /\ Present(l, p)'
          /\ chunk'[l][p].block = chunk[l][p].block
          /\ chunk'[l][p].viewers =
                 (chunk[l][p].viewers + (-Cardinality(Leavers(l, p)))) % CounterWidth
      BY <1>1, <1>2, <2>1, <2>4, ViewedCount
    <2>6. chunk[l][p].viewers = Cardinality(Members(l, p))
      BY <1>2 DEF VInv, Counts, CountAt
    <2>7. QED
      BY <2>2, <2>5, <2>6, CountWithout
  <1>3. \A l \in Layers, p \in Positions : Present(l, p)' <=> Present(l, p)
    BY CleanupIInv DEF VInv, StatesKept
  <1>4. Counts'
    BY <1>2, <1>3 DEF Counts, CountAt
  <1>5. AbsentEmpty' /\ LeftAtRest' /\ LayersUpdated'
    BY <1>1 DEF VInv, AbsentEmpty, NothingYet, LeftAtRest, LayersUpdated
  <1>6. UpToDate'
    <2> SUFFICES ASSUME NEW c \in Clients, HasClient(c) PROVE SeesNew(c)'
      BY <1>1 DEF UpToDate, HasClient, Open
    <2>1. SeesNew(c)
      BY <1>1 DEF VInv, UpToDate
    <2>2. QED
      BY <1>1, <1>2, <1>3, <2>1 DEF SeesNew, Sees, Present
  <1>7. QED
    BY <1>4, <1>5, <1>6 DEF VInv

LEMMA EndTickVInv ==
    ASSUME VInv, IInv', MessagesMatchChunks', EndTick
    PROVE  VInv'
  <1>1. /\ TypeOK /\ phase = "endTick" /\ phase' = "eventLoop" /\ UNCHANGED chunk
        /\ Open' /\ NothingRecorded
        /\ \A c \in Clients : oldLayer[c] = layer[c]
    BY DEF VInv, IInv, EndTick, LayersUpdated, Open
  <1>2. /\ \A l \in Layers, p \in Positions : stateMsgs'[l][p] = <<>>
        /\ \A c \in Clients :
               /\ conn'[c] = IF IsDespawned(c) THEN "absent" ELSE conn[c]
               /\ view'[c] = IF IsDespawned(c) THEN SpawnView ELSE view[c]
               /\ oldView'[c] = view'[c]
               /\ layer'[c] = IF IsDespawned(c) THEN NoLayer ELSE layer[c]
               /\ oldLayer'[c] = IF IsDespawned(c) THEN NoLayer ELSE layer[c]
               /\ \A p \in Positions :
                      shown'[c][p] = IF IsDespawned(c) THEN NoBlock ELSE shown[c][p]
    BY <1>1 DEF EndTick, NoMessages
  <1>3. \A l \in Layers, p \in Positions, c \in Clients :
            Had(c, l, p)' <=> At(c, l, p) /\ ~IsDespawned(c)
    BY <1>2, LayersAssumption DEF Had, At
  <1>4. Counts'
    <2>1. ASSUME NEW l \in Layers, NEW p \in Positions PROVE Members(l, p)' = Members(l, p)
      <3>1. \A c \in Clients : CountedIn(c, l, p)' <=> CountedIn(c, l, p)
        BY <1>1, <1>2, <1>3 DEF CountedIn, Open
      <3>2. QED
        BY <3>1 DEF Members
    <2>2. QED
      BY <1>1, <2>1 DEF VInv, Counts, CountAt, Present
  <1>5. AbsentEmpty'
    <2> SUFFICES ASSUME NEW c \in Clients, conn'[c] = "absent" PROVE NothingYet(c)'
      BY DEF AbsentEmpty
    <2>1. CASE IsDespawned(c)
      BY <1>2, <2>1 DEF NothingYet
    <2>2. CASE ~IsDespawned(c)
      BY <1>1, <1>2, <2>2 DEF VInv, AbsentEmpty, NothingYet
    <2>3. QED
      BY <2>1, <2>2
  <1>6. LeftAtRest' /\ LayersUpdated'
    BY <1>1, <1>2 DEF LeftAtRest, LayersUpdated, Restful
  <1>7. UpToDate'
    <2> SUFFICES ASSUME NEW c \in Clients, HasClient(c)' PROVE Behind(c)'
      BY <1>1 DEF UpToDate, Open
    <2>1. HasClient(c) /\ ~IsDespawned(c)
      BY <1>2 DEF HasClient, IsDespawned
    <2>2. SeesNew(c)
      BY <1>1, <2>1 DEF VInv, UpToDate
    <2>3. ASSUME NEW l \in Layers, NEW p \in Positions, Had(c, l, p)'
          PROVE  BehindAt(c, l, p)'
      <3>1. At(c, l, p)
        BY <1>3, <2>3
      <3>2. shown'[c][p] = IF Present(l, p) THEN chunk[l][p].block ELSE NoBlock
        BY <1>2, <2>1, <2>2, <2>3, <3>1 DEF SeesNew, Sees, At
      <3>3. Present(l, p) =>
                /\ chunk[l][p].updates = NoBlock
                /\ chunk[l][p].block \in Blocks
        BY <1>1, <2>3, PresentIsLoaded DEF NothingRecorded
      <3>4. (Present(l, p)' <=> Present(l, p)) /\ News(l, p)' = chunk[l][p].updates
        BY <1>1 DEF Present, News
      <3>5. QED
        BY <1>1, <1>2, <2>3, <3>2, <3>3, <3>4, BlocksAssumption DEF BehindAt
    <2>4. ASSUME NEW p \in Positions, \A l \in Layers : ~Had(c, l, p)'
          PROVE  shown'[c][p] = NoBlock
      <3>1. \A l \in Layers : ~At(c, l, p)
        BY <1>3, <2>1, <2>4
      <3>2. ~(p \in view[c] /\ Present(layer[c], p))
        BY <3>1 DEF At, Present
      <3>3. QED
        BY <1>2, <2>1, <2>2, <2>4, <3>2 DEF SeesNew, Sees
    <2>5. QED
      BY <2>3, <2>4 DEF Behind
  <1>8. QED
    BY <1>4, <1>5, <1>6, <1>7 DEF VInv

-----------------------------------------------------------------------------
LEMMA InitVInv == Init => VInv
  <1> SUFFICES ASSUME Init PROVE VInv
    OBVIOUS
  <1>1. /\ \A l \in Layers, p \in Positions : ~Present(l, p) /\ stateMsgs[l][p] = <<>>
        /\ \A c \in Clients : conn[c] = "absent" /\ NothingYet(c) /\ ~HasClient(c)
        /\ phase = "eventLoop"
    BY DEF Init, Present, NoMessages, NothingYet, HasClient
  <1>2. Counts /\ AbsentEmpty /\ LeftAtRest /\ LayersUpdated /\ UpToDate
    BY <1>1 DEF Counts, CountAt, AbsentEmpty, LeftAtRest, LayersUpdated, UpToDate
  <1>3. MessagesMatchChunks
    BY <1>1 DEF MessagesMatchChunks
  <1>4. QED
    BY <1>2, <1>3, InitIInv DEF VInv

LEMMA NextVInv ==
    ASSUME CountsAreSafe, VInv, [Next]_vars
    PROVE  VInv'
  <1>1. IInv' /\ MessagesMatchChunks'
    BY NextIInv, NextMatches DEF VInv, CountsAreSafe
  <1>2. ASSUME ChunkCall PROVE VInv'
    <2>1. ASSUME NEW l \in Layers, RetainViewed(l) PROVE VInv'
      BY <1>1, <2>1, UnloadVInv DEF RetainViewed
    <2>2. ASSUME NEW l \in Layers, NEW p \in Positions, InsertVacant(l, p) PROVE VInv'
      BY <1>1, <2>2, InsertVacantVInv
    <2>3. ASSUME NEW l \in Layers, NEW p \in Positions, InsertOccupied(l, p) PROVE VInv'
      BY <1>1, <2>3, InsertOccupiedVInv
    <2>4. ASSUME NEW l \in Layers, NEW p \in Positions, RemoveChunk(l, p) PROVE VInv'
      BY <1>1, <2>4, UnloadVInv DEF RemoveChunk
    <2>5. ASSUME NEW l \in Layers, NEW p \in Positions, RemoveEntry(l, p) PROVE FALSE
      BY <2>5 DEF RemoveEntry, Call, CountsAreSafe
    <2>6. ASSUME NEW l \in Layers, NEW p \in Positions, NEW b \in Blocks, SetBlock(l, p, b)
          PROVE  VInv'
      BY <1>1, <2>6, SetBlockVInv
    <2>7. QED
      BY <1>2, <2>1, <2>2, <2>3, <2>4, <2>5, <2>6 DEF ChunkCall
  <1>3. ASSUME ClientCall PROVE VInv'
    BY <1>1, <1>3, ClientCallVInv DEF ClientCall
  <1>4. ASSUME SystemStep PROVE VInv'
    BY <1>1, <1>4, DespawnDisconnectedVInv, PreClientVInv, HandleMessagesVInv,
       StartViewsVInv, UpdateViewVInv, StartCleanupVInv, CleanupVInv, EndTickVInv
    DEF SystemStep
  <1>5. ASSUME UNCHANGED vars PROVE VInv'
    <2>1. UNCHANGED <<chunk, stateMsgs, blockMsgs, conn, view, oldView, layer, oldLayer,
                      shown, phase, todo>>
      BY <1>5 DEF vars
    <2>2. \A l \in Layers, p \in Positions :
              /\ Present(l, p)' <=> Present(l, p)
              /\ Members(l, p)' = Members(l, p)
      BY <2>1 DEF Present, Members, CountedIn, Had, At, IsDespawned, Open
    <2>3. Counts'
      BY <2>1, <2>2 DEF VInv, Counts, CountAt
    <2>4. AbsentEmpty' /\ LeftAtRest' /\ LayersUpdated'
      BY <2>1, <2>2 DEF VInv, AbsentEmpty, NothingYet, LeftAtRest, Restful, At, LayersUpdated
    <2>5. \A c \in Clients :
              /\ HasClient(c)' <=> HasClient(c)
              /\ Behind(c)' <=> Behind(c)
              /\ SeesOld(c)' <=> SeesOld(c)
              /\ SeesNew(c)' <=> SeesNew(c)
      BY <2>1 DEF HasClient, Behind, BehindAt, Had, News, Open, SeesOld, SeesNew, Sees, Present
    <2>6. UpToDate'
      BY <2>1, <2>5 DEF VInv, UpToDate, Open
    <2>7. QED
      BY <1>1, <2>3, <2>4, <2>6 DEF VInv
  <1>6. QED
    BY <1>2, <1>3, <1>4, <1>5 DEF Next

LEMMA SpecVInv ==
    ASSUME CountsAreSafe
    PROVE  Spec => []VInv
  BY InitVInv, NextVInv, PTL DEF Spec

\* At the end of each tick the viewer count of a chunk is the number of clients
\* that have it in view, for any number of clients, layers and chunks, whatever
\* is inserted, removed and changed and wherever clients go in the tick: under
\* CountsAreSafe, and only there (loaded.rs:34-36).
THEOREM SpecViewerCountExact ==
    ASSUME CountsAreSafe
    PROVE  Spec => []ViewerCountExact
  <1>1. VInv => ViewerCountExact
    <2> SUFFICES ASSUME VInv, phase = "endTick",
                        NEW l \in Layers, NEW p \in Positions, Present(l, p)
                 PROVE  chunk[l][p].viewers = Cardinality(Viewers(l, p))
      BY DEF ViewerCountExact
    <2>1. ASSUME NEW c \in Clients
          PROVE  CountedIn(c, l, p) <=>
                     conn[c] \in {"online", "offline"} /\ layer[c] = l /\ p \in view[c]
      <3>1. conn[c] \in Connections /\ (conn[c] = "absent" => layer[c] # l)
        BY LayersAssumption DEF VInv, IInv, TypeOK, AbsentEmpty, NothingYet
      <3>2. CountedIn(c, l, p) <=> At(c, l, p) /\ ~IsDespawned(c)
        BY DEF CountedIn, Open
      <3>3. QED
        BY <3>1, <3>2 DEF At, IsDespawned, Connections
    <2>2. Members(l, p) = Viewers(l, p)
      BY <2>1 DEF Members, Viewers
    <2>3. QED
      BY <2>2 DEF VInv, Counts, CountAt
  <1>2. QED
    BY <1>1, SpecVInv, PTL

\* At the end of each tick a connected client has the chunks of its view, with
\* what they hold, and no others: nothing is missed, repeated or left behind on
\* the way through the messages and the view update (client.rs:663-781, 933-1208).
THEOREM SpecClientSeesView ==
    ASSUME CountsAreSafe
    PROVE  Spec => []ClientSeesView
  <1>1. VInv => ClientSeesView
    BY DEF VInv, UpToDate, ClientSeesView, HasClient, SeesNew, Sees
  <1>2. QED
    BY <1>1, SpecVInv, PTL

=============================================================================
