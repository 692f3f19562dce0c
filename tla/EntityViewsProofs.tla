--------------------------- MODULE EntityViewsProofs ---------------------------
(***************************************************************************)
(* Theorems about EntityViews, for any entities, clients, layers and       *)
(* positions: the cells of a layer hold exactly its entities provided that *)
(* no entity changes its layer and is despawned in one tick; a client has  *)
(* exactly the entities it should see provided that none of the three      *)
(* pairs of calls is made in one tick, and has each where it is provided   *)
(* that, besides, no hierarchy of messages can be split.                   *)
(***************************************************************************)
EXTENDS EntityViews, TLAPS

(***************************************************************************)
(* The inductive invariant.  Until change_entity_positions has run, a cell *)
(* holds what it held at the end of the last tick, which the Old           *)
(* components still name; from then on it holds what the components name.  *)
(* The Old layer of an entity that is despawned is its layer, which is     *)
(* where change_entity_positions looks for it.                             *)
(***************************************************************************)
Types ==
    /\ status \in [Entities -> Statuses]
    /\ layer \in [Entities -> Layers \cup {NoLayer}]
    /\ oldLayer \in [Entities -> Layers \cup {NoLayer}]
    /\ layerStatus \in [Layers -> Statuses]
    /\ phase \in {"update", "layers", "messages", "views", "endTick"}

OldMembers(l) == {f \in Entities : oldLayer[f] = l}
Members(l) == {f \in Entities : status[f] = "live" /\ layer[f] = l}

AbsentNowhere == \A e \in Entities : status[e] = "absent" => layer[e] = NoLayer /\ oldLayer[e] = NoLayer

DespawnedWhereLooked ==
    \A e \in Entities : status[e] = "despawned" => layer[e] = oldLayer[e] \/ oldLayer[e] = NoLayer

CellsOld ==
    phase \in {"update", "layers"} =>
        \A l \in Layers : Exists(l) => cells[l] = {OldHome(e) : e \in OldMembers(l)}

CellsNew ==
    phase \in {"messages", "views", "endTick"} =>
        \A l \in Layers : Exists(l) => cells[l] = {Home(e) : e \in Members(l)}

CInv ==
    /\ Types
    /\ AbsentNowhere
    /\ DespawnedWhereLooked
    /\ CellsOld
    /\ CellsNew

LooksAreSafe == "layer and despawn" \in Avoided

-----------------------------------------------------------------------------
(***************************************************************************)
(* Calls of user code.                                                     *)
(***************************************************************************)

\* A call leaves the cells and the Old components alone: as long as it brings no
\* layer back and respects what the Old layers say, the invariant is kept.
LEMMA CallKeeps ==
    ASSUME CInv, Call, Types', AbsentNowhere', DespawnedWhereLooked',
           \A l \in Layers : Exists(l)' => Exists(l)
    PROVE  CInv'
  <1>1. CellsOld'
    BY DEF CInv, Call, CellsOld, OldHome, OldMembers
  <1>2. CellsNew'
    BY DEF Call, CellsNew
  <1>3. QED
    BY <1>1, <1>2 DEF CInv

LEMMA SpawnKeeps ==
    ASSUME CInv, NEW e \in Entities, NEW p \in Positions, NEW l \in Layers, Spawn(e, p, l)
    PROVE  CInv'
  <1>1. Types' /\ AbsentNowhere' /\ DespawnedWhereLooked'
    BY DEF CInv, Types, AbsentNowhere, DespawnedWhereLooked, Spawn, Call, Statuses
  <1>2. QED
    BY <1>1, CallKeeps DEF Spawn, Exists

LEMMA MoveKeeps ==
    ASSUME CInv, NEW e \in Entities, NEW p \in Positions, Move(e, p)
    PROVE  CInv'
  <1>1. Types' /\ AbsentNowhere' /\ DespawnedWhereLooked'
    BY DEF CInv, Types, AbsentNowhere, DespawnedWhereLooked, Move, Call
  <1>2. QED
    BY <1>1, CallKeeps DEF Move, Exists

LEMMA ChangeLayerKeeps ==
    ASSUME CInv, NEW e \in Entities, NEW l \in Layers, ChangeLayer(e, l)
    PROVE  CInv'
  <1>1. Types' /\ AbsentNowhere' /\ DespawnedWhereLooked'
    BY DEF CInv, Types, AbsentNowhere, DespawnedWhereLooked, ChangeLayer, Call, Statuses
  <1>2. QED
    BY <1>1, CallKeeps DEF ChangeLayer, Exists

LEMMA DespawnKeeps ==
    ASSUME CInv, LooksAreSafe, NEW e \in Entities, Despawn(e)
    PROVE  CInv'
  <1>1. Types' /\ AbsentNowhere'
    BY DEF CInv, Types, AbsentNowhere, Despawn, Call, Statuses
  <1>2. DespawnedWhereLooked'
    BY DEF CInv, Types, DespawnedWhereLooked, Despawn, Call, SameLayer, LooksAreSafe
  <1>3. QED
    BY <1>1, <1>2, CallKeeps DEF Despawn, Exists

LEMMA DespawnLayerKeeps ==
    ASSUME CInv, NEW l \in Layers, DespawnLayer(l)
    PROVE  CInv'
  <1>1. Types' /\ AbsentNowhere' /\ DespawnedWhereLooked'
    BY DEF CInv, Types, AbsentNowhere, DespawnedWhereLooked, DespawnLayer, Call, Statuses
  <1>2. \A k \in Layers : Exists(k)' => Exists(k)
    BY DEF CInv, Types, DespawnLayer, Exists
  <1>3. QED
    BY <1>1, <1>2, CallKeeps DEF DespawnLayer

\* What user code asks of a client's views touches no entity.
LEMMA ViewCallKeeps ==
    ASSUME CInv, Call, UNCHANGED <<status, layer, layerStatus>>
    PROVE  CInv'
  <1>1. Types' /\ AbsentNowhere' /\ DespawnedWhereLooked'
    BY DEF CInv, Types, AbsentNowhere, DespawnedWhereLooked, Call
  <1>2. QED
    BY <1>1, CallKeeps DEF Exists

-----------------------------------------------------------------------------
(***************************************************************************)
(* The systems of PostUpdate.                                              *)
(***************************************************************************)

\* A new entity is in no cell: where its Old position is matters to none.
LEMMA InitEntitiesKeeps == ASSUME CInv, InitEntities PROVE CInv'
  <1>1. Types' /\ AbsentNowhere' /\ DespawnedWhereLooked'
    BY DEF CInv, Types, AbsentNowhere, DespawnedWhereLooked, InitEntities, layerVars
  <1>2. \A l \in Layers : \A e \in OldMembers(l) : oldPos'[e] = oldPos[e]
    BY NoLayerAssumption DEF InitEntities, OldMembers
  <1>3. CellsOld'
    <2> SUFFICES ASSUME NEW l \in Layers, Exists(l)'
                 PROVE  cells'[l] = {OldHome(e)' : e \in OldMembers(l)'}
      BY DEF CellsOld
    <2>1. OldMembers(l)' = OldMembers(l) /\ Exists(l) /\ cells' = cells
      BY DEF OldMembers, Exists, InitEntities, layerVars
    <2>2. \A e \in OldMembers(l) : OldHome(e)' = OldHome(e)
      BY <1>2 DEF OldHome
    <2>3. cells[l] = {OldHome(e) : e \in OldMembers(l)}
      BY <2>1 DEF CInv, CellsOld, InitEntities
    <2>4. QED
      BY <2>1, <2>2, <2>3
  <1>4. CellsNew'
    BY DEF CellsNew, InitEntities
  <1>5. QED
    BY <1>1, <1>3, <1>4 DEF CInv

\* The heart of the argument: what leaves the cells of a layer that exists is what
\* is not to stay where it is, and what enters is what was not there.
LEMMA EnteredExact ==
    ASSUME CInv, phase = "layers", NEW l \in Layers, Exists(l)
    PROVE  (cells[l] \ {OldHome(e) : e \in Leaving(l)}) \cup {Home(e) : e \in Entering(l)}
               = {Home(e) : e \in Members(l)}
  <1>1. cells[l] = {OldHome(e) : e \in OldMembers(l)}
    BY DEF CInv, CellsOld
  <1>2. l # NoLayer
    BY NoLayerAssumption
  <1>3. ASSUME NEW f \in OldMembers(l), f \notin Leaving(l)
        PROVE  f \in Members(l) /\ Home(f) = OldHome(f)
    <2>1. f \in Entities /\ oldLayer[f] = l /\ OldHome(f) \in cells[l]
      BY <1>1 DEF OldMembers
    <2>2. status[f] \in {"live", "despawned"}
      BY <2>1, <1>2 DEF CInv, Types, Statuses, AbsentNowhere
    <2>3. status[f] = "live"
      BY <1>3, <1>2, <2>1, <2>2 DEF CInv, DespawnedWhereLooked, Leaving, Despawned
    <2>4. layer[f] = l
      BY <1>3, <2>1, <2>3 DEF Leaving, ChangesLayer
    <2>5. ChunkOf(pos[f]) = ChunkOf(oldPos[f])
      BY <1>3, <2>1, <2>3, <2>4 DEF Leaving, ChangesCell
    <2>6. QED
      BY <2>1, <2>3, <2>4, <2>5 DEF Members, Home, OldHome
  <1>4. ASSUME NEW f \in Members(l), f \notin Entering(l)
        PROVE  f \in OldMembers(l) /\ f \notin Leaving(l) /\ Home(f) = OldHome(f)
    <2>1. f \in Entities /\ status[f] = "live" /\ layer[f] = l
      BY DEF Members
    <2>2. oldLayer[f] = l
      BY <1>4, <2>1 DEF Entering, ChangesLayer
    <2>3. ChunkOf(pos[f]) = ChunkOf(oldPos[f])
      BY <1>4, <2>1, <2>2 DEF Entering, ChangesCell
    <2>4. f \notin Leaving(l)
      BY <2>1, <2>2, <2>3 DEF Leaving, Despawned, ChangesLayer, ChangesCell
    <2>5. QED
      BY <2>1, <2>2, <2>3, <2>4 DEF OldMembers, Home, OldHome
  <1>5. Entering(l) \subseteq Members(l)
    BY DEF Entering, Members, ChangesLayer, ChangesCell
  <1>6. \A e, f : OldHome(e) = OldHome(f) => e = f
    BY DEF OldHome
  <1>7. QED
    BY <1>1, <1>3, <1>4, <1>5, <1>6

LEMMA ChangePositionsKeeps == ASSUME CInv, ChangePositions PROVE CInv'
  <1>1. Types' /\ AbsentNowhere' /\ DespawnedWhereLooked'
    BY DEF CInv, Types, AbsentNowhere, DespawnedWhereLooked, ChangePositions, entityVars
  <1>2. CellsOld'
    BY DEF CellsOld, ChangePositions
  <1>3. CellsNew'
    <2> SUFFICES ASSUME NEW l \in Layers, Exists(l)'
                 PROVE  cells'[l] = {Home(e)' : e \in Members(l)'}
      BY DEF CellsNew
    <2>1. Members(l)' = Members(l) /\ Exists(l) /\ \A e : Home(e)' = Home(e)
      BY DEF Members, Home, Exists, ChangePositions, entityVars
    <2>2. cells'[l] = (cells[l] \ {OldHome(e) : e \in Leaving(l)}) \cup {Home(e) : e \in Entering(l)}
      BY <2>1 DEF ChangePositions
    <2>3. cells'[l] = {Home(e) : e \in Members(l)}
      BY <2>1, <2>2, EnteredExact DEF ChangePositions
    <2>4. QED
      BY <2>1, <2>3
  <1>4. QED
    BY <1>1, <1>2, <1>3 DEF CInv

\* The systems that tell the clients read the layers only.
LEMMA TellingKeeps ==
    ASSUME CInv, UNCHANGED <<entityVars, layerVars>>,
           phase \in {"messages", "views"}, phase' \in {"messages", "views", "endTick"}
    PROVE  CInv'
  <1>1. Types' /\ AbsentNowhere' /\ DespawnedWhereLooked'
    BY DEF CInv, Types, AbsentNowhere, DespawnedWhereLooked, entityVars, layerVars
  <1>2. CellsOld'
    BY DEF CellsOld
  <1>3. CellsNew'
    BY DEF CInv, CellsNew, Home, Members, Exists, entityVars, layerVars
  <1>4. QED
    BY <1>1, <1>2, <1>3 DEF CInv

LEMMA EndTickKeeps == ASSUME CInv, EndTick PROVE CInv'
  <1>1. Types'
    BY DEF CInv, Types, EndTick, Statuses
  <1>2. /\ \A e \in Entities : status'[e] \in {"absent", "live"}
        /\ oldLayer' = layer' /\ oldPos' = pos'
        /\ \A e \in Entities : status'[e] = "absent" => layer'[e] = NoLayer
    BY DEF EndTick
  <1>3. AbsentNowhere' /\ DespawnedWhereLooked'
    BY <1>2 DEF AbsentNowhere, DespawnedWhereLooked
  <1>4. CellsOld'
    <2> SUFFICES ASSUME NEW l \in Layers, Exists(l)'
                 PROVE  cells'[l] = {OldHome(e)' : e \in OldMembers(l)'}
      BY DEF CellsOld
    <2>1. layerStatus[l] = "live" /\ Exists(l) /\ cells'[l] = cells[l]
      BY DEF CInv, Types, Exists, EndTick, Statuses
    <2>2. cells[l] = {Home(e) : e \in Members(l)}
      BY <2>1 DEF CInv, CellsNew, EndTick
    <2>3. OldMembers(l)' = Members(l)
      BY NoLayerAssumption DEF OldMembers, Members, EndTick, Gone
    <2>4. \A e \in Members(l) : OldHome(e)' = Home(e)
      BY DEF OldHome, Home, Members, EndTick, Gone
    <2>5. QED
      BY <2>1, <2>2, <2>3, <2>4
  <1>5. CellsNew'
    BY DEF CellsNew, EndTick
  <1>6. QED
    BY <1>1, <1>3, <1>4, <1>5 DEF CInv

-----------------------------------------------------------------------------
LEMMA InitCInv == ASSUME Init PROVE CInv
  BY NoLayerAssumption
  DEF Init, CInv, Types, Statuses, AbsentNowhere, DespawnedWhereLooked, CellsOld, CellsNew,
      OldMembers

LEMMA NextCInv == ASSUME LooksAreSafe, CInv, [Next]_vars PROVE CInv'
  <1>1. CASE UNCHANGED vars
    BY <1>1
    DEF vars, CInv, Types, AbsentNowhere, DespawnedWhereLooked, CellsOld, CellsNew, Exists,
        OldMembers, Members, Home, OldHome
  <1>2. CASE UserCall
    <2>1. ASSUME NEW e \in Entities, NEW p \in Positions, NEW l \in Layers, Spawn(e, p, l)
          PROVE  CInv'
      BY <2>1, SpawnKeeps
    <2>2. ASSUME NEW e \in Entities, NEW p \in Positions, Move(e, p)
          PROVE  CInv'
      BY <2>2, MoveKeeps
    <2>3. ASSUME NEW e \in Entities, NEW l \in Layers, ChangeLayer(e, l)
          PROVE  CInv'
      BY <2>3, ChangeLayerKeeps
    <2>4. ASSUME NEW e \in Entities, Despawn(e)
          PROVE  CInv'
      BY <2>4, DespawnKeeps
    <2>5. ASSUME NEW l \in Layers, DespawnLayer(l)
          PROVE  CInv'
      BY <2>5, DespawnLayerKeeps
    <2>6. ASSUME NEW c \in Players, NEW l \in Layers, Show(c, l) \/ Hide(c, l)
          PROVE  CInv'
      BY <2>6, ViewCallKeeps DEF Show, Hide
    <2>7. ASSUME NEW c \in Players, ChangeChunkLayer(c)
          PROVE  CInv'
      BY <2>7, ViewCallKeeps DEF ChangeChunkLayer
    <2>8. QED
      BY <1>2, <2>1, <2>2, <2>3, <2>4, <2>5, <2>6, <2>7 DEF UserCall
  <1>3. CASE InitEntities
    BY <1>3, InitEntitiesKeeps
  <1>4. CASE ChangePositions
    BY <1>4, ChangePositionsKeeps
  <1>5. ASSUME NEW c \in Players, HandleMessages(c) \/ UpdateView(c)
        PROVE  CInv'
    BY <1>5, TellingKeeps DEF HandleMessages, UpdateView
  <1>6. CASE StartViews \/ FinishViews
    BY <1>6, TellingKeeps DEF StartViews, FinishViews
  <1>7. CASE EndTick
    BY <1>7, EndTickKeeps
  <1>8. QED
    BY <1>1, <1>2, <1>3, <1>4, <1>5, <1>6, <1>7 DEF Next, SystemStep

LEMMA CInvAlways == ASSUME LooksAreSafe PROVE Spec => []CInv
  BY InitCInv, NextCInv, PTL DEF Spec

-----------------------------------------------------------------------------
\* While no entity changes its layer and is despawned in one tick, the cells of a
\* layer hold exactly its entities, each in its chunk (entity.rs:366-471); they
\* may change layer and chunk, or chunk and be despawned.
THEOREM SpecCellsExact == ASSUME LooksAreSafe PROVE Spec => []CellsExact
  <1>1. CInv => CellsExact
    BY DEF CInv, CellsNew, CellsExact, Members
  <1>2. QED
    BY <1>1, CInvAlways, PTL

\* Under the same condition the expect of send_entity_update_messages never fails
\* (entity.rs:500-505).
THEOREM SpecUpdatesFindEntities == ASSUME LooksAreSafe PROVE Spec => []UpdatesFindEntities
  <1>1. ASSUME CInv
        PROVE  UpdatesFindEntities
    BY <1>1 DEF CInv, CellsNew, UpdatesFindEntities, Members, Home
  <1>2. QED
    BY <1>1, CInvAlways, PTL


-----------------------------------------------------------------------------
(***************************************************************************)
(* What clients see.  Three descriptions of what the client of c should    *)
(* have of entity e follow each other through a tick: by the Old           *)
(* components, by the components in the old view, and by the components in *)
(* the new one.                                                            *)
(***************************************************************************)
ByOld(c, e) ==
    IF oldLayer[e] \in oldVisible[c] /\ ChunkOf(oldPos[e]) \in View(oldPos[c])
    THEN {oldPos[e]} \cup Astray ELSE {NotShown}

InOldView(c, e) ==
    IF status[e] = "live" /\ layer[e] \in oldVisible[c] /\ ChunkOf(pos[e]) \in View(oldPos[c])
    THEN {pos[e]} \cup Astray ELSE {NotShown}

InNewView(c, e) ==
    IF status[e] = "live" /\ layer[e] \in visible[c] /\ ChunkOf(pos[e]) \in View(pos[c])
    THEN {pos[e]} \cup Astray ELSE {NotShown}

Careful == Pairs \subseteq Avoided

InALayer == \A e \in Entities : status[e] # "absent" => layer[e] \in Layers

\* An entity changes its layer or its chunk, and a new one neither.
OneChange ==
    \A e \in Entities : status[e] = "live" =>
        /\ phase \in {"update", "layers", "messages"} => SameLayer(e) \/ SameChunk(e)
        /\ phase \in {"layers", "messages"} /\ oldLayer[e] = NoLayer => oldPos[e] = pos[e]

AbsentClients ==
    \A c \in Players : status[c] = "absent" =>
        visible[c] = {} /\ oldVisible[c] = {} /\ shown[c] = Nothing

NewClients ==
    phase \in {"update", "layers"} =>
        \A c \in Players : oldLayer[c] = NoLayer => oldVisible[c] = {}

\* The clients the system of the phase has visited.
Visited(c) == status[c] # "absent" /\ c \notin todo

TodoPresent == phase \in {"messages", "views"} => \A c \in todo : status[c] # "absent"

OldVisibleExist == \A c \in Players : \A l \in oldVisible[c] : Exists(l)

\* A layer that is visible is there, until it is despawned and the client is told.
VisibleLive ==
    \A c \in Players : \A l \in visible[c] :
        \/ layerStatus[l] = "live"
        \/ /\ layerStatus[l] = "despawned"
           /\ l \in oldVisible[c]
           /\ \/ phase \in {"update", "layers"}
              \/ phase = "messages" /\ c \in todo

ViewsTaken ==
    \A c \in Players :
        /\ phase = "views" /\ Visited(c) => oldVisible[c] = visible[c]
        /\ phase = "endTick" /\ status[c] # "absent" => oldVisible[c] = visible[c]

Leavers(l) ==
    {e \in Entities : oldLayer[e] = l /\ (Despawned(e) \/ ChangesLayer(e) \/ ChangesCell(e))}

MessagesExact ==
    phase = "messages" =>
        \A l \in Layers : Exists(l) =>
            messages[l] = {LeaveMsg(e) : e \in Leavers(l)}
                          \cup {EnterMsg(e) : e \in Entering(l)}
                          \cup {UpdateMsg(e) : e \in {f \in Members(l) : pos[f] # oldPos[f]}}

Seen ==
    \A c \in Players : \A e \in Entities \ {c} :
        /\ phase \in {"update", "layers"} => shown[c][e] \in ByOld(c, e)
        /\ phase = "messages" /\ c \in todo => shown[c][e] \in ByOld(c, e)
        /\ phase = "messages" /\ Visited(c) => shown[c][e] \in InOldView(c, e)
        /\ phase = "views" /\ c \in todo => shown[c][e] \in InOldView(c, e)
        /\ phase = "views" /\ Visited(c) => shown[c][e] \in InNewView(c, e)
        /\ phase = "endTick" /\ status[c] # "absent" => shown[c][e] \in InNewView(c, e)

SInv ==
    /\ TypeOK
    /\ CInv
    /\ InALayer
    /\ OneChange
    /\ AbsentClients
    /\ NewClients
    /\ TodoPresent
    /\ OldVisibleExist
    /\ VisibleLive
    /\ ViewsTaken
    /\ MessagesExact
    /\ Seen

-----------------------------------------------------------------------------
(***************************************************************************)
(* Calls of user code.                                                     *)
(***************************************************************************)

\* A call changes six variables at most, and counts.
LEMMA CallTypes ==
    ASSUME TypeOK, Call,
           status' \in [Entities -> Statuses], pos' \in [Entities -> Positions],
           layer' \in [Entities -> Layers \cup {NoLayer}], layerStatus' \in [Layers -> Statuses],
           visible' \in [Players -> SUBSET Layers], respawns' \in [Players -> BOOLEAN]
    PROVE  TypeOK'
  <1>1. ops' \in 0..OpsPerTick
    BY CallsAssumption DEF TypeOK, Call
  <1>2. UNCHANGED <<oldPos, oldLayer, cells, messages, oldVisible, shown, phase, todo>>
    BY DEF Call
  <1>3. QED
    BY <1>1, <1>2 DEF TypeOK

LEMMA CallSees ==
    ASSUME SInv, Call, TypeOK', CInv', InALayer', OneChange', AbsentClients', VisibleLive',
           \A l \in Layers : Exists(l) => Exists(l)'
    PROVE  SInv'
  <1>1. NewClients' /\ ViewsTaken' /\ MessagesExact' /\ TodoPresent'
    BY DEF SInv, Call, NewClients, ViewsTaken, MessagesExact, TodoPresent
  <1>2. OldVisibleExist'
    BY DEF SInv, Call, OldVisibleExist, TypeOK
  <1>3. Seen'
    BY DEF SInv, Call, Seen, ByOld
  <1>4. QED
    BY <1>1, <1>2, <1>3 DEF SInv

LEMMA SpawnSees ==
    ASSUME SInv, NEW e \in Entities, NEW p \in Positions, NEW l \in Layers, Spawn(e, p, l)
    PROVE  SInv'
  <1>1. CInv'
    BY SpawnKeeps DEF SInv
  <1>2. TypeOK'
    BY CallTypes DEF SInv, TypeOK, Spawn, Statuses
  <1>3. oldLayer[e] = NoLayer
    BY DEF SInv, CInv, AbsentNowhere, Spawn
  <1>4. InALayer'
    BY DEF SInv, TypeOK, InALayer, Spawn
  <1>5. OneChange'
    BY <1>3 DEF SInv, TypeOK, OneChange, Spawn, Call, SameLayer, SameChunk
  <1>6. AbsentClients' /\ VisibleLive' /\ \A k \in Layers : Exists(k)' = Exists(k)
    BY DEF SInv, TypeOK, AbsentClients, VisibleLive, Spawn, Call, Exists
  <1>7. QED
    BY <1>1, <1>2, <1>4, <1>5, <1>6, CallSees DEF Spawn

LEMMA MoveSees ==
    ASSUME SInv, Careful, NEW e \in Entities, NEW p \in Positions, Move(e, p)
    PROVE  SInv'
  <1>1. CInv'
    BY MoveKeeps DEF SInv
  <1>2. TypeOK'
    BY CallTypes DEF SInv, TypeOK, Move, Statuses
  <1>3. SameLayer(e) \/ ChunkOf(p) = ChunkOf(oldPos[e])
    BY DEF Careful, Pairs, Move
  <1>4. OneChange'
    BY <1>3 DEF SInv, TypeOK, OneChange, Move, Call, SameLayer, SameChunk
  <1>5. InALayer' /\ AbsentClients' /\ VisibleLive' /\ \A k \in Layers : Exists(k)' = Exists(k)
    BY DEF SInv, InALayer, AbsentClients, VisibleLive, Move, Call, Exists
  <1>6. QED
    BY <1>1, <1>2, <1>4, <1>5, CallSees DEF Move

LEMMA ChangeLayerSees ==
    ASSUME SInv, Careful, NEW e \in Entities, NEW l \in Layers, ChangeLayer(e, l)
    PROVE  SInv'
  <1>1. CInv'
    BY ChangeLayerKeeps DEF SInv
  <1>2. TypeOK'
    BY CallTypes DEF SInv, TypeOK, ChangeLayer, Statuses
  <1>3. SameChunk(e)
    BY DEF Careful, Pairs, ChangeLayer
  <1>4. OneChange'
    BY <1>3 DEF SInv, TypeOK, OneChange, ChangeLayer, Call, SameLayer, SameChunk
  <1>5. InALayer'
    BY DEF SInv, TypeOK, InALayer, ChangeLayer
  <1>6. AbsentClients' /\ VisibleLive' /\ \A k \in Layers : Exists(k)' = Exists(k)
    BY DEF SInv, AbsentClients, VisibleLive, ChangeLayer, Call, Exists
  <1>7. QED
    BY <1>1, <1>2, <1>4, <1>5, <1>6, CallSees DEF ChangeLayer

LEMMA DespawnSees ==
    ASSUME SInv, Careful, NEW e \in Entities, Despawn(e)
    PROVE  SInv'
  <1>1. CInv'
    BY DespawnKeeps DEF SInv, Careful, Pairs, LooksAreSafe
  <1>2. TypeOK'
    BY CallTypes DEF SInv, TypeOK, Despawn, Statuses
  <1>3. InALayer' /\ OneChange'
    BY DEF SInv, TypeOK, InALayer, OneChange, Despawn, Call, SameLayer, SameChunk
  <1>4. \A c \in Players : status'[c] = "absent" => status[c] = "absent"
    BY PlayersAssumption DEF SInv, TypeOK, Despawn
  <1>5. AbsentClients'
    BY <1>4 DEF SInv, AbsentClients, Despawn, Call
  <1>6. VisibleLive' /\ \A k \in Layers : Exists(k)' = Exists(k)
    BY DEF SInv, VisibleLive, Despawn, Call, Exists
  <1>7. QED
    BY <1>1, <1>2, <1>3, <1>5, <1>6, CallSees DEF Despawn

LEMMA DespawnLayerSees ==
    ASSUME SInv, Careful, NEW l \in Layers, DespawnLayer(l)
    PROVE  SInv'
  <1>1. CInv'
    BY DespawnLayerKeeps DEF SInv
  <1>2. TypeOK'
    BY CallTypes DEF SInv, TypeOK, DespawnLayer, Statuses
  <1>3. \A c \in Players : l \in visible[c] => l \in oldVisible[c]
    BY DEF Careful, Pairs, DespawnLayer
  <1>4. VisibleLive'
    <2>1. /\ layerStatus'[l] = "despawned"
          /\ \A k \in Layers : k # l => layerStatus'[k] = layerStatus[k]
          /\ visible' = visible /\ oldVisible' = oldVisible
          /\ phase' = "update"
      BY DEF SInv, TypeOK, DespawnLayer, Call
    <2>2. ASSUME NEW c \in Players, NEW k \in visible[c]
          PROVE  \/ layerStatus'[k] = "live"
                 \/ layerStatus'[k] = "despawned" /\ k \in oldVisible[c]
      <3>1. k \in Layers
        BY DEF SInv, TypeOK
      <3>2. CASE k = l
        BY <1>3, <2>1, <2>2, <3>2
      <3>3. CASE k # l
        BY <2>1, <2>2, <3>1, <3>3 DEF SInv, VisibleLive
      <3>4. QED
        BY <3>2, <3>3
    <2>3. QED
      BY <2>1, <2>2 DEF VisibleLive
  <1>5. InALayer' /\ OneChange' /\ AbsentClients'
    BY DEF SInv, InALayer, OneChange, AbsentClients, DespawnLayer, Call, SameLayer, SameChunk
  <1>6. \A k \in Layers : Exists(k) => Exists(k)'
    BY DEF SInv, TypeOK, DespawnLayer, Exists
  <1>7. QED
    BY <1>1, <1>2, <1>4, <1>5, <1>6, CallSees DEF DespawnLayer

LEMMA ShowSees ==
    ASSUME SInv, Careful, NEW c \in Players, NEW l \in Layers, Show(c, l)
    PROVE  SInv'
  <1>1. CInv'
    BY ViewCallKeeps DEF SInv, Show
  <1>2. TypeOK'
    BY CallTypes DEF SInv, TypeOK, Show, Statuses
  <1>3. layerStatus[l] = "live"
    BY DEF Careful, Pairs, Show
  <1>4. VisibleLive'
    BY <1>3 DEF SInv, TypeOK, VisibleLive, Show, Call
  <1>5. InALayer' /\ OneChange'
    BY DEF SInv, InALayer, OneChange, Show, Call, SameLayer, SameChunk
  <1>6. AbsentClients' /\ \A k \in Layers : Exists(k)' = Exists(k)
    BY DEF SInv, TypeOK, AbsentClients, Show, Call, Exists
  <1>7. QED
    BY <1>1, <1>2, <1>4, <1>5, <1>6, CallSees DEF Show

LEMMA HideSees ==
    ASSUME SInv, NEW c \in Players, NEW l \in Layers, Hide(c, l)
    PROVE  SInv'
  <1>1. CInv'
    BY ViewCallKeeps DEF SInv, Hide
  <1>2. TypeOK'
    BY CallTypes DEF SInv, TypeOK, Hide, Statuses
  <1>3. VisibleLive'
    BY DEF SInv, TypeOK, VisibleLive, Hide, Call
  <1>4. InALayer' /\ OneChange'
    BY DEF SInv, InALayer, OneChange, Hide, Call, SameLayer, SameChunk
  <1>5. AbsentClients' /\ \A k \in Layers : Exists(k)' = Exists(k)
    BY DEF SInv, TypeOK, AbsentClients, Hide, Call, Exists
  <1>6. QED
    BY <1>1, <1>2, <1>3, <1>4, <1>5, CallSees DEF Hide

LEMMA ChangeChunkLayerSees ==
    ASSUME SInv, NEW c \in Players, ChangeChunkLayer(c)
    PROVE  SInv'
  <1>1. CInv'
    BY ViewCallKeeps DEF SInv, ChangeChunkLayer
  <1>2. TypeOK'
    BY CallTypes DEF SInv, TypeOK, ChangeChunkLayer, Statuses
  <1>3. InALayer' /\ OneChange' /\ AbsentClients' /\ VisibleLive'
    BY DEF SInv, InALayer, OneChange, AbsentClients, VisibleLive, ChangeChunkLayer, Call,
           SameLayer, SameChunk
  <1>4. \A k \in Layers : Exists(k)' = Exists(k)
    BY DEF ChangeChunkLayer, Exists
  <1>5. QED
    BY <1>1, <1>2, <1>3, <1>4, CallSees DEF ChangeChunkLayer

-----------------------------------------------------------------------------
(***************************************************************************)
(* The systems of PostUpdate.                                              *)
(***************************************************************************)

LEMMA InitEntitiesSees == ASSUME SInv, InitEntities PROVE SInv'
  <1>1. CInv'
    BY InitEntitiesKeeps DEF SInv
  <1>2. /\ oldPos' = [e \in Entities |->
               IF status[e] = "live" /\ oldLayer[e] = NoLayer THEN pos[e] ELSE oldPos[e]]
        /\ UNCHANGED <<status, pos, layer, oldLayer, layerStatus, cells, messages, visible,
                       oldVisible, respawns, shown, todo, ops>>
        /\ phase = "update" /\ phase' = "layers"
    BY DEF InitEntities, layerVars, clientVars
  <1>3. oldPos' \in [Entities -> Positions]
    BY <1>2 DEF SInv, TypeOK
  <1>4. TypeOK'
    BY <1>2, <1>3 DEF SInv, TypeOK
  <1>5. InALayer' /\ AbsentClients' /\ NewClients' /\ ViewsTaken' /\ MessagesExact'
    BY <1>2 DEF SInv, InALayer, AbsentClients, NewClients, ViewsTaken, MessagesExact
  <1>12. TodoPresent'
    BY <1>2 DEF TodoPresent
  <1>6. OneChange'
    BY <1>2 DEF SInv, OneChange, SameLayer, SameChunk
  <1>7. OldVisibleExist' /\ VisibleLive'
    BY <1>2 DEF SInv, OldVisibleExist, VisibleLive, Exists
  <1>8. \A e \in Entities : oldLayer[e] # NoLayer => oldPos'[e] = oldPos[e]
    BY <1>2
  <1>9. ASSUME NEW c \in Players, NEW e \in Entities \ {c}
        PROVE  ByOld(c, e)' = ByOld(c, e)
    <2>1. NoLayer \notin oldVisible[c]
      BY NoLayerAssumption DEF SInv, TypeOK
    <2>2. oldLayer[c] # NoLayer => View(oldPos[c])' = View(oldPos[c])
      BY <1>8, PlayersAssumption DEF View
    <2>3. oldLayer[c] = NoLayer => oldVisible[c] = {}
      BY <1>2 DEF SInv, NewClients
    <2>4. QED
      BY <1>2, <1>8, <2>1, <2>2, <2>3 DEF ByOld
  <1>10. Seen'
    BY <1>2, <1>9 DEF SInv, Seen
  <1>11. QED
    BY <1>1, <1>4, <1>5, <1>6, <1>7, <1>10, <1>12 DEF SInv

-----------------------------------------------------------------------------
\* The messages of a layer: of all that was in it by the Old components and is
\* not to stay, of all that enters, and of all that is in it now and moved.
LEMMA ChangePositionsMessages == ASSUME SInv, ChangePositions PROVE MessagesExact'
  <1> SUFFICES ASSUME NEW l \in Layers, Exists(l)'
               PROVE  messages'[l] =
                          ({LeaveMsg(e) : e \in Leavers(l)}
                           \cup {EnterMsg(e) : e \in Entering(l)}
                           \cup {UpdateMsg(e) : e \in {f \in Members(l) : pos[f] # oldPos[f]}})'
    BY DEF MessagesExact
  <1>1. UNCHANGED <<status, pos, oldPos, layer, oldLayer, layerStatus>> /\ phase = "layers"
    BY DEF ChangePositions, entityVars
  <1>2. Exists(l)
    BY <1>1 DEF Exists
  <1>3. (cells[l] \ {OldHome(e) : e \in Leaving(l)}) \cup {Home(e) : e \in Entering(l)}
            = {Home(e) : e \in Members(l)}
    BY <1>1, <1>2, EnteredExact DEF SInv
  <1>4. messages'[l] =
            {LeaveMsg(e) : e \in Leaving(l)}
            \cup {EnterMsg(e) : e \in Entering(l)}
            \cup {UpdateMsg(e) : e \in {f \in Entities :
                     pos[f] # oldPos[f]
                     /\ \E q \in Chunks : <<f, q>> \in {Home(e) : e \in Members(l)}}}
    BY <1>2, <1>3 DEF ChangePositions
  <1>5. Leaving(l) = Leavers(l)
    <2>1. cells[l] = {OldHome(e) : e \in OldMembers(l)}
      BY <1>1, <1>2 DEF SInv, CInv, CellsOld
    <2>2. \A e \in Entities : OldHome(e) \in cells[l] <=> oldLayer[e] = l
      BY <2>1 DEF OldHome, OldMembers
    <2>3. \A e \in Entities : oldLayer[e] = l /\ Despawned(e) => layer[e] = l
      BY NoLayerAssumption DEF SInv, CInv, DespawnedWhereLooked, Despawned
    <2>4. \A e \in Entities : ChangesCell(e) => layer[e] = oldLayer[e]
      BY DEF ChangesCell
    <2>5. QED
      BY <2>2, <2>3, <2>4 DEF Leaving, Leavers
  <1>6. {f \in Entities : pos[f] # oldPos[f]
                          /\ \E q \in Chunks : <<f, q>> \in {Home(e) : e \in Members(l)}}
            = {f \in Members(l) : pos[f] # oldPos[f]}
    <2>1. \A f \in Entities : ChunkOf(pos[f]) \in Chunks
      BY DEF SInv, TypeOK, Chunks
    <2>2. Members(l) \subseteq Entities
      BY DEF Members
    <2>3. QED
      BY <2>1, <2>2 DEF Home
  <1>7. messages'[l] = {LeaveMsg(e) : e \in Leavers(l)}
                       \cup {EnterMsg(e) : e \in Entering(l)}
                       \cup {UpdateMsg(e) : e \in {f \in Members(l) : pos[f] # oldPos[f]}}
    BY <1>4, <1>5, <1>6
  <1>8. /\ \A e : LeaveMsg(e)' = LeaveMsg(e) /\ EnterMsg(e)' = EnterMsg(e) /\ UpdateMsg(e)' = UpdateMsg(e)
        /\ Leavers(l)' = Leavers(l) /\ Entering(l)' = Entering(l) /\ Members(l)' = Members(l)
    BY <1>1
    DEF LeaveMsg, EnterMsg, UpdateMsg, Leavers, Entering, Members, Despawned, ChangesLayer,
        ChangesCell
  <1>9. QED
    BY <1>1, <1>7, <1>8

LEMMA ChangePositionsTypes == ASSUME SInv, ChangePositions PROVE TypeOK'
  <1>1. UNCHANGED <<status, pos, oldPos, layer, oldLayer, layerStatus, visible, oldVisible,
                    respawns, shown, ops>>
    BY DEF ChangePositions, entityVars, clientVars
  <1>2. \A e \in Entities : ChunkOf(pos[e]) \in Chunks /\ ChunkOf(oldPos[e]) \in Chunks
    BY DEF SInv, TypeOK, Chunks
  <1>3. cells' \in [Layers -> SUBSET (Entities \X Chunks)]
    <2>1. \A l \in Layers : Entering(l) \subseteq Entities
      BY DEF Entering
    <2>2. \A l \in Layers : {Home(e) : e \in Entering(l)} \subseteq Entities \X Chunks
      BY <1>2, <2>1 DEF Home
    <2>3. \A l \in Layers : cells[l] \subseteq Entities \X Chunks
      BY DEF SInv, TypeOK
    <2>4. QED
      BY <2>2, <2>3 DEF ChangePositions
  <1>4. ASSUME NEW e \in Entities
        PROVE  LeaveMsg(e) \in LocalMsg /\ EnterMsg(e) \in LocalMsg /\ UpdateMsg(e) \in LocalMsg
    <2>1. layer[e] \in Layers \cup {NoLayer} /\ oldLayer[e] \in Layers \cup {NoLayer}
      BY DEF SInv, TypeOK
    <2>2. LeaveMsg(e) \in LocalMsg
      BY <1>2, <2>1 DEF LeaveMsg, LocalMsg
    <2>3. EnterMsg(e) \in LocalMsg
      BY <1>2, <2>1 DEF EnterMsg, LocalMsg
    <2>4. UpdateMsg(e) \in LocalMsg
      BY <1>2 DEF UpdateMsg, LocalMsg
    <2>5. QED
      BY <2>2, <2>3, <2>4
  <1>5. \A l \in Layers : messages'[l] \subseteq LocalMsg
    <2>1. \A l \in Layers : Entering(l) \subseteq Entities /\ Leaving(l) \subseteq Entities
      BY DEF Entering, Leaving
    <2>2. QED
      BY <1>4, <2>1 DEF ChangePositions
  <1>6. todo' \subseteq Players /\ phase' = "messages"
    BY DEF ChangePositions
  <1>7. QED
    BY <1>1, <1>3, <1>5, <1>6 DEF SInv, TypeOK

LEMMA ChangePositionsSees == ASSUME SInv, ChangePositions PROVE SInv'
  <1>1. CInv'
    BY ChangePositionsKeeps DEF SInv
  <1>2. /\ UNCHANGED <<status, pos, oldPos, layer, oldLayer, layerStatus, visible, oldVisible,
                       respawns, shown, ops>>
        /\ phase = "layers" /\ phase' = "messages"
        /\ todo' = {c \in Players : status[c] # "absent"}
    BY DEF ChangePositions, entityVars, clientVars
  <1>3. InALayer' /\ AbsentClients' /\ NewClients' /\ ViewsTaken' /\ OldVisibleExist'
    BY <1>2 DEF SInv, InALayer, AbsentClients, NewClients, ViewsTaken, OldVisibleExist, Exists
  <1>4. OneChange'
    BY <1>2 DEF SInv, OneChange, SameLayer, SameChunk
  <1>5. VisibleLive' /\ TodoPresent'
    BY <1>2 DEF SInv, VisibleLive, AbsentClients, TodoPresent
  <1>6. Seen'
    BY <1>2 DEF SInv, Seen, ByOld, Visited
  <1>7. QED
    BY <1>1, <1>3, <1>4, <1>5, <1>6, ChangePositionsMessages, ChangePositionsTypes DEF SInv

-----------------------------------------------------------------------------
(***************************************************************************)
(* What a client hears.                                                    *)
(***************************************************************************)

LEMMA MessageFields ==
    ASSUME NEW f \in Entities
    PROVE  /\ LeaveMsg(f).entity = f /\ LeaveMsg(f).at = ChunkOf(oldPos[f])
           /\ ChangesCell(f) => /\ LeaveMsg(f).kind = "DespawnEntityTransition"
                                /\ LeaveMsg(f).other = ChunkOf(pos[f])
           /\ ~ChangesCell(f) => /\ LeaveMsg(f).kind = "DespawnEntity"
                                 /\ LeaveMsg(f).other = IF Despawned(f) THEN NoLayer ELSE layer[f]
           /\ EnterMsg(f).entity = f /\ EnterMsg(f).at = ChunkOf(pos[f])
           /\ ChangesCell(f) => /\ EnterMsg(f).kind = "SpawnEntityTransition"
                                /\ EnterMsg(f).other = ChunkOf(oldPos[f])
           /\ ~ChangesCell(f) => /\ EnterMsg(f).kind = "SpawnEntity"
                                 /\ EnterMsg(f).other = oldLayer[f]
           /\ UpdateMsg(f).entity = f /\ UpdateMsg(f).at = ChunkOf(pos[f])
           /\ UpdateMsg(f).kind = "PacketAt"
  BY DEF LeaveMsg, EnterMsg, UpdateMsg

\* The layers a client could see are there: it hears all their messages.
LEMMA HeardMessages ==
    ASSUME SInv, phase = "messages", NEW c \in Players, NEW e \in Entities, NEW kind, NEW m
    PROVE  m \in Heard(c, e, kind) <=>
               /\ \E l \in oldVisible[c] :
                     \/ \E f \in Leavers(l) : m = LeaveMsg(f)
                     \/ \E f \in Entering(l) : m = EnterMsg(f)
                     \/ \E f \in Members(l) : pos[f] # oldPos[f] /\ m = UpdateMsg(f)
               /\ m.kind = kind /\ m.entity = e /\ m.at \in View(oldPos[c])
  <1>1. \A l \in oldVisible[c] : l \in Layers /\ Exists(l)
    BY DEF SInv, TypeOK, OldVisibleExist
  <1>2. m \in Heard(c, e, kind) <=>
            /\ \E l \in oldVisible[c] : m \in messages[l]
            /\ m.kind = kind /\ m.entity = e /\ m.at \in View(oldPos[c])
    BY <1>1 DEF Heard
  <1>3. \A l \in oldVisible[c] : m \in messages[l] <=>
            \/ \E f \in Leavers(l) : m = LeaveMsg(f)
            \/ \E f \in Entering(l) : m = EnterMsg(f)
            \/ \E f \in Members(l) : pos[f] # oldPos[f] /\ m = UpdateMsg(f)
    BY <1>1 DEF SInv, MessagesExact
  <1>4. QED
    BY <1>2, <1>3

\* A client is told to remove an entity that was in its view, when it is gone, or
\* went to a layer or a chunk that was not.
LEMMA RemovedWhen ==
    ASSUME SInv, phase = "messages", NEW c \in Players, NEW e \in Entities
    PROVE  Removed(c, e) <=>
               /\ oldLayer[e] \in oldVisible[c] /\ ChunkOf(oldPos[e]) \in View(oldPos[c])
               /\ \/ Despawned(e)
                  \/ ChangesLayer(e) /\ layer[e] \notin oldVisible[c]
                  \/ ChangesCell(e) /\ ChunkOf(pos[e]) \notin View(oldPos[c])
  <1> DEFINE O == oldVisible[c]
             W == View(oldPos[c])
  <1>1. NoLayer \notin O
    BY NoLayerAssumption DEF SInv, TypeOK
  <1>2. \A l : Leavers(l) \subseteq Entities /\ Entering(l) \subseteq Entities /\ Members(l) \subseteq Entities
    BY DEF Leavers, Entering, Members
  <1>3. ASSUME NEW m \in Heard(c, e, "DespawnEntity") \cup Heard(c, e, "DespawnEntityTransition")
        PROVE  m = LeaveMsg(e) /\ e \in Leavers(oldLayer[e]) /\ oldLayer[e] \in O
    <2>1. PICK l \in O :
              \/ \E f \in Leavers(l) : m = LeaveMsg(f)
              \/ \E f \in Entering(l) : m = EnterMsg(f)
              \/ \E f \in Members(l) : m = UpdateMsg(f)
      BY HeardMessages
    <2>2. m.kind \in {"DespawnEntity", "DespawnEntityTransition"} /\ m.entity = e
      BY HeardMessages
    <2>3. \E f \in Leavers(l) : m = LeaveMsg(f)
      BY <2>1, <2>2, <1>2, MessageFields
    <2>4. m = LeaveMsg(e) /\ e \in Leavers(l)
      BY <2>2, <2>3, <1>2, MessageFields
    <2>5. QED
      BY <2>4 DEF Leavers
  <1>4. ASSUME e \in Leavers(oldLayer[e]), oldLayer[e] \in O, ChunkOf(oldPos[e]) \in W
        PROVE  LeaveMsg(e) \in Heard(c, e, LeaveMsg(e).kind)
    BY <1>4, HeardMessages, MessageFields
  <1>5. ASSUME NEW kind, LeaveMsg(e) \in Heard(c, e, kind)
        PROVE  kind = LeaveMsg(e).kind /\ ChunkOf(oldPos[e]) \in W
    BY <1>5, HeardMessages, MessageFields
  <1>6. Despawned(e) => ~ChangesLayer(e) /\ ~ChangesCell(e)
    BY DEF Despawned, ChangesLayer, ChangesCell
  <1>7. ChangesLayer(e) => ~ChangesCell(e)
    BY DEF ChangesLayer, ChangesCell
  <1>8. e \in Leavers(oldLayer[e]) <=> Despawned(e) \/ ChangesLayer(e) \/ ChangesCell(e)
    BY DEF Leavers
  <1>9. Removed(c, e) <=>
            /\ e \in Leavers(oldLayer[e]) /\ oldLayer[e] \in O /\ ChunkOf(oldPos[e]) \in W
            /\ \/ LeaveMsg(e).kind = "DespawnEntity" /\ LeaveMsg(e).other \notin O
               \/ LeaveMsg(e).kind = "DespawnEntityTransition" /\ LeaveMsg(e).other \notin W
    BY <1>3, <1>4, <1>5 DEF Removed
  <1>10. QED
    BY <1>1, <1>6, <1>7, <1>8, <1>9, MessageFields

\* It is told of an entity that comes into its view from elsewhere.
LEMMA SpawnedWhen ==
    ASSUME SInv, phase = "messages", NEW c \in Players, NEW e \in Entities
    PROVE  Spawned(c, e) <=>
               /\ layer[e] \in oldVisible[c] /\ ChunkOf(pos[e]) \in View(oldPos[c])
               /\ \/ ChangesLayer(e) /\ oldLayer[e] \notin oldVisible[c]
                  \/ ChangesCell(e) /\ ChunkOf(oldPos[e]) \notin View(oldPos[c])
  <1> DEFINE O == oldVisible[c]
             W == View(oldPos[c])
  <1>2. \A l : Leavers(l) \subseteq Entities /\ Entering(l) \subseteq Entities /\ Members(l) \subseteq Entities
    BY DEF Leavers, Entering, Members
  <1>3. ASSUME NEW m \in Heard(c, e, "SpawnEntity") \cup Heard(c, e, "SpawnEntityTransition")
        PROVE  m = EnterMsg(e) /\ e \in Entering(layer[e]) /\ layer[e] \in O
    <2>1. PICK l \in O :
              \/ \E f \in Leavers(l) : m = LeaveMsg(f)
              \/ \E f \in Entering(l) : m = EnterMsg(f)
              \/ \E f \in Members(l) : m = UpdateMsg(f)
      BY HeardMessages
    <2>2. m.kind \in {"SpawnEntity", "SpawnEntityTransition"} /\ m.entity = e
      BY HeardMessages
    <2>3. \E f \in Entering(l) : m = EnterMsg(f)
      BY <2>1, <2>2, <1>2, MessageFields
    <2>4. m = EnterMsg(e) /\ e \in Entering(l)
      BY <2>2, <2>3, <1>2, MessageFields
    <2>5. QED
      BY <2>4 DEF Entering
  <1>4. ASSUME e \in Entering(layer[e]), layer[e] \in O, ChunkOf(pos[e]) \in W
        PROVE  EnterMsg(e) \in Heard(c, e, EnterMsg(e).kind)
    BY <1>4, HeardMessages, MessageFields
  <1>5. ASSUME NEW kind, EnterMsg(e) \in Heard(c, e, kind)
        PROVE  kind = EnterMsg(e).kind /\ ChunkOf(pos[e]) \in W
    BY <1>5, HeardMessages, MessageFields
  <1>6. ChangesLayer(e) => ~ChangesCell(e)
    BY DEF ChangesLayer, ChangesCell
  <1>7. e \in Entering(layer[e]) <=> ChangesLayer(e) \/ ChangesCell(e)
    BY DEF Entering
  <1>8. Spawned(c, e) <=>
            /\ e \in Entering(layer[e]) /\ layer[e] \in O /\ ChunkOf(pos[e]) \in W
            /\ \/ EnterMsg(e).kind = "SpawnEntity" /\ EnterMsg(e).other \notin O
               \/ EnterMsg(e).kind = "SpawnEntityTransition" /\ EnterMsg(e).other \notin W
    BY <1>3, <1>4, <1>5 DEF Spawned
  <1>9. QED
    BY <1>6, <1>7, <1>8, MessageFields

\* It hears of the movement of an entity that is in its view now.
LEMMA UpdatedWhen ==
    ASSUME SInv, phase = "messages", NEW c \in Players, NEW e \in Entities
    PROVE  Heard(c, e, "PacketAt") # {} <=>
               /\ status[e] = "live" /\ layer[e] \in oldVisible[c]
               /\ ChunkOf(pos[e]) \in View(oldPos[c])
               /\ pos[e] # oldPos[e]
  <1>1. \A l : Leavers(l) \subseteq Entities /\ Entering(l) \subseteq Entities /\ Members(l) \subseteq Entities
    BY DEF Leavers, Entering, Members
  <1>2. ASSUME NEW m \in Heard(c, e, "PacketAt")
        PROVE  /\ status[e] = "live" /\ layer[e] \in oldVisible[c]
               /\ ChunkOf(pos[e]) \in View(oldPos[c]) /\ pos[e] # oldPos[e]
    <2>1. PICK l \in oldVisible[c] :
              \/ \E f \in Leavers(l) : m = LeaveMsg(f)
              \/ \E f \in Entering(l) : m = EnterMsg(f)
              \/ \E f \in Members(l) : pos[f] # oldPos[f] /\ m = UpdateMsg(f)
      BY HeardMessages
    <2>2. m.kind = "PacketAt" /\ m.entity = e /\ m.at \in View(oldPos[c])
      BY HeardMessages
    <2>3. \E f \in Members(l) : pos[f] # oldPos[f] /\ m = UpdateMsg(f)
      BY <2>1, <2>2, <1>1, MessageFields
    <2>4. e \in Members(l) /\ pos[e] # oldPos[e] /\ m = UpdateMsg(e)
      BY <2>2, <2>3, <1>1, MessageFields
    <2>5. QED
      BY <2>2, <2>4, MessageFields DEF Members
  <1>3. ASSUME status[e] = "live", layer[e] \in oldVisible[c],
               ChunkOf(pos[e]) \in View(oldPos[c]), pos[e] # oldPos[e]
        PROVE  UpdateMsg(e) \in Heard(c, e, "PacketAt")
    <2>1. e \in Members(layer[e])
      BY <1>3 DEF Members
    <2>2. QED
      BY <1>3, <2>1, HeardMessages, MessageFields
  <1>4. QED
    BY <1>2, <1>3

-----------------------------------------------------------------------------
\* A movement packet brings an entity that is where it was to where it is.
LEMMA UpdatedReaches ==
    ASSUME SInv, NEW c \in Players, NEW e \in Entities, Heard(c, e, "PacketAt") # {},
           NEW where \in {oldPos[e]} \cup Astray
    PROVE  Updated(c, e, where) \in {pos[e]} \cup Astray
  <1>1. pos[e] \in Positions /\ oldPos[e] \in Positions
    BY DEF SInv, TypeOK
  <1>2. oldPos[e] # NotShown /\ oldPos[e] # Elsewhere
    BY <1>1, NoLayerAssumption, ElsewhereAssumption
  <1>3. oldPos[e] + (pos[e] - oldPos[e]) = pos[e]
    <2>1. pos[e] \in Int /\ oldPos[e] \in Int
      BY <1>1, PositionsAssumption
    <2>2. QED
      BY <2>1
  <1>4. Astray \subseteq {Elsewhere}
    BY DEF Astray
  <1>5. CASE where = oldPos[e]
    BY <1>2, <1>3, <1>5 DEF Updated
  <1>6. CASE where # oldPos[e]
    <2>1. where = Elsewhere /\ Elsewhere \in Astray
      BY <1>4, <1>6
    <2>2. Elsewhere # NotShown
      BY ElsewhereAssumption
    <2>3. Updated(c, e, Elsewhere) \in {pos[e], Elsewhere}
      BY <2>2 DEF Updated
    <2>4. QED
      BY <2>1, <2>3
  <1>7. QED
    BY <1>5, <1>6

\* Only in a hierarchy that is split can a packet overtake a spawn, and of an
\* entity that is in the client's view.
LEMMA OvertakenWhen ==
    ASSUME SInv, phase = "messages", NEW c \in Players, NEW e \in Overtaken(c)
    PROVE  InOldView(c, e) = {pos[e], Elsewhere}
  <1>1. e \in Entities /\ Heard(c, e, "PacketAt") # {} /\ ~OneLeaf(layer[e])
    BY DEF Overtaken
  <1>2. /\ status[e] = "live" /\ layer[e] \in oldVisible[c]
        /\ ChunkOf(pos[e]) \in View(oldPos[c])
    BY <1>1, UpdatedWhen
  <1>3. {m.at : m \in messages[layer[e]]} \subseteq Chunks
    <2>1. layer[e] \in Layers
      BY <1>2 DEF SInv, TypeOK
    <2>2. messages[layer[e]] \subseteq LocalMsg
      BY <2>1 DEF SInv, TypeOK
    <2>3. \A m \in LocalMsg : m.at \in Chunks
      BY DEF LocalMsg
    <2>4. QED
      BY <2>2, <2>3
  <1>4. ~FitsOneLeaf(Chunks)
    BY <1>1, <1>3 DEF OneLeaf, FitsOneLeaf
  <1>5. Astray = {Elsewhere}
    BY <1>4 DEF Astray
  <1>6. QED
    BY <1>2, <1>5 DEF InOldView

\* Told in order, a client that had an entity by the Old components has it as it
\* would see it in the old view: the entity was there, came, went or moved.
LEMMA ToldInOrder ==
    ASSUME SInv, phase = "messages", NEW c \in Players, c \in todo, NEW e \in Entities \ {c}
    PROVE  Updated(c, e, IF Spawned(c, e) THEN oldPos[e]
                         ELSE IF Removed(c, e) THEN NotShown ELSE shown[c][e])
               \in InOldView(c, e)
  <1> DEFINE O == oldVisible[c]
             W == View(oldPos[c])
             removed == IF Removed(c, e) THEN NotShown ELSE shown[c][e]
             spawned == IF Spawned(c, e) THEN oldPos[e] ELSE removed
  <1>1. shown[c][e] \in IF oldLayer[e] \in O /\ ChunkOf(oldPos[e]) \in W
                        THEN {oldPos[e]} \cup Astray ELSE {NotShown}
    BY DEF SInv, Seen, ByOld
  <1>2. SUFFICES Updated(c, e, spawned) \in InOldView(c, e)
    OBVIOUS
  <1>3. \A w : Heard(c, e, "PacketAt") = {} => Updated(c, e, w) = w
    BY DEF Updated
  <1>4. Updated(c, e, NotShown) = NotShown
    BY DEF Updated
  <1>5. status[e] \in Statuses /\ NoLayer \notin O
    BY NoLayerAssumption DEF SInv, TypeOK
  <1>6. CASE status[e] = "absent"
    <2>1. oldLayer[e] = NoLayer
      BY <1>6 DEF SInv, CInv, AbsentNowhere
    <2>2. ~Spawned(c, e) /\ Heard(c, e, "PacketAt") = {}
      BY <1>6, SpawnedWhen, UpdatedWhen DEF ChangesLayer, ChangesCell
    <2>3. spawned = NotShown
      BY <1>1, <1>5, <2>1, <2>2
    <2>4. QED
      BY <1>4, <1>6, <2>3 DEF InOldView
  <1>7. CASE status[e] = "despawned"
    <2>1. ~Spawned(c, e)
      BY <1>7, SpawnedWhen DEF ChangesLayer, ChangesCell
    <2>2. spawned = NotShown
      BY <1>1, <1>7, <2>1, RemovedWhen DEF Despawned
    <2>3. QED
      BY <1>4, <1>7, <2>2 DEF InOldView
  <1>8. ASSUME status[e] = "live", layer[e] \in O, ChunkOf(pos[e]) \in W,
               spawned \in {oldPos[e]} \cup Astray
        PROVE  Updated(c, e, spawned) \in InOldView(c, e)
    <2>1. InOldView(c, e) = {pos[e]} \cup Astray
      BY <1>8 DEF InOldView
    <2>2. CASE pos[e] = oldPos[e]
      <3>1. Heard(c, e, "PacketAt") = {}
        BY <2>2, UpdatedWhen
      <3>2. QED
        BY <1>3, <1>8, <2>1, <2>2, <3>1
    <2>3. CASE pos[e] # oldPos[e]
      <3>1. Heard(c, e, "PacketAt") # {}
        BY <1>8, <2>3, UpdatedWhen
      <3> HIDE DEF spawned
      <3>2. Updated(c, e, spawned) \in {pos[e]} \cup Astray
        BY <1>8, <3>1, UpdatedReaches
      <3>3. QED
        BY <2>1, <3>2
    <2>4. QED
      BY <2>2, <2>3
  <1>9. ASSUME ~(layer[e] \in O /\ ChunkOf(pos[e]) \in W), spawned = NotShown
        PROVE  Updated(c, e, spawned) \in InOldView(c, e)
    BY <1>4, <1>9 DEF InOldView
  <1>10. CASE status[e] = "live" /\ layer[e] = oldLayer[e]
    <2>1. Removed(c, e) <=>
              /\ layer[e] \in O /\ ChunkOf(oldPos[e]) \in W
              /\ ChunkOf(pos[e]) # ChunkOf(oldPos[e]) /\ ChunkOf(pos[e]) \notin W
      BY <1>10, RemovedWhen DEF Despawned, ChangesLayer, ChangesCell
    <2>2. Spawned(c, e) <=>
              /\ layer[e] \in O /\ ChunkOf(pos[e]) \in W
              /\ ChunkOf(pos[e]) # ChunkOf(oldPos[e]) /\ ChunkOf(oldPos[e]) \notin W
      BY <1>10, SpawnedWhen DEF ChangesLayer, ChangesCell
    <2>3. CASE layer[e] \in O /\ ChunkOf(pos[e]) \in W
      <3>1. spawned \in {oldPos[e]} \cup Astray
        BY <1>1, <1>10, <2>1, <2>2, <2>3
      <3>2. QED
        BY <1>8, <1>10, <2>3, <3>1
    <2>4. CASE ~(layer[e] \in O /\ ChunkOf(pos[e]) \in W)
      <3>1. spawned = NotShown
        BY <1>1, <1>10, <2>1, <2>2, <2>4
      <3>2. QED
        BY <1>9, <2>4, <3>1
    <2>5. QED
      BY <2>3, <2>4
  <1>11. CASE status[e] = "live" /\ layer[e] # oldLayer[e]
    <2>1. ChunkOf(pos[e]) = ChunkOf(oldPos[e])
      <3>1. CASE oldLayer[e] = NoLayer
        BY <1>11, <3>1 DEF SInv, OneChange
      <3>2. CASE oldLayer[e] # NoLayer
        BY <1>11, <3>2 DEF SInv, OneChange, SameLayer, SameChunk
      <3>3. QED
        BY <3>1, <3>2
    <2>2. Removed(c, e) <=> oldLayer[e] \in O /\ ChunkOf(pos[e]) \in W /\ layer[e] \notin O
      BY <1>11, <2>1, RemovedWhen DEF Despawned, ChangesLayer, ChangesCell
    <2>3. Spawned(c, e) <=> layer[e] \in O /\ ChunkOf(pos[e]) \in W /\ oldLayer[e] \notin O
      BY <1>11, SpawnedWhen DEF ChangesLayer, ChangesCell
    <2>4. CASE layer[e] \in O /\ ChunkOf(pos[e]) \in W
      <3>1. spawned \in {oldPos[e]} \cup Astray
        BY <1>1, <2>1, <2>2, <2>3, <2>4
      <3>2. QED
        BY <1>8, <1>11, <2>4, <3>1
    <2>5. CASE ~(layer[e] \in O /\ ChunkOf(pos[e]) \in W)
      <3>1. spawned = NotShown
        BY <1>1, <2>1, <2>2, <2>3, <2>5
      <3>2. QED
        BY <1>9, <2>5, <3>1
    <2>6. QED
      BY <2>4, <2>5
  <1>12. QED
    BY <1>5, <1>6, <1>7, <1>10, <1>11 DEF Statuses

\* Once it has handled the messages, in whatever order a split hierarchy has them,
\* a client has every entity as it would see it in the old view.
LEMMA ToldExact ==
    ASSUME SInv, phase = "messages", NEW c \in Players, c \in todo, NEW e \in Entities \ {c},
           NEW early \in SUBSET Overtaken(c)
    PROVE  Told(c, e, early) \in InOldView(c, e)
  <1>1. CASE e \in early
    BY <1>1, OvertakenWhen DEF Told
  <1>2. CASE e \notin early
    BY <1>2, ToldInOrder DEF Told, SpawnsAt
  <1>3. QED
    BY <1>1, <1>2

-----------------------------------------------------------------------------
LEMMA HandleMessagesSees == ASSUME SInv, NEW c \in Players, HandleMessages(c) PROVE SInv'
  <1>1. CInv'
    BY TellingKeeps DEF SInv, HandleMessages
  <1>2. /\ UNCHANGED <<status, pos, oldPos, layer, oldLayer, layerStatus, cells, messages,
                       oldVisible, respawns, phase, ops>>
        /\ phase = "messages" /\ c \in todo /\ todo' = todo \ {c}
    BY DEF HandleMessages, entityVars, layerVars
  <1>3. PICK early \in SUBSET Overtaken(c) :
            shown' = [shown EXCEPT ![c] =
                         [e \in Entities |-> IF e = c THEN @[e] ELSE Told(c, e, early)]]
    BY DEF HandleMessages
  <1>4. \A e \in Entities \ {c} : Told(c, e, early) \in InOldView(c, e)
    BY <1>2, ToldExact
  <1>5. /\ shown'[c] = [e \in Entities |-> IF e = c THEN shown[c][e] ELSE Told(c, e, early)]
        /\ \A d \in Players \ {c} : shown'[d] = shown[d]
    BY <1>3 DEF SInv, TypeOK
  <1>6. /\ visible'[c] = visible[c] \ {l \in oldVisible[c] : layerStatus[l] = "despawned"}
        /\ \A d \in Players \ {c} : visible'[d] = visible[d]
        /\ visible' \in [Players -> SUBSET Layers]
    BY DEF HandleMessages, SInv, TypeOK
  <1>7. TypeOK'
    <2>1. \A e \in Entities : InOldView(c, e) \subseteq Positions \cup {NotShown, Elsewhere}
      BY DEF SInv, TypeOK, InOldView, Astray
    <2>2. shown'[c] \in [Entities -> Positions \cup {NotShown, Elsewhere}]
      BY <1>4, <1>5, <2>1 DEF SInv, TypeOK
    <2>3. shown' \in [Players -> [Entities -> Positions \cup {NotShown, Elsewhere}]]
      BY <1>3, <1>5, <2>2 DEF SInv, TypeOK
    <2>4. todo' \subseteq Players
      BY <1>2 DEF SInv, TypeOK
    <2>5. QED
      BY <1>2, <1>6, <2>3, <2>4 DEF SInv, TypeOK
  <1>8. InALayer' /\ NewClients' /\ OldVisibleExist'
    BY <1>2 DEF SInv, InALayer, NewClients, OldVisibleExist, Exists
  <1>9. OneChange'
    BY <1>2 DEF SInv, OneChange, SameLayer, SameChunk
  <1>10. status[c] # "absent"
    BY <1>2 DEF SInv, TodoPresent
  <1>11. AbsentClients'
    BY <1>2, <1>5, <1>6, <1>10 DEF SInv, AbsentClients
  <1>12. VisibleLive'
    BY <1>2, <1>6 DEF SInv, VisibleLive
  <1>13. ViewsTaken'
    BY <1>2 DEF ViewsTaken
  <1>14. MessagesExact'
    BY <1>2
    DEF SInv, MessagesExact, LeaveMsg, EnterMsg, UpdateMsg, Leavers, Entering, Members, Exists,
        Despawned, ChangesLayer, ChangesCell
  <1>15. Seen'
    <2>1. \A d \in Players, e \in Entities :
              ByOld(d, e)' = ByOld(d, e) /\ InOldView(d, e)' = InOldView(d, e)
      BY <1>2 DEF ByOld, InOldView
    <2>2. \A d \in Players : \A e \in Entities \ {d} :
              /\ d \in todo' => shown'[d][e] \in ByOld(d, e)
              /\ Visited(d)' => shown'[d][e] \in InOldView(d, e)
      BY <1>2, <1>4, <1>5 DEF SInv, Seen, Visited
    <2>3. QED
      BY <1>2, <2>1, <2>2 DEF Seen
  <1>16. TodoPresent'
    BY <1>2 DEF SInv, TodoPresent
  <1>17. QED
    BY <1>1, <1>7, <1>8, <1>9, <1>11, <1>12, <1>13, <1>14, <1>15, <1>16 DEF SInv

\* Between two systems nothing is told.
LEMMA StartViewsSees == ASSUME SInv, StartViews PROVE SInv'
  <1>1. CInv'
    BY TellingKeeps DEF SInv, StartViews
  <1>2. /\ UNCHANGED <<status, pos, oldPos, layer, oldLayer, layerStatus, cells, messages,
                       visible, oldVisible, respawns, shown, ops>>
        /\ phase = "messages" /\ phase' = "views"
        /\ todo = {} /\ todo' = {c \in Players : status[c] # "absent"}
    BY DEF StartViews, entityVars, layerVars, clientVars
  <1>3. TypeOK' /\ TodoPresent'
    BY <1>2 DEF SInv, TypeOK, TodoPresent
  <1>4. InALayer' /\ AbsentClients' /\ NewClients' /\ OldVisibleExist' /\ OneChange'
    BY <1>2 DEF SInv, InALayer, AbsentClients, NewClients, OldVisibleExist, OneChange, Exists
  <1>5. VisibleLive' /\ ViewsTaken' /\ MessagesExact'
    BY <1>2 DEF SInv, VisibleLive, ViewsTaken, MessagesExact, Visited
  <1>6. Seen'
    BY <1>2 DEF SInv, Seen, Visited, InOldView
  <1>7. QED
    BY <1>1, <1>3, <1>4, <1>5, <1>6 DEF SInv

\* The entities found in a set of layers and chunks are those that are there.
LEMMA OthersExact ==
    ASSUME SInv, phase = "views", NEW c \in Players, NEW layers \in SUBSET Layers, NEW chunks,
           \A l \in layers : Exists(l)
    PROVE  \A e \in Entities \ {c} :
               e \in Others(c, layers, chunks) <=>
                   status[e] = "live" /\ layer[e] \in layers /\ ChunkOf(pos[e]) \in chunks
  <1>1. \A l \in layers : cells[l] = {Home(e) : e \in Members(l)}
    BY DEF SInv, CInv, CellsNew
  <1>2. ASSUME NEW e, NEW q, NEW l \in layers
        PROVE  <<e, q>> \in cells[l] <=> e \in Members(l) /\ q = ChunkOf(pos[e])
    BY <1>1 DEF Home
  <1>3. \A e \in Entities \ {c} :
            e \in Others(c, layers, chunks) <=>
                \E l \in layers, q \in chunks : e \in Members(l) /\ q = ChunkOf(pos[e])
    BY <1>2 DEF Others
  <1>4. QED
    BY <1>3 DEF Members

LEMMA UpdateViewShows ==
    ASSUME SInv, NEW c \in Players, UpdateView(c), NEW e \in Entities \ {c}
    PROVE  shown'[c][e] \in InNewView(c, e)
  <1> DEFINE O == oldVisible[c]
             V == visible[c]
             old == View(oldPos[c])
             new == View(pos[c])
  <1>1. phase = "views" /\ c \in todo
    BY DEF UpdateView
  <1>2. shown[c][e] \in InOldView(c, e)
    BY <1>1 DEF SInv, Seen
  <1>3. /\ O \subseteq Layers /\ V \subseteq Layers
        /\ \A l \in O \cup V : Exists(l)
    BY <1>1 DEF SInv, TypeOK, OldVisibleExist, VisibleLive, Exists
  <1>4. shown'[c] =
            IF respawns[c]
            THEN Loaded(shown[c], Others(c, O, old), Others(c, V, new))
            ELSE WithView(c, old, new, WithLayers(c, old, new))
    BY DEF UpdateView, SInv, TypeOK
  <1> HIDE DEF O, V, old, new
  <1>5. CASE respawns[c]
    <2>1. e \in Others(c, O, old) <=> status[e] = "live" /\ layer[e] \in O /\ ChunkOf(pos[e]) \in old
      BY <1>1, <1>3, OthersExact
    <2>2. e \in Others(c, V, new) <=> status[e] = "live" /\ layer[e] \in V /\ ChunkOf(pos[e]) \in new
      BY <1>1, <1>3, OthersExact
    <2>3. shown'[c][e] = IF e \in Others(c, V, new) THEN pos[e]
                         ELSE IF e \in Others(c, O, old) THEN NotShown ELSE shown[c][e]
      BY <1>4, <1>5 DEF Loaded
    <2>4. QED
      BY <1>2, <2>1, <2>2, <2>3 DEF InOldView, InNewView, O, V, old, new
  <1>6. CASE ~respawns[c]
    <2> DEFINE mid == WithLayers(c, old, new)
    <2>1. e \in Others(c, O \ V, old)
              <=> status[e] = "live" /\ layer[e] \in O \ V /\ ChunkOf(pos[e]) \in old
      BY <1>1, <1>3, OthersExact
    <2>2. e \in Others(c, V \ O, old)
              <=> status[e] = "live" /\ layer[e] \in V \ O /\ ChunkOf(pos[e]) \in old
      BY <1>1, <1>3, OthersExact
    <2>3. mid[e] = IF e \in Others(c, V \ O, old) THEN pos[e]
                   ELSE IF e \in Others(c, O \ V, old) THEN NotShown ELSE shown[c][e]
      BY DEF WithLayers, Loaded, O, V
    <2>4. mid[e] \in IF status[e] = "live" /\ layer[e] \in V /\ ChunkOf(pos[e]) \in old
                     THEN {pos[e]} \cup Astray ELSE {NotShown}
      BY <1>2, <2>1, <2>2, <2>3 DEF InOldView, O, V, old
    <2>5. e \in Others(c, V, old \ new)
              <=> status[e] = "live" /\ layer[e] \in V /\ ChunkOf(pos[e]) \in old \ new
      BY <1>1, <1>3, OthersExact
    <2>6. e \in Others(c, V, new \ old)
              <=> status[e] = "live" /\ layer[e] \in V /\ ChunkOf(pos[e]) \in new \ old
      BY <1>1, <1>3, OthersExact
    <2> HIDE DEF mid
    <2>7. shown'[c] = WithView(c, old, new, mid)
      BY <1>4, <1>6 DEF mid
    <2>8. shown'[c][e] = IF e \in Others(c, V, new \ old) THEN pos[e]
                         ELSE IF e \in Others(c, V, old \ new) THEN NotShown ELSE mid[e]
      BY <2>7 DEF WithView, Loaded, V
    <2>9. shown'[c][e] \in IF status[e] = "live" /\ layer[e] \in V /\ ChunkOf(pos[e]) \in new
                           THEN {pos[e]} \cup Astray ELSE {NotShown}
      BY <2>4, <2>5, <2>6, <2>8
    <2>10. QED
      BY <2>9 DEF InNewView, V, new
  <1>7. QED
    BY <1>5, <1>6

LEMMA UpdateViewSees == ASSUME SInv, NEW c \in Players, UpdateView(c) PROVE SInv'
  <1>1. CInv'
    BY TellingKeeps DEF SInv, UpdateView
  <1>2. /\ UNCHANGED <<status, pos, oldPos, layer, oldLayer, layerStatus, cells, messages,
                       visible, phase, ops>>
        /\ phase = "views" /\ c \in todo /\ todo' = todo \ {c}
    BY DEF UpdateView, entityVars, layerVars
  <1>3. /\ oldVisible' \in [Players -> SUBSET Layers] /\ respawns' \in [Players -> BOOLEAN]
        /\ oldVisible'[c] = visible[c]
        /\ \A d \in Players \ {c} : oldVisible'[d] = oldVisible[d]
        /\ \A d \in Players \ {c} : shown'[d] = shown[d]
    BY DEF UpdateView, SInv, TypeOK
  <1>4. \A e \in Entities \ {c} : shown'[c][e] \in InNewView(c, e)
    BY UpdateViewShows
  <1>5. shown' \in [Players -> [Entities -> Positions \cup {NotShown, Elsewhere}]]
    <2>1. \A before \in [Entities -> Positions \cup {NotShown, Elsewhere}] : \A unloaded, loaded :
              Loaded(before, unloaded, loaded) \in [Entities -> Positions \cup {NotShown, Elsewhere}]
      BY DEF Loaded, SInv, TypeOK
    <2>2. shown[c] \in [Entities -> Positions \cup {NotShown, Elsewhere}]
      BY DEF SInv, TypeOK
    <2>3. WithLayers(c, View(oldPos[c]), View(pos[c])) \in [Entities -> Positions \cup {NotShown, Elsewhere}]
      BY <2>1, <2>2 DEF WithLayers
    <2>4. WithView(c, View(oldPos[c]), View(pos[c]), WithLayers(c, View(oldPos[c]), View(pos[c])))
              \in [Entities -> Positions \cup {NotShown, Elsewhere}]
      BY <2>1, <2>3 DEF WithView
    <2>5. QED
      BY <2>1, <2>2, <2>4 DEF UpdateView, SInv, TypeOK
  <1>6. todo' \subseteq Players
    BY <1>2 DEF SInv, TypeOK
  <1>7. TypeOK'
    BY <1>2, <1>3, <1>5, <1>6 DEF SInv, TypeOK
  <1>8. InALayer' /\ NewClients' /\ OneChange' /\ MessagesExact' /\ TodoPresent'
    BY <1>2 DEF SInv, InALayer, NewClients, OneChange, MessagesExact, TodoPresent
  <1>9. VisibleLive'
    BY <1>2 DEF SInv, VisibleLive
  <1>10. OldVisibleExist'
    BY <1>2, <1>3 DEF SInv, TypeOK, OldVisibleExist, VisibleLive, Exists
  <1>11. AbsentClients'
    BY <1>2, <1>3 DEF SInv, AbsentClients, TodoPresent
  <1>12. ViewsTaken'
    BY <1>2, <1>3 DEF SInv, ViewsTaken, Visited
  <1>13. Seen'
    <2>1. \A d \in Players \ {c}, e \in Entities : InOldView(d, e)' = InOldView(d, e)
      BY <1>2, <1>3 DEF InOldView
    <2>2. \A d \in Players, e \in Entities : InNewView(d, e)' = InNewView(d, e)
      BY <1>2 DEF InNewView
    <2>3. \A d \in Players : \A e \in Entities \ {d} :
              /\ d \in todo' => shown'[d][e] \in InOldView(d, e)'
              /\ Visited(d)' => shown'[d][e] \in InNewView(d, e)'
      BY <1>2, <1>3, <1>4, <2>1, <2>2 DEF SInv, Seen, Visited
    <2>4. QED
      BY <1>2, <2>3 DEF Seen
  <1>14. QED
    BY <1>1, <1>7, <1>8, <1>9, <1>10, <1>11, <1>12, <1>13 DEF SInv

LEMMA FinishViewsSees == ASSUME SInv, FinishViews PROVE SInv'
  <1>1. CInv'
    BY TellingKeeps DEF SInv, FinishViews
  <1>2. /\ UNCHANGED <<status, pos, oldPos, layer, oldLayer, layerStatus, cells, messages,
                       visible, oldVisible, respawns, shown, todo, ops>>
        /\ phase = "views" /\ phase' = "endTick" /\ todo = {}
    BY DEF FinishViews, entityVars, layerVars, clientVars
  <1>3. TypeOK' /\ TodoPresent'
    BY <1>2 DEF SInv, TypeOK, TodoPresent
  <1>4. InALayer' /\ AbsentClients' /\ NewClients' /\ OldVisibleExist' /\ OneChange'
    BY <1>2 DEF SInv, InALayer, AbsentClients, NewClients, OldVisibleExist, OneChange, Exists
  <1>5. VisibleLive' /\ ViewsTaken' /\ MessagesExact'
    BY <1>2 DEF SInv, VisibleLive, ViewsTaken, MessagesExact, Visited
  <1>6. Seen'
    BY <1>2 DEF SInv, Seen, Visited, InNewView
  <1>7. QED
    BY <1>1, <1>3, <1>4, <1>5, <1>6 DEF SInv

\* The Old components take over what the components say: what a client has by the
\* new view is what it has by the Old components of the next tick.
LEMMA EndTickSees == ASSUME SInv, EndTick PROVE SInv'
  <1>1. CInv'
    BY EndTickKeeps DEF SInv
  <1>2. phase = "endTick" /\ phase' = "update" /\ todo' = todo /\ ops' = 0
    BY DEF EndTick
  <1>3. TypeOK'
    <2>1. Origin \in Positions
      BY PositionsAssumption DEF Origin
    <2>2. /\ status' \in [Entities -> Statuses] /\ pos' \in [Entities -> Positions]
          /\ oldPos' = pos' /\ layer' \in [Entities -> Layers \cup {NoLayer}] /\ oldLayer' = layer'
      BY <2>1 DEF EndTick, SInv, TypeOK, Statuses
    <2>3. /\ layerStatus' \in [Layers -> Statuses] /\ cells' \in [Layers -> SUBSET (Entities \X Chunks)]
          /\ \A l \in Layers : messages'[l] \subseteq LocalMsg
      BY DEF EndTick, SInv, TypeOK, Statuses
    <2>4. Nothing \in [Entities -> Positions \cup {NotShown, Elsewhere}]
      BY DEF Nothing
    <2>5. /\ visible' \in [Players -> SUBSET Layers] /\ oldVisible' \in [Players -> SUBSET Layers]
          /\ respawns' \in [Players -> BOOLEAN]
          /\ shown' \in [Players -> [Entities -> Positions \cup {NotShown, Elsewhere}]]
      BY <2>4 DEF EndTick, SInv, TypeOK
    <2>6. QED
      BY <1>2, <2>2, <2>3, <2>5, CallsAssumption DEF SInv, TypeOK
  <1>4. \A e \in Entities :
            IF status[e] = "live"
            THEN status'[e] = "live" /\ pos'[e] = pos[e] /\ layer'[e] = layer[e]
            ELSE status'[e] = "absent" /\ layer'[e] = NoLayer
    BY DEF EndTick, Gone
  <1>5. oldPos' = pos' /\ oldLayer' = layer'
    BY DEF EndTick
  <1>6. \A c \in Players :
            IF status[c] = "live"
            THEN visible'[c] = visible[c] /\ oldVisible'[c] = visible[c] /\ shown'[c] = shown[c]
            ELSE visible'[c] = {} /\ oldVisible'[c] = {} /\ shown'[c] = Nothing
    BY <1>2 DEF EndTick, Gone, SInv, ViewsTaken
  <1>7. \A c \in Players : c \in Entities
    BY PlayersAssumption
  <1>8. InALayer' /\ OneChange'
    BY <1>4, <1>5 DEF SInv, InALayer, OneChange, SameLayer, SameChunk
  <1>9. AbsentClients'
    BY <1>4, <1>6, <1>7 DEF AbsentClients
  <1>10. NewClients'
    <2>1. \A c \in Players : status[c] = "live" => oldLayer'[c] # NoLayer
      BY <1>4, <1>5, <1>7, NoLayerAssumption DEF SInv, InALayer
    <2>2. QED
      BY <1>6, <2>1 DEF NewClients
  <1>11. \A c \in Players : \A l \in visible'[c] : l \in Layers /\ layerStatus'[l] = "live"
    <2>1. \A c \in Players : \A l \in visible[c] : l \in Layers /\ layerStatus[l] = "live"
      BY <1>2 DEF SInv, TypeOK, VisibleLive
    <2>2. \A l \in Layers : layerStatus[l] = "live" => layerStatus'[l] = "live"
      BY DEF EndTick
    <2>3. QED
      BY <1>6, <2>1, <2>2
  <1>12. OldVisibleExist' /\ VisibleLive'
    BY <1>6, <1>11 DEF OldVisibleExist, VisibleLive, Exists
  <1>13. ViewsTaken' /\ MessagesExact' /\ TodoPresent'
    BY <1>2 DEF ViewsTaken, MessagesExact, TodoPresent
  <1>14. ASSUME NEW c \in Players, NEW e \in Entities \ {c}
         PROVE  shown'[c][e] \in ByOld(c, e)'
    <2>1. CASE status[c] # "live"
      BY <1>6, <2>1 DEF Nothing, ByOld
    <2>2. CASE status[c] = "live"
      <3>1. shown'[c][e] \in InNewView(c, e)
        BY <1>2, <1>6, <2>2 DEF SInv, Seen
      <3>2. oldVisible'[c] = visible[c] /\ NoLayer \notin visible[c]
        BY <1>6, <2>2, NoLayerAssumption DEF SInv, TypeOK
      <3>3. View(oldPos[c])' = View(pos[c])
        BY <1>4, <1>5, <1>7, <2>2 DEF View
      <3>4. QED
        BY <1>4, <1>5, <3>1, <3>2, <3>3 DEF InNewView, ByOld
    <2>3. QED
      BY <2>1, <2>2
  <1>15. Seen'
    BY <1>2, <1>14 DEF Seen
  <1>16. QED
    BY <1>1, <1>3, <1>8, <1>9, <1>10, <1>12, <1>13, <1>15 DEF SInv

-----------------------------------------------------------------------------
LEMMA InitSees == ASSUME Init PROVE SInv
  <1>1. CInv
    BY InitCInv
  <1>2. Origin \in Positions
    BY PositionsAssumption DEF Origin
  <1>3. TypeOK
    BY <1>2, CallsAssumption DEF Init, TypeOK, Statuses, Nothing
  <1>4. InALayer /\ OneChange /\ AbsentClients /\ NewClients /\ TodoPresent
    BY PlayersAssumption DEF Init, InALayer, OneChange, AbsentClients, NewClients, TodoPresent
  <1>5. OldVisibleExist /\ VisibleLive /\ ViewsTaken /\ MessagesExact
    BY DEF Init, OldVisibleExist, VisibleLive, ViewsTaken, MessagesExact
  <1>6. Seen
    BY DEF Init, Seen, ByOld, Nothing
  <1>7. QED
    BY <1>1, <1>3, <1>4, <1>5, <1>6 DEF SInv

LEMMA StutterSees == ASSUME SInv, UNCHANGED vars PROVE SInv'
  <1>1. CInv'
    BY DEF vars, SInv, CInv, Types, AbsentNowhere, DespawnedWhereLooked, CellsOld, CellsNew,
           Exists, OldMembers, Members, Home, OldHome
  <1>2. TypeOK' /\ InALayer' /\ OneChange' /\ AbsentClients' /\ NewClients' /\ TodoPresent'
    BY DEF vars, SInv, TypeOK, InALayer, OneChange, AbsentClients, NewClients, TodoPresent,
           SameLayer, SameChunk
  <1>3. OldVisibleExist' /\ VisibleLive' /\ ViewsTaken'
    BY DEF vars, SInv, OldVisibleExist, VisibleLive, ViewsTaken, Visited, Exists
  <1>4. MessagesExact'
    BY DEF vars, SInv, MessagesExact, LeaveMsg, EnterMsg, UpdateMsg, Leavers, Entering, Members,
           Exists, Despawned, ChangesLayer, ChangesCell
  <1>5. Seen'
    BY DEF vars, SInv, Seen, Visited, ByOld, InOldView, InNewView
  <1>6. QED
    BY <1>1, <1>2, <1>3, <1>4, <1>5 DEF SInv

LEMMA NextSees == ASSUME Careful, SInv, [Next]_vars PROVE SInv'
  <1>1. CASE UNCHANGED vars
    BY <1>1, StutterSees
  <1>2. CASE UserCall
    <2>1. ASSUME NEW e \in Entities, NEW p \in Positions, NEW l \in Layers, Spawn(e, p, l)
          PROVE  SInv'
      BY <2>1, SpawnSees
    <2>2. ASSUME NEW e \in Entities, NEW p \in Positions, Move(e, p)
          PROVE  SInv'
      BY <2>2, MoveSees
    <2>3. ASSUME NEW e \in Entities, NEW l \in Layers, ChangeLayer(e, l)
          PROVE  SInv'
      BY <2>3, ChangeLayerSees
    <2>4. ASSUME NEW e \in Entities, Despawn(e)
          PROVE  SInv'
      BY <2>4, DespawnSees
    <2>5. ASSUME NEW l \in Layers, DespawnLayer(l)
          PROVE  SInv'
      BY <2>5, DespawnLayerSees
    <2>6. ASSUME NEW c \in Players, NEW l \in Layers, Show(c, l) \/ Hide(c, l)
          PROVE  SInv'
      BY <2>6, ShowSees, HideSees
    <2>7. ASSUME NEW c \in Players, ChangeChunkLayer(c)
          PROVE  SInv'
      BY <2>7, ChangeChunkLayerSees
    <2>8. QED
      BY <1>2, <2>1, <2>2, <2>3, <2>4, <2>5, <2>6, <2>7 DEF UserCall
  <1>3. CASE InitEntities
    BY <1>3, InitEntitiesSees
  <1>4. CASE ChangePositions
    BY <1>4, ChangePositionsSees
  <1>5. ASSUME NEW c \in Players, HandleMessages(c) \/ UpdateView(c)
        PROVE  SInv'
    BY <1>5, HandleMessagesSees, UpdateViewSees
  <1>6. CASE StartViews \/ FinishViews
    BY <1>6, StartViewsSees, FinishViewsSees
  <1>7. CASE EndTick
    BY <1>7, EndTickSees
  <1>8. QED
    BY <1>1, <1>2, <1>3, <1>4, <1>5, <1>6, <1>7 DEF Next, SystemStep

LEMMA SInvAlways == ASSUME Careful PROVE Spec => []SInv
  BY InitSees, NextSees, PTL DEF Spec

-----------------------------------------------------------------------------
\* While none of the three pairs of calls is made in one tick, every client ends
\* every tick with exactly the entities in its view in its layers, for any number
\* of clients, entities and layers and any view radius, in whatever order the
\* hierarchies of messages have a spawn and a packet (client.rs:783-909,
\* 1020-1208).  That each is where it is is part of it when all chunks fit a leaf.
THEOREM SpecClientSeesEntities == ASSUME Careful PROVE Spec => []ClientSeesEntities
  <1>1. ASSUME SInv
        PROVE  ClientSeesEntities
    <2> SUFFICES ASSUME phase = "endTick", NEW c \in Players, status[c] = "live",
                        NEW e \in Entities \ {c}
                 PROVE  shown[c][e] \in Expected(c, e, Astray)
      BY DEF ClientSeesEntities
    <2>1. shown[c][e] \in InNewView(c, e)
      BY <1>1 DEF SInv, Seen
    <2>2. \A l \in visible[c] : layerStatus[l] = "live"
      BY <1>1 DEF SInv, VisibleLive
    <2>3. QED
      BY <2>1, <2>2 DEF InNewView, Expected
  <1>2. QED
    BY <1>1, SInvAlways, PTL

\* While all chunks fit one leaf (MAX_SURFACE_AREA is 32, so chunks up to 16 apart
\* do) every client also ends every tick with each entity where it is
\* (bvh.rs:123-130, client.rs:847-849).
THEOREM SpecEntitiesInPlace ==
    ASSUME Careful, FitsOneLeaf(Chunks)
    PROVE  Spec => []EntitiesInPlace
  <1>1. ClientSeesEntities => EntitiesInPlace
    <2>1. Astray = {}
      BY DEF Astray
    <2>2. QED
      BY <2>1 DEF ClientSeesEntities, EntitiesInPlace
  <1>2. QED
    BY <1>1, SpecClientSeesEntities, PTL

\* The types, among them that a delta never takes an entity to a place that is
\* none: it is added to where the client has the entity.
THEOREM SpecTypeOK == ASSUME Careful PROVE Spec => []TypeOK
  <1>1. SInv => TypeOK
    BY DEF SInv
  <1>2. QED
    BY <1>1, SInvAlways, PTL

=============================================================================
