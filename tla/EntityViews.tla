------------------------------ MODULE EntityViews ------------------------------
(***************************************************************************)
(* Entity layers and what clients see of the entities in them              *)
(* (crates/chunkedge_server/src/layer/entity.rs, client.rs,                *)
(* crates/chunkedge_entity/src/lib.rs, query.rs).                          *)
(*                                                                         *)
(* An entity layer keeps its entities in cells, one per chunk.  A tick     *)
(* runs user code, and then, in PostUpdate, the systems                    *)
(*                                                                         *)
(*   change_entity_positions .. ready_entity_layers   (ChangePositions)    *)
(*   handle_layer_messages, for each client           (HandleMessages)     *)
(*   update_view_and_layers, for each client          (UpdateView)         *)
(*   unready, the Old components, despawning          (EndTick)            *)
(*                                                                         *)
(* A client is itself an entity: its view is centred on its own position,  *)
(* and it is never told of itself.  Positions lie on a line.               *)
(*                                                                         *)
(* A message tells of one entity.  A client handles those of a layer       *)
(* sorted by kind while the layer's bounding volume hierarchy is one leaf, *)
(* as Messages shows, whose kinds do not share bytes here.  Once it is     *)
(* split, the partition swaps messages: a movement packet can come before  *)
(* the spawn of its entity, and which do is left open (bvh.rs).            *)
(***************************************************************************)
EXTENDS Integers, FiniteSets

CONSTANTS
    Entities,
    Players,      \* the entities with a Client
    Layers,
    Positions,    \* integers
    ChunkWidth,   \* positions per chunk
    Far,          \* a move as long as this is sent as a position, not a delta
    ViewRadius,   \* in chunks
    NoLayer,      \* Entity::PLACEHOLDER
    NotShown,     \* the client does not have the entity
    Elsewhere,    \* the client has the entity where it is not
    MaxSurfaceArea, \* MAX_SURFACE_AREA, of a leaf of a hierarchy
    OpsPerTick,   \* bound: the calls between two PostUpdates
    Avoided       \* which pairs of calls user code does not make in one tick

\* An entity changes layer and chunk, changes layer and is despawned; a layer
\* becomes visible to a client and is despawned.
Pairs == {"layer and chunk", "layer and despawn", "show and despawn"}

ASSUME PlayersAssumption == Players \subseteq Entities
ASSUME PositionsAssumption ==
    /\ Positions \subseteq Int /\ Positions # {}
    /\ ChunkWidth \in Nat \ {0} /\ Far \in Nat /\ ViewRadius \in Nat
ASSUME NoLayerAssumption == NoLayer \notin Layers /\ NotShown \notin Positions
ASSUME ElsewhereAssumption == Elsewhere \notin Positions \cup {NotShown}
ASSUME MaxSurfaceAreaAssumption == MaxSurfaceArea \in Nat \ {0}
ASSUME CallsAssumption == OpsPerTick \in Nat /\ Avoided \subseteq Pairs

VARIABLES
    status,        \* of an entity: in the world, with or without Despawned
    pos,           \* Position
    oldPos,        \* OldPosition
    layer,         \* EntityLayerId
    oldLayer,      \* OldEntityLayerId
    layerStatus,   \* of a layer
    cells,         \* EntityLayer::entities: which entity is in which cell
    messages,      \* the local messages of a layer
    visible,       \* VisibleEntityLayers
    oldVisible,    \* OldVisibleEntityLayers
    respawns,      \* whether VisibleChunkLayer differs from its Old component
    shown,         \* where the client on the other end has each entity
    phase,         \* which part of the tick runs
    todo,          \* the clients the running system has still to visit
    ops            \* how many calls this tick has seen

entityVars == <<status, pos, oldPos, layer, oldLayer>>
layerVars == <<layerStatus, cells, messages>>
clientVars == <<visible, oldVisible, respawns, shown>>
schedule == <<phase, todo, ops>>
vars == <<status, pos, oldPos, layer, oldLayer, layerStatus, cells, messages,
          visible, oldVisible, respawns, shown, phase, todo, ops>>

Statuses == {"absent", "live", "despawned"}
ChunkOf(p) == p \div ChunkWidth
Chunks == {ChunkOf(p) : p \in Positions}
View(p) == {q \in Chunks : q - ChunkOf(p) \in -ViewRadius..ViewRadius}

LocalMsg ==
    [kind : {"DespawnEntity", "SpawnEntity"}, at : Chunks,
     other : Layers \cup {NoLayer}, entity : Entities]
    \cup
    [kind : {"DespawnEntityTransition", "SpawnEntityTransition"},
     at : Chunks, other : Chunks, entity : Entities]
    \cup
    [kind : {"PacketAt"}, at : Chunks, entity : Entities]

TypeOK ==
    /\ status \in [Entities -> Statuses]
    /\ pos \in [Entities -> Positions]
    /\ oldPos \in [Entities -> Positions]
    /\ layer \in [Entities -> Layers \cup {NoLayer}]
    /\ oldLayer \in [Entities -> Layers \cup {NoLayer}]
    /\ layerStatus \in [Layers -> Statuses]
    /\ cells \in [Layers -> SUBSET (Entities \X Chunks)]
    /\ \A l \in Layers : messages[l] \subseteq LocalMsg
    /\ visible \in [Players -> SUBSET Layers]
    /\ oldVisible \in [Players -> SUBSET Layers]
    /\ respawns \in [Players -> BOOLEAN]
    /\ shown \in [Players -> [Entities -> Positions \cup {NotShown, Elsewhere}]]
    /\ phase \in {"update", "layers", "messages", "views", "endTick"}
    /\ todo \subseteq Players
    /\ ops \in 0..OpsPerTick

\* The position an entity that is not in the world counts as having.
Origin == CHOOSE p \in Positions : TRUE

Nothing == [e \in Entities |-> NotShown]

Init ==
    /\ status = [e \in Entities |-> "absent"]
    /\ pos = [e \in Entities |-> Origin]
    /\ oldPos = pos
    /\ layer = [e \in Entities |-> NoLayer]
    /\ oldLayer = [e \in Entities |-> NoLayer]
    /\ layerStatus = [l \in Layers |-> "live"]
    /\ cells = [l \in Layers |-> {}]
    /\ messages = [l \in Layers |-> {}]
    /\ visible = [c \in Players |-> {}]
    /\ oldVisible = [c \in Players |-> {}]
    /\ respawns = [c \in Players |-> FALSE]
    /\ shown = [c \in Players |-> Nothing]
    /\ phase = "update"
    /\ todo = {}
    /\ ops = 0

-----------------------------------------------------------------------------
\* An entity whose Old layer is the placeholder is new, and in no cell yet.
SameLayer(e) == layer[e] = oldLayer[e] \/ oldLayer[e] = NoLayer
SameChunk(e) == ChunkOf(pos[e]) = ChunkOf(oldPos[e]) \/ oldLayer[e] = NoLayer

Exists(l) == l \in Layers /\ layerStatus[l] # "absent"

Call ==
    /\ phase = "update"
    /\ ops < OpsPerTick
    /\ ops' = ops + 1
    /\ UNCHANGED <<oldPos, oldLayer, cells, messages, oldVisible, shown, phase, todo>>

\* An entity is spawned with its components; its Old layer is the placeholder.
Spawn(e, p, l) ==
    /\ Call
    /\ status[e] = "absent"
    /\ layerStatus[l] = "live"
    /\ status' = [status EXCEPT ![e] = "live"]
    /\ pos' = [pos EXCEPT ![e] = p]
    /\ layer' = [layer EXCEPT ![e] = l]
    /\ UNCHANGED <<layerStatus, visible, respawns>>

Move(e, p) ==
    /\ Call
    /\ status[e] = "live"
    /\ p # pos[e]
    /\ "layer and chunk" \in Avoided => SameLayer(e) \/ ChunkOf(p) = ChunkOf(oldPos[e])
    /\ pos' = [pos EXCEPT ![e] = p]
    /\ UNCHANGED <<status, layer, layerStatus, visible, respawns>>

ChangeLayer(e, l) ==
    /\ Call
    /\ status[e] = "live"
    /\ l # layer[e]
    /\ layerStatus[l] = "live"
    /\ "layer and chunk" \in Avoided => SameChunk(e)
    /\ layer' = [layer EXCEPT ![e] = l]
    /\ UNCHANGED <<status, pos, layerStatus, visible, respawns>>

\* User code inserts Despawned, or despawn_disconnected_clients does.
Despawn(e) ==
    /\ Call
    /\ status[e] = "live"
    /\ "layer and despawn" \in Avoided => SameLayer(e)
    /\ status' = [status EXCEPT ![e] = "despawned"]
    /\ UNCHANGED <<pos, layer, layerStatus, visible, respawns>>

DespawnLayer(l) ==
    /\ Call
    /\ layerStatus[l] = "live"
    /\ "show and despawn" \in Avoided =>
           \A c \in Players : l \in visible[c] => l \in oldVisible[c]
    /\ layerStatus' = [layerStatus EXCEPT ![l] = "despawned"]
    /\ UNCHANGED <<status, pos, layer, visible, respawns>>

\* User code changes VisibleEntityLayers.
Show(c, l) ==
    /\ Call
    /\ status[c] = "live"
    /\ l \notin visible[c]
    /\ Exists(l)
    /\ "show and despawn" \in Avoided => layerStatus[l] = "live"
    /\ visible' = [visible EXCEPT ![c] = @ \cup {l}]
    /\ UNCHANGED <<status, pos, layer, layerStatus, respawns>>

Hide(c, l) ==
    /\ Call
    /\ status[c] = "live"
    /\ l \in visible[c]
    /\ visible' = [visible EXCEPT ![c] = @ \ {l}]
    /\ UNCHANGED <<status, pos, layer, layerStatus, respawns>>

\* User code changes VisibleChunkLayer.
ChangeChunkLayer(c) ==
    /\ Call
    /\ status[c] = "live"
    /\ ~respawns[c]
    /\ respawns' = [respawns EXCEPT ![c] = TRUE]
    /\ UNCHANGED <<status, pos, layer, layerStatus, visible>>

-----------------------------------------------------------------------------
\* init_entities: the Old position of a new entity is where it is.
InitEntities ==
    /\ phase = "update"
    /\ phase' = "layers"
    /\ oldPos' = [e \in Entities |->
           IF status[e] = "live" /\ oldLayer[e] = NoLayer THEN pos[e] ELSE oldPos[e]]
    /\ UNCHANGED <<status, pos, layer, oldLayer, layerVars, clientVars, todo, ops>>

\* The branches of change_entity_positions.
Despawned(e) == status[e] = "despawned"
ChangesLayer(e) == status[e] = "live" /\ layer[e] # oldLayer[e]
ChangesCell(e) ==
    /\ status[e] = "live"
    /\ layer[e] = oldLayer[e]
    /\ ChunkOf(pos[e]) # ChunkOf(oldPos[e])

Home(e) == <<e, ChunkOf(pos[e])>>
OldHome(e) == <<e, ChunkOf(oldPos[e])>>

\* Mistakes of the kind the code could make are defined before what they would
\* replace; the run must notice each of them.
LeavingOnLayerChangeOnly(l) ==
    {e \in Entities : OldHome(e) \in cells[l] /\ ChangesLayer(e) /\ oldLayer[e] = l}

\* The entities that leave their cell of layer l.  A despawned entity is looked
\* for in the layer it has now, one that changes its layer in the old one.
Leaving(l) ==
    {e \in Entities :
        /\ OldHome(e) \in cells[l]
        /\ \/ Despawned(e) /\ layer[e] = l
           \/ ChangesLayer(e) /\ oldLayer[e] = l
           \/ ChangesCell(e) /\ layer[e] = l}

Entering(l) == {e \in Entities : (ChangesLayer(e) \/ ChangesCell(e)) /\ layer[e] = l}

LeaveMsg(e) ==
    IF ChangesCell(e)
    THEN [kind |-> "DespawnEntityTransition", at |-> ChunkOf(oldPos[e]),
          other |-> ChunkOf(pos[e]), entity |-> e]
    ELSE [kind |-> "DespawnEntity", at |-> ChunkOf(oldPos[e]),
          other |-> IF Despawned(e) THEN NoLayer ELSE layer[e], entity |-> e]

EnterMsg(e) ==
    IF ChangesCell(e)
    THEN [kind |-> "SpawnEntityTransition", at |-> ChunkOf(pos[e]),
          other |-> ChunkOf(oldPos[e]), entity |-> e]
    ELSE [kind |-> "SpawnEntity", at |-> ChunkOf(pos[e]),
          other |-> oldLayer[e], entity |-> e]

UpdateMsgAtOld(e) ==
    [kind |-> "PacketAt", at |-> ChunkOf(oldPos[e]), entity |-> e]

\* What send_entity_update_messages sends of an entity that moved.
UpdateMsg(e) == [kind |-> "PacketAt", at |-> ChunkOf(pos[e]), entity |-> e]

\* change_entity_positions, send_entity_update_messages, ready_entity_layers.
ChangePositions ==
    LET settled(l) == IF Exists(l) THEN {Home(e) : e \in Entering(l)} ELSE {}
        entered(l) == (cells[l] \ {OldHome(e) : e \in Leaving(l)}) \cup settled(l)
    IN
    /\ phase = "layers"
    /\ phase' = "messages"
    /\ todo' = {c \in Players : status[c] # "absent"}
    /\ cells' = [l \in Layers |-> entered(l)]
    /\ messages' = [l \in Layers |->
           {LeaveMsg(e) : e \in Leaving(l)}
           \cup {EnterMsg(e) : e \in {f \in Entering(l) : Exists(l)}}
           \cup {UpdateMsg(e) : e \in {f \in Entities :
                     pos[f] # oldPos[f] /\ \E q \in Chunks : <<f, q>> \in entered(l)}}]
    /\ UNCHANGED <<entityVars, layerStatus, clientVars, ops>>

-----------------------------------------------------------------------------
\* What the messages of the layers that client c could see say of entity e, in
\* its old view.  At most one layer removes e and at most one spawns it, and
\* they agree on which of the two: the order of the layers makes no difference.
Heard(c, e, kind) ==
    {m \in UNION {messages[l] : l \in {k \in oldVisible[c] : Exists(k)}} :
        m.kind = kind /\ m.entity = e /\ m.at \in View(oldPos[c])}

RemovedAlways(c, e) ==
    Heard(c, e, "DespawnEntity") # {} \/ Heard(c, e, "DespawnEntityTransition") # {}

\* A removal counts unless the client can see the entity where it went to.
Removed(c, e) ==
    \/ \E m \in Heard(c, e, "DespawnEntity") : m.other \notin oldVisible[c]
    \/ \E m \in Heard(c, e, "DespawnEntityTransition") : m.other \notin View(oldPos[c])

\* A spawn counts unless the client could see the entity where it came from.
Spawned(c, e) ==
    \/ \E m \in Heard(c, e, "SpawnEntity") : m.other \notin oldVisible[c]
    \/ \E m \in Heard(c, e, "SpawnEntityTransition") : m.other \notin View(oldPos[c])

\* The movement packets: a delta to where the client has the entity, or a
\* position.  A client ignores a packet of an entity it does not have, and a
\* delta leaves an entity as far off as it was.
Updated(c, e, where) ==
    IF Heard(c, e, "PacketAt") = {} \/ where = NotShown THEN where
    ELSE IF pos[e] - oldPos[e] \notin -(Far - 1)..(Far - 1) THEN pos[e]
    ELSE IF where = Elsewhere THEN Elsewhere
    ELSE where + (pos[e] - oldPos[e])

SpawnsWhereItIs(e) == pos[e]

\* Where handle_layer_messages spawns an entity: at its old position, since the
\* packet of its movement is still to come.
SpawnsAt(e) == oldPos[e]

\* The chunks of the messages in a layer's hierarchy have bounds that a leaf may
\* have; the surface area is twice the sum of the lengths (build_rec).
FitsOneLeaf(chunks) == \A p, q \in chunks : 2 * (p - q) <= MaxSurfaceArea

OneLeaf(l) == FitsOneLeaf({m.at : m \in messages[l]})

\* The entities that a split hierarchy may tell client c to spawn after the packet
\* of their movement, which has the same layer and chunk.
Overtaken(c) ==
    {e \in Entities \ {c} :
        Spawned(c, e) /\ Heard(c, e, "PacketAt") # {} /\ ~OneLeaf(layer[e])}

\* Messages of one leaf are sorted: removals, then spawns, then packets.  No
\* client is told both to remove and to spawn an entity, and the packet of one
\* that it removes makes no difference: only spawn and packet can change places.
Told(c, e, early) ==
    LET removed == IF Removed(c, e) THEN NotShown ELSE shown[c][e]
        spawned == IF Spawned(c, e) THEN SpawnsAt(e) ELSE removed
    IN IF e \notin early THEN Updated(c, e, spawned)
       ELSE IF SpawnsAt(e) = pos[e] THEN pos[e] ELSE Elsewhere

\* handle_layer_messages for one client, entity layers; a client is not told of
\* itself.  A layer that is despawned leaves the client's visible layers.
HandleMessages(c) ==
    /\ phase = "messages"
    /\ c \in todo
    /\ todo' = todo \ {c}
    /\ \E early \in SUBSET Overtaken(c) :
           shown' = [shown EXCEPT ![c] =
               [e \in Entities |-> IF e = c THEN @[e] ELSE Told(c, e, early)]]
    /\ visible' = [visible EXCEPT ![c] =
           @ \ {l \in oldVisible[c] : layerStatus[l] = "despawned"}]
    /\ UNCHANGED <<entityVars, layerVars, oldVisible, respawns, phase, ops>>

StartViews ==
    /\ phase = "messages"
    /\ todo = {}
    /\ phase' = "views"
    /\ todo' = {c \in Players : status[c] # "absent"}
    /\ UNCHANGED <<entityVars, layerVars, clientVars, ops>>

-----------------------------------------------------------------------------
\* The entities entities_at yields in the layers and chunks, other than c.
Others(c, layers, chunks) ==
    {e \in Entities \ {c} :
        \E l \in layers, q \in chunks : Exists(l) /\ <<e, q>> \in cells[l]}

\* What a client has after entities were unloaded and then others loaded.
Loaded(before, unloaded, loaded) ==
    [e \in Entities |->
        IF e \in loaded THEN pos[e] ELSE IF e \in unloaded THEN NotShown ELSE before[e]]

WithoutLayers(c, old, new) == shown[c]

\* The visible layers change, in the old view.
WithLayers(c, old, new) ==
    Loaded(shown[c], Others(c, oldVisible[c] \ visible[c], old),
           Others(c, visible[c] \ oldVisible[c], old))

WithViewOfOldLayers(c, old, new, before) ==
    Loaded(before, Others(c, oldVisible[c], old \ new), Others(c, oldVisible[c], new \ old))

\* The view changes, in the layers that are visible now.
WithView(c, old, new, before) ==
    Loaded(before, Others(c, visible[c], old \ new), Others(c, visible[c], new \ old))

\* update_view_and_layers for one client, entities.
UpdateView(c) ==
    LET old == View(oldPos[c])
        new == View(pos[c])
    IN
    /\ phase = "views"
    /\ c \in todo
    /\ todo' = todo \ {c}
    /\ shown' = [shown EXCEPT ![c] =
           IF respawns[c]
           THEN Loaded(shown[c], Others(c, oldVisible[c], old), Others(c, visible[c], new))
           ELSE WithView(c, old, new, WithLayers(c, old, new))]
    /\ respawns' = [respawns EXCEPT ![c] = FALSE]
    /\ oldVisible' = [oldVisible EXCEPT ![c] = visible[c]]
    /\ UNCHANGED <<entityVars, layerVars, visible, phase, ops>>

FinishViews ==
    /\ phase = "views"
    /\ todo = {}
    /\ phase' = "endTick"
    /\ UNCHANGED <<entityVars, layerVars, clientVars, todo, ops>>

Gone(e) == status[e] # "live"

\* unready_entity_layers, update_old_position, update_old_layer_id;
\* despawn_marked_entities in Last.
EndTick ==
    /\ phase = "endTick"
    /\ phase' = "update"
    /\ ops' = 0
    /\ messages' = [l \in Layers |-> {}]
    /\ status' = [e \in Entities |-> IF Gone(e) THEN "absent" ELSE "live"]
    /\ pos' = [e \in Entities |-> IF Gone(e) THEN Origin ELSE pos[e]]
    /\ oldPos' = pos'
    /\ layer' = [e \in Entities |-> IF Gone(e) THEN NoLayer ELSE layer[e]]
    /\ oldLayer' = layer'
    /\ layerStatus' = [l \in Layers |->
           IF layerStatus[l] = "despawned" THEN "absent" ELSE layerStatus[l]]
    /\ cells' = [l \in Layers |-> IF layerStatus[l] = "live" THEN cells[l] ELSE {}]
    /\ visible' = [c \in Players |-> IF Gone(c) THEN {} ELSE visible[c]]
    /\ oldVisible' = [c \in Players |-> IF Gone(c) THEN {} ELSE oldVisible[c]]
    /\ respawns' = [c \in Players |-> IF Gone(c) THEN FALSE ELSE respawns[c]]
    /\ shown' = [c \in Players |-> IF Gone(c) THEN Nothing ELSE shown[c]]
    /\ UNCHANGED todo

-----------------------------------------------------------------------------
UserCall ==
    \/ \E e \in Entities :
           \/ \E p \in Positions, l \in Layers : Spawn(e, p, l)
           \/ \E p \in Positions : Move(e, p)
           \/ \E l \in Layers : ChangeLayer(e, l)
           \/ Despawn(e)
    \/ \E l \in Layers : DespawnLayer(l)
    \/ \E c \in Players :
           \/ \E l \in Layers : Show(c, l) \/ Hide(c, l)
           \/ ChangeChunkLayer(c)

SystemStep ==
    \/ InitEntities
    \/ ChangePositions
    \/ \E c \in Players : HandleMessages(c)
    \/ StartViews
    \/ \E c \in Players : UpdateView(c)
    \/ FinishViews
    \/ EndTick

Next == UserCall \/ SystemStep

Spec == Init /\ [][Next]_vars

-----------------------------------------------------------------------------
\* When messages are ready, the cells of a layer hold exactly its entities, each
\* in the chunk it is in: none is left behind in the cell or the layer it came
\* from, none is missing (entity.rs:366-471, over many ticks).
CellsExact ==
    phase \in {"messages", "views", "endTick"} =>
        \A l \in Layers : Exists(l) =>
            cells[l] = {Home(e) : e \in {f \in Entities : status[f] = "live" /\ layer[f] = l}}

\* Unless all messages fit one leaf, a client may have an entity where it is not.
Astray == IF FitsOneLeaf(Chunks) THEN {} ELSE {Elsewhere}

\* Where a client may have an entity that is in its view, and one that is not.
Expected(c, e, astray) ==
    IF /\ status[e] = "live"
       /\ layer[e] \in visible[c]
       /\ layerStatus[layer[e]] = "live"
       /\ ChunkOf(pos[e]) \in View(pos[c])
    THEN {pos[e]} \cup astray ELSE {NotShown}

\* At the end of a tick a client has exactly the other entities that are in its
\* view in a layer visible to it: no ghost stays and none is missing while
\* entities and client move, change layers, come and go in one tick, in whatever
\* order a split hierarchy has the messages.  Each is where it is, save for those
\* spawned after their packet by a split hierarchy (client.rs:783-909, 1020-1208).
ClientSeesEntities ==
    phase = "endTick" =>
        \A c \in Players : status[c] = "live" =>
            \A e \in Entities \ {c} : shown[c][e] \in Expected(c, e, Astray)

\* What the comment at client.rs:847-849 is after: the packet of the movement of
\* an entity comes in a later iteration than its spawn, so that at the end of a
\* tick a client has each entity in its view where it is.
EntitiesInPlace ==
    phase = "endTick" =>
        \A c \in Players : status[c] = "live" =>
            \A e \in Entities \ {c} : shown[c][e] \in Expected(c, e, {})

\* send_entity_update_messages finds every entity of every cell in the world and
\* without Despawned, or it stops the server: "was not properly removed from
\* entity layer. Did you forget to use the `Despawned` component?"
\* (entity.rs:500-505).
UpdatesFindEntities ==
    phase = "messages" =>
        \A l \in Layers : Exists(l) =>
            \A home \in cells[l] : status[home[1]] = "live"

=============================================================================
